SPECIFICATION Spec

CONSTANTS
    Instances = {i1, i2}
    NoInstance = NoInstance
    Muter = Muter
    Other = Other
    Clients <- MCClients
    Sends <- MCSends
    Overlap = TRUE

INVARIANTS
    SurvivorReachable
