SPECIFICATION FairSpec

CONSTANTS
    Instances = {i1, i2}
    NoInstance = NoInstance
    Muter = Muter
    Other = Other
    Clients <- MCClients
    Sends <- MCSends
    Overlap = TRUE

INVARIANTS
    TypeOK
    TakesOver
    MuteVisible

PROPERTIES
    CallEnds
    UselessLeaves
