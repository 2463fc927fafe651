SPECIFICATION Spec

CONSTANTS
    Users = {u1}
    Binaries <- MCBinaries
    Units <- MCUnits
    Provided <- MCProvided
    MaxFaults = 0
    MaxRuns = 1
    MaxEdits = 0

INVARIANTS
    AutologinWired

CHECK_DEADLOCK FALSE
