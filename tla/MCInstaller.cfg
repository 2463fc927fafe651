SPECIFICATION Spec

CONSTANTS
    Users = {u1, u2}
    Binaries <- MCBinaries
    Units <- MCUnits
    Provided <- MCProvided
    MaxFaults = 2
    MaxRuns = 3
    MaxEdits = 2

INVARIANTS
    TypeOK
    UninstallReverts
    KioskRepairs
    NothingBroken

PROPERTIES
    FollowsPlan
    DryRunWritesNothing
    Reconverges

CHECK_DEADLOCK FALSE
