SPECIFICATION Spec

CONSTANTS
    NoFile = NoFile
    Unreadable = Unreadable
    Binaries <- MCBinaries
    EnvFiles <- MCEnvFiles
    Starts <- MCStarts
    BusMayHang = FALSE
    MaxChanges = 0

INVARIANT
    TargetIsTheUsers

CHECK_DEADLOCK FALSE
