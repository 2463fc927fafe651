SPECIFICATION FairSpec

CONSTANTS
    NoFile = NoFile
    Unreadable = Unreadable
    Binaries <- MCBinaries
    EnvFiles <- MCEnvFiles
    Starts <- MCStarts
    BusMayHang = TRUE
    MaxChanges = 2

INVARIANTS
    TypeOK
    NamesTheRightParts
    SpeaksOfTheWorst

PROPERTIES
    StampedWithADate
    VerdictComes

CHECK_DEADLOCK FALSE
