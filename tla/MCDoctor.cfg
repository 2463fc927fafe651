SPECIFICATION Spec

CONSTANTS
    p = p
    q = q
    NoFile = NoFile
    NoPath = NoPath
    Names <- MCNames
    Patterns <- MCPatterns
    Paths <- MCPaths
    Initial <- MCInitial
    MaxChanges = 2

INVARIANTS
    TypeOK
    BrokenIsFound
    AlarmIsReal
    InspectsTheFleet
    MembershipSeen

CHECK_DEADLOCK FALSE
