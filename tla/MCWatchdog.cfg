SPECIFICATION FairSpec

CONSTANTS
    Units = {u1, u2, other}
    Fleet = {u1, u2}
    NoUnit = NoUnit
    InitialBackoff = 1
    MaxBackoff = 5
    GiveUpAfter = 5
    MaxGap = 3
    StartErrorLeaves = {"failed", "inactive"}
    CallsMayFail = TRUE
    OperatorActs = TRUE
    MayBeRestarted = TRUE

INVARIANTS
    TypeOK
    BackoffMatchesFailures
    MinimumWait
    GiveUpIsReported

PROPERTIES
    DryRunOnlyLooks
    FailedIsAttended
