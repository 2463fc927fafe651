SPECIFICATION FairSpec

CONSTANTS
    Units = {u1, u2}
    Fleet = {u1, u2}
    NoUnit = NoUnit
    InitialBackoff = 1
    MaxBackoff = 3
    GiveUpAfter = 3
    MaxGap = 2
    StartErrorLeaves = {"failed", "inactive"}
    CallsMayFail = FALSE
    OperatorActs = FALSE
    MayBeRestarted = FALSE

PROPERTIES
    FailedIsResolved
