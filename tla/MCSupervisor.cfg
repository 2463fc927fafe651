SPECIFICATION FairSpec

CONSTANTS
    N = 2
    Pids = {p1, p2, p3}
    NoPid = NoPid
    Window = 4
    Threshold = 3
    Backoff = 3
    MaxGap = 2
    SpawnMayFail = {}
    ProbeMayFail = {1}
    ReplyMayBeLost = FALSE
    PidReuse = TRUE

INVARIANTS
    TypeOK
    OneProcessPerChild
    StormLimit
    BackoffScheduled

PROPERTIES
    BackoffHonoured
    PolicySpec
