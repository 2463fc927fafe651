SPECIFICATION FairSpec

CONSTANTS
    N = 2
    Pids = {p1, p2, p3, p4}
    NoPid = NoPid
    Window = 4
    Threshold = 3
    Backoff = 3
    MaxGap = 2
    SpawnMayFail = {1}
    ProbeMayFail = {2}
    ReplyMayBeLost = TRUE
    PidReuse = FALSE

INVARIANTS
    BootOrder
    StormLimit

PROPERTIES
    DeathNoticed
    HealthyRecovers
