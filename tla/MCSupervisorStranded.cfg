SPECIFICATION Spec

CONSTANTS
    N = 2
    Pids = {p1, p2, p3}
    NoPid = NoPid
    Window = 4
    Threshold = 3
    Backoff = 3
    MaxGap = 2
    SpawnMayFail = {2}
    ProbeMayFail = {}
    ReplyMayBeLost = FALSE
    PidReuse = FALSE

SYMMETRY PidSymmetry

INVARIANTS
    BackoffScheduled
