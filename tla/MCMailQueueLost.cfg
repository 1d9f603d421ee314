SPECIFICATION Spec
CONSTANTS
    Ids = {m1}
    Workers = {w1}
    WebPasses = {p1}
    Configured = {"web", "worker"}
    None = None
    MaxAttempts = 2
    BatchSize = 1
    MayCrash = {w1}
    WebRestarts = 1
    Overrun = FALSE
    FaultCap = 1
    ClaimCap = 3
INVARIANTS OpenHasContent
CHECK_DEADLOCK FALSE
