SPECIFICATION FairSpec
CONSTANTS
    Ids = {m1, m2}
    Workers = {w1}
    WebPasses = {p1}
    Configured = {"web", "worker"}
    None = None
    MaxAttempts = 2
    BatchSize = 2
    MayCrash = {w1}
    WebRestarts = 1
    Overrun = FALSE
    FaultCap = 1
    ClaimCap = 4
INVARIANTS TypeOK OnlySentLoseContent ErasedWhenDone
PROPERTIES KeepsContract EveryMailSettled
CHECK_DEADLOCK FALSE
