SPECIFICATION Spec
CONSTANTS
    Workflows = {f1}
    VersionCap = 2
    Events = {e1, e2}
    Dates = {}
    Mails = {f1}
    Workers = {w1, w2}
    None = None
    BatchSize = 1
    MayCrash = {w1, w2}
    Overrun = FALSE
    FaultCap = 0
    ClaimCap = 2
    SwitchCap = 1
INVARIANTS FailedSentNothing
CHECK_DEADLOCK FALSE
