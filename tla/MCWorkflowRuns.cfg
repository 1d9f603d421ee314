SPECIFICATION FairSpec
CONSTANTS
    Workflows = {f1}
    VersionCap = 2
    Events = {e1}
    Dates = {d1}
    Mails = {f1}
    Workers = {w1, w2}
    None = None
    BatchSize = 2
    MayCrash = {w1}
    Overrun = FALSE
    FaultCap = 1
    ClaimCap = 3
    SwitchCap = 1
INVARIANTS TypeOK NoChainReaction OneRunPerEvent
PROPERTIES KeepsContract EveryRunFinishes
CHECK_DEADLOCK FALSE
