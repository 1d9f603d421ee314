SPECIFICATION FairSpec
CONSTANTS
    Events = {e1}
    Subs = {s1}
    Registered = {e1}
    Called = {s1}
    Workers = {w1, w2}
    Nobody = Nobody
    None = None
    MaxAttempts = 2
    BatchSize = 1
    DispatchLimit = 2
    MayCrash = {w1}
    Overrun = FALSE
    FaultCap = 1
    ClaimCap = 4
    RedeliverCap = 1
    SwitchCap = 2
INVARIANTS TypeOK OnlyOwedLeaves
PROPERTIES KeepsContract EveryEventDispatched EveryDeliverySettled
CHECK_DEADLOCK FALSE
