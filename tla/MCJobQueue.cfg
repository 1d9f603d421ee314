SPECIFICATION FairSpec
CONSTANTS
    j1 = j1
    j2 = j2
    j3 = j3
    Ids = {j1, j2, j3}
    Keys = {k}
    NoKey = NoKey
    Workers = {w1, w2}
    Nobody = Nobody
    NoJob = NoJob
    Kind <- KindThree
    MaxAttempts = 2
    BatchSize = 2
    MayCrash = {w1}
    MayStop = {w1}
    Overrun = FALSE
    FaultCap = 1
    ClaimCap = 4
    Mixes <- MCMixes
INVARIANTS TypeOK SingleRunner TxExactlyOnce
PROPERTIES OnlyHolderSettles KeepsContract EverySettled StopCompletes
CHECK_DEADLOCK FALSE
