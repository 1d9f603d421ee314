SPECIFICATION Spec
CONSTANTS
    Sessions = {s1, s2}
    MonthCount = 2
    Sales = {b1}
    Manual = {x1}
    Nobody = Nobody
    Earning <- MCEarning
    SoldIn <- MCSoldIn
    Meets <- MCMeets
INVARIANTS MonthsInOrder
CHECK_DEADLOCK FALSE
