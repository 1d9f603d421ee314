SPECIFICATION Spec
CONSTANTS
    p1 = p1
    p2 = p2
    l1 = l1
    l2 = l2
    Sessions = {s1, s2}
    Places = {p1, p2}
    Lines = {l1, l2}
    Shared = {l2}
    Nobody = Nobody
    Stock0 <- MCStock0
    Need0 <- MCNeed0
    Books0 <- MCTwoPlaces
    Countable = {}
    AllocCap = 4
    Asked <- MCAsked
    Postings <- MCPostings
    Requests = 2
    CountCap = 1
INVARIANT TotalsFollow
CHECK_DEADLOCK FALSE
