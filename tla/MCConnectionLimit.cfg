SPECIFICATION FairSpec
CONSTANTS
    c1 = c1
    c2 = c2
    c3 = c3
    c4 = c4
    Conns = {c1, c2, c3, c4}
    MaxConnections = 2
    WordSize = 8
    HasDelay = TRUE
INVARIANTS
    CountExact
    LimitHolds
PROPERTIES
    DecisionsEnd
CHECK_DEADLOCK FALSE
