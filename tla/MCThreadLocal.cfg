SPECIFICATION FairSpec
CONSTANTS
    w1 = w1
    w2 = w2
    s1 = s1
    s2 = s2
    Main = main
    Null = Null
    Workers = {w1, w2}
    Slots = {s1, s2}
    MaxSets = 2
    MaxUpdates = 1
INVARIANTS
    SlotDataOwned
    CompletionIsLast
PROPERTIES
    NoPostAfterExit
    ImplementsSlotStore
    ObjectsReleased
    CompletionRuns
CHECK_DEADLOCK FALSE
