SPECIFICATION Spec
CONSTANTS
    N = 3
    MaxChunks = 3
    BufferLimit = 2
    Cautious = TRUE
INVARIANTS
    StateAsAsserted
    DataIntact
    PausedByAFilter
PROPERTIES
    NoCallbackAfterResponse
    RequestDelivered
CHECK_DEADLOCK FALSE
