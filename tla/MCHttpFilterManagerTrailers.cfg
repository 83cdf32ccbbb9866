SPECIFICATION Spec
CONSTANTS
    N = 3
    MaxChunks = 3
    BufferLimit = 2
    Cautious = FALSE
INVARIANT
    TrailersOnce
CHECK_DEADLOCK FALSE
