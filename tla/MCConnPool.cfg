SPECIFICATION Spec
CONSTANTS
    c1 = c1
    c2 = c2
    s1 = s1
    s2 = s2
    s3 = s3
    NoOne = NoOne
    Clients = {c1, c2}
    Streams = {s1, s2, s3}
    LifetimeLimit = 3
    ConcurrentLimit = 2
    SettingsLimits = {0, 1}
    MaxLowered = 1
    MaxConnections = 2
    MaxPendingRequests = 3
    MaxRequests = 2
INVARIANTS
    CountersExact
    NoPendingWhileReady
    DeletedPoolIsIdle
PROPERTIES
    PendingStreamsKept
    PendingAnswered
    DrainedPoolDeleted
