SPECIFICATION Spec
CONSTANTS
    d1 = d1
    other = other
    fallback = fallback
    w1 = w1
    w2 = w2
    Workers <- MCWorkers
    Descriptors <- MCDescriptors
    Default = fallback
    MaxTokens <- MCMaxTokens
    TokensPerFill <- MCTokensPerFill
    FillInterval <- MCFillInterval
    Requests <- MCRequests
    WordSize = 8
    MaxTime = 4
INVARIANTS
    TokensConserved
    AdmissionRateBound
PROPERTIES
    ImplementsTokenBucket
