SPECIFICATION Spec
CONSTANTS
    Targets = {lds, l1}
    Listeners = {l1}
    StaticPrimary = {"p"}
    StaticSecondary = {"s"}
    DynamicPrimary = {"dp"}
    DynamicSecondary = {"ds"}
    PhaseMayChange = FALSE
    MaxUpdates = 3
    MaxLateUpdates = 2
    MaxVersions = 2
INVARIANTS
    ReferencesValid
    TargetCountExact
    NotifiedOnceAllReady
    InitializationTracked
PROPERTIES
    StartupOrder
    StartupFinishes
    WarmingEnds
CHECK_DEADLOCK FALSE
