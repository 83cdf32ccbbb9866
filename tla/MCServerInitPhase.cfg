SPECIFICATION Spec
CONSTANTS
    Targets = {lds, l1}
    Listeners = {l1}
    StaticPrimary = {"p"}
    StaticSecondary = {"s"}
    DynamicPrimary = {"dp"}
    DynamicSecondary = {"ds"}
    PhaseMayChange = TRUE
    MaxUpdates = 2
    MaxLateUpdates = 2
    MaxVersions = 2
INVARIANT InitEntriesAlive
CHECK_DEADLOCK FALSE
