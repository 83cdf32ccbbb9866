SPECIFICATION Spec
CONSTANTS
    NumFilters = 2
    Limit = 1
    Configs <- AllConfigs
    SendRoom = 1
    MaxReceive = 2
    MaxWrite = 2
    MaxDisable = 1
INVARIANTS
    ReadDisableBalanced
    NoWakeupLost
    FiltersOnlyWhileOpen
    OneCloseEvent
    DelayedCloseTimerRuns
    EndOfStreamKept
    ConnectedIsReal
    ClosingIsWoken
CHECK_DEADLOCK FALSE
