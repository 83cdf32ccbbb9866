SPECIFICATION EchoSpec
CONSTANTS
    NumFilters = 1
    Limit = 2
    Configs <- EchoConfigs
    SendRoom = 2
    MaxReceive = 3
    MaxWrite = 0
    MaxDisable = 0
INVARIANTS
    EchoesBeforeClose
CHECK_DEADLOCK FALSE
