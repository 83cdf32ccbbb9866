SPECIFICATION FairEchoSpec
CONSTANTS
    NumFilters = 1
    Limit = 2
    Configs <- EchoConfigs
    SendRoom = 2
    MaxReceive = 5
    MaxWrite = 0
    MaxDisable = 0
PROPERTIES
    ImplementsEchoService
    EchoesInTheEnd
CHECK_DEADLOCK FALSE
