CONSTANTS
    MaxConnections = 1
    TokenMax = 3
    CounterMax = 9
    TurnBatch = 1
    AcceptBatch = 2
    MaxArrivals = 1
    MaxChunks = 0
    MaxFaults = 0
    Calls = {"close", "stop"}
    Recheck = FALSE
SPECIFICATION FairSpec
PROPERTIES
    NoTicketDuringShutdown
CHECK_DEADLOCK FALSE
