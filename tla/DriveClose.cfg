CONSTANTS
    MaxConnections = 2
    TokenMax = 4
    CounterMax = 9
    TurnBatch = 1
    AcceptBatch = 2
    MaxArrivals = 3
    MaxChunks = 0
    MaxFaults = 0
    Calls = {"close", "stop"}
    Recheck = FALSE
SPECIFICATION Spec
INVARIANTS
    TicketsAnswered
    ResultTrue
    TypeOK
PROPERTIES
    ResultStable
CHECK_DEADLOCK FALSE
