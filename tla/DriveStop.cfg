CONSTANTS
    MaxConnections = 1
    TokenMax = 3
    CounterMax = 9
    TurnBatch = 1
    AcceptBatch = 1
    MaxArrivals = 1
    MaxChunks = 0
    MaxFaults = 1
    Calls = {"close", "stop"}
    Recheck = TRUE
SPECIFICATION FairSpec
INVARIANTS
    NoSilentControl
    NoLostListener
PROPERTIES
    KeepsContract
    StopCompletes
    TicketsComplete
CHECK_DEADLOCK FALSE
