CONSTANTS
    MaxConnections = 2
    TokenMax = 5
    CounterMax = 2
    TurnBatch = 1
    AcceptBatch = 2
    MaxArrivals = 3
    MaxChunks = 3
    MaxFaults = 0
    Calls = {"drop"}
    Recheck = FALSE
SPECIFICATION Spec
INVARIANTS
    SummaryExact
    NoSilentControl
PROPERTIES
    KeepsContract
CHECK_DEADLOCK FALSE
