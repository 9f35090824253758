CONSTANTS
    Token = {2, 3}
    MaxConnections = 2
    Size = {1, 2}
    Capacities = {1, 2}
    ChanCap = 1
    TurnSteps = 2
    TurnBatch = 2
    MaxChunks = 1
    MaxFrames = 1
    Preloaded = TRUE
    Interrupts = TRUE
    Cancel = FALSE
    Hangup = FALSE
    Recheck = FALSE
SPECIFICATION Spec
INVARIANTS
    TypeOK
    BoundedBypass
    EndedIsLast
CHECK_DEADLOCK FALSE
