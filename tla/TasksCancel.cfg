CONSTANTS
    Token = {2, 3}
    MaxConnections = 2
    Size = {1, 2}
    Capacities = {1, 2}
    ChanCap = 2
    TurnSteps = 2
    TurnBatch = 2
    MaxChunks = 1
    MaxFrames = 0
    Preloaded = TRUE
    Interrupts = TRUE
    Cancel = TRUE
    Hangup = TRUE
    Recheck = FALSE
SPECIFICATION Spec
INVARIANTS
    SchedulerConsistent
    AssertionsHold
    NoLostCredit
    NoSilentSignal
    RetainedAccounted
CHECK_DEADLOCK FALSE
