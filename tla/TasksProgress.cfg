CONSTANTS
    Token = {2, 3}
    MaxConnections = 2
    Size = {1}
    Capacities = {1}
    ChanCap = 1
    TurnSteps = 3
    TurnBatch = 1
    MaxChunks = 1
    MaxFrames = 0
    Preloaded = FALSE
    Interrupts = FALSE
    Cancel = FALSE
    Hangup = FALSE
    Recheck = FALSE
SPECIFICATION FairSpec
INVARIANTS
    NoLostReadiness
PROPERTIES
    ClosedPeerRetires
CHECK_DEADLOCK FALSE
