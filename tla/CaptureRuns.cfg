SPECIFICATION FairSpec
CONSTANTS
    Conns = {1, 2}
    Configs <- MCConfigs
    U64Max = 24
    Kinds <- MCKinds
    MaxPayloads = 1
    MaxFaults = 1
    MaxSignals = 1
    Ends = {"CleanEof", "Truncated"}
CHECK_DEADLOCK FALSE
INVARIANTS
    TypeOK
    ExitHonest
    NoFalseAlarm
    Concluded
    StatusTrue
    WithinBounds
PROPERTY StopExits
