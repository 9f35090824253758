CONSTANTS
    Records <- MCRecords
    Id = "c1"
    SampleRate = "8k"
    Line <- MCLine
    CountMax = 13
    U32Max = 38
SPECIFICATION HistorySpec
INVARIANTS
    SummaryTrue
    FinishedSound
    HistoryCoherent
PROPERTY
    FailureStops
