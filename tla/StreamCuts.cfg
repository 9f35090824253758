CONSTANTS
    Messages <- MCMessages
    MaxMessages = 3
    UuidBytes = 1
    Radix = 3
    PayloadCapacity = 3
    ReadBytes = 6
    OffsetMax = 14
    Rates = {"8k"}
    SampleRate = "8k"
    CountMax = 1000
    U32Max = 38
SPECIFICATION StrictSpec
INVARIANTS
    EventsExact
    OffsetsBacked
    RecordedFaithfully
    StrictExact
