SPECIFICATION MCSpec
CONSTANTS
    Capacity = 2
    BatchSize = 2
    MaxItem = 3
    Sender = {s1, s2}
    RebuildAfter = 2
    MaxCrash = 2
    NoSender = NoSender
    Hz = {0, 49, 52}
    MinHz = 40
    MaxHz = 70
    Window = 2
    MaxSample = 4
    NoEvent = NoEvent
    Limit = 2
    CleanEvery = 2
    MaxRecord = 3
    MaxStart = 1
INVARIANTS
    TypeOK
    EveryItemAccounted
    RebuildIsEarned
    EventIsFresh
PROPERTIES
    EveryItemLeaves
    ClientsHeal
    KeepsThePromise
    EverythingArrives
CHECK_DEADLOCK FALSE
