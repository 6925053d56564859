SPECIFICATION MCSpec
CONSTANTS
    Key = {k1}
    Request = {q1, q2}
    PosTtl = 2
    NegTtl = 1
    IamFlight = 1
    Threshold = 2
    BreakerPause = 1
    NoKey = NoKey
    Meter = {"m1", "m2"}
    DeviceKey = {"a", "b"}
    KeyTtl <- MCKeyTtl
    AbsentTtl = 1
    MaxFlight = 1
    MaxCounter = 2
    Nothing = Nothing
    Caller = {r1, r2}
    Instance = {i1, i2}
    MaxSek = 3
    MaxKekLoss = 1
    MaxUnwrapFault = 1
    NoSek = NoSek
    SigLen = 1
    NumZones = 3
    Kilo = 10
    Missing = Missing
INVARIANTS
    TypeOK
    KeysJudgedForAReason
    OnlyAuthentic
    CounterIsSound
    DecodedSafely
    AnswersAreTrue
    OneKeyFleet
    ConversionsAreExact
SYMMETRY Interchangeable
CHECK_DEADLOCK FALSE
