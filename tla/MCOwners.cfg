CONSTANTS
    u1 = u1
    u2 = u2
    w1 = w1
    w2 = w2
    User = {u1, u2}
    Serial = {s1}
    Wallet = {w1, w2}
    None = None
    Holder <- OwnerOf
    OwnMeterDb = TRUE
    MaxMeter = 2
    MaxUser = 2
    MaxStop = 1
    Caller = {"sweep", "mint"}
    NegTtl = 1
    MaxTime = 1
SPECIFICATION MCSpec
INVARIANTS OwnWalletOnly IamWalletStays RegisteredIsNeverDropped
\* Once every event is applied and the clock has stopped nothing is left to do.
CHECK_DEADLOCK FALSE
