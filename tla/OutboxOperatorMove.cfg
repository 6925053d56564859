CONSTANTS
    Field = {f1}
    MaxAge = 1
    Permits = 1
    BatchSize = 1
    Slot = {s1}
SPECIFICATION OperSpec
INVARIANT NoSilentLoss
