CONSTANTS
    Kinds <- AckedKinds
    ReadCount = 2
    ClaimCount = 1
    Workers = 1
    Length = 2
    MaxQueue = 1
SPECIFICATION FairSpec
PROPERTY PendingIsResolved
