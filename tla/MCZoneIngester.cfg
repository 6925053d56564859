CONSTANTS
    Kinds <- AllKinds
    ReadCount = 2
    ClaimCount = 2
    Workers = 2
    Length = 2
    MaxQueue = 2
SPECIFICATION Spec
INVARIANTS AckedIsCounted DurableIsCurrent
PROPERTY DurableNeverRecedes
