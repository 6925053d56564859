CONSTANTS
    Field = {f1, f2}
    MaxAge = 1
    Permits = 2
    BatchSize = 2
    Slot = {s1, s2}
SPECIFICATION BacklogSpec
INVARIANTS OneRoundTrip PermitBound
SYMMETRY Symmetry
\* Once every entry is confirmed or parked nothing is left to do.
CHECK_DEADLOCK FALSE
PROPERTY KeepsTheLedger
