CONSTANTS
    Meter = {m1}
    Width = 2
    Grace = 1
    Retention = 2
    MaxTime = 7
    MaxEnergy = 1
    Reading <- Energies
SPECIFICATION FairSpec
INVARIANTS
    ReopenedOnlyBeyondRetention LateOnlyBeyondGrace
PROPERTY SilentMeterSettles
\* Once the clock has reached its bound and every bin is settled, nothing moves.
CHECK_DEADLOCK FALSE
