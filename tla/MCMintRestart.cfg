CONSTANTS
    Field = {f1}
    MaxAge = 1
    Permits = 1
    BatchSize = 1
    Slot = {s1}
SPECIFICATION RestartSpec
PROPERTY LeavesRetryPath
\* Once every entry is confirmed or parked nothing is left to do.
CHECK_DEADLOCK FALSE
