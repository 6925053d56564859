SPECIFICATION MCSpec
CONSTANTS
    None = None
    Nil = Nil
    Frequency = {495, 500, 505}
    LowHz = 498
    HighHz = 502
    Cooldown = 1
    Retries = 2
    Csv <- Csvs
    Legacy <- Legacies
    MaxProgram = 2
    Event = {e1}
    Content <- Contents
    PruneAge = 1
    Fallback = 3
    MaxTime = 2
    MaxChange = 1
    MaxCrash = 1
INVARIANT TypeOK
PROPERTIES CooldownHeld FailedRetriesAtOnce ExcursionKeepsActing NoReExecution
           CancellationIsNoticed AsapIsExecuted
CHECK_DEADLOCK FALSE
