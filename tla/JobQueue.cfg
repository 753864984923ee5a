SPECIFICATION FairSpec
CONSTANTS
    MaxJobs = 2
    Sizes = {0, 2}
    QueueCapacity = 1
    Workers = 1
    MaxAttempts = 2
    KeptJobs = 1
    MaxRestarts = 1
INVARIANTS
    TypeOK
    CompletedMeansDone
    CancelStands
    OutcomeKept
PROPERTIES
    Drained
CHECK_DEADLOCK FALSE
