SPECIFICATION FairSpec
CONSTANTS
    N = 3
    Blank = {}
    Agents = {a1, a2}
    Temporary = {a2}
    Leftover = {"idle", "completed"}
    MaxConcurrentAgents = 2
INVARIANTS
    TypeOK
    OutputsDelivered
    SlotBound
    FailurePropagates
    DoneIsFinal
    LifecycleRunning
PROPERTIES
    RunsOnce
    KeepsPromise
    Termination
