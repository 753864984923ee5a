SPECIFICATION Spec
CONSTANTS
    Graphs <- RetriedLoops
    MaxNodeExecutions = 10
    MaxLoopIterations = 2
INVARIANTS
    LoopServesEveryItemOnRetry
