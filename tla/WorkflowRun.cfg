SPECIFICATION FairSpec
CONSTANTS
    Graphs <- AllGraphs
    MaxNodeExecutions = 10
    MaxLoopIterations = 2
INVARIANTS
    TypeOK
    NeverReentered
    JoinStandsOnParents
    LastParentRunsJoin
    LoopServesEveryItem
    CompletedHasNoFailure
PROPERTIES
    ExecutionEnds
