SPECIFICATION FairSpec
CONSTANTS
    MaxAnswers = 2
INVARIANTS
    TypeOK
    ApprovalGate
    CompletedHasReply
    StatusTrue
PROPERTIES
    ApprovedRuns
CHECK_DEADLOCK FALSE
