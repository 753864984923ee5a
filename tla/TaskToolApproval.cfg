SPECIFICATION Spec
CONSTANTS
    MaxAnswers = 2
INVARIANTS
    ApprovedCallProceeds
CHECK_DEADLOCK FALSE
