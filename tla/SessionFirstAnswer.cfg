SPECIFICATION FairSpec
CONSTANTS
    MaxTurns = 1
    MaxAnswers = 2
    MaxAtOnce = 2
    Tools = {t1}
    Desktop = {}
INVARIANT FirstAnswerCounts
CHECK_DEADLOCK FALSE
