SPECIFICATION Spec
CONSTANTS
    MaxTurns = 2
    MaxAnswers = 2
    MaxAtOnce = 2
    Tools = {t1, t2}
    Desktop = {t1, t2}
INVARIANTS
    TypeOK
    MessageKept
    DepthBound
    TypingStops
    CallsAnswered
CHECK_DEADLOCK FALSE
SYMMETRY Symmetry
