SPECIFICATION Spec
CONSTANTS
    Tasks = {t1}
    Slots = {g1, g2, g3}
    MaxRetries = 1
    RunHistorySize = 1
    MaxActive = 2
    MaxEdits = 1
SYMMETRY SlotSymmetry
INVARIANTS
    TypeOK
    EndIsRecorded
    ResultTrue
CHECK_DEADLOCK FALSE
