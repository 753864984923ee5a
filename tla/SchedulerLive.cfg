SPECIFICATION FairSpec
CONSTANTS
    Tasks = {t1}
    Slots = {g1, g2, g3}
    MaxRetries = 1
    RunHistorySize = 1
    MaxActive = 1
    MaxEdits = 1
PROPERTIES
    RunEnds
    EnabledTaskRuns
CHECK_DEADLOCK FALSE
