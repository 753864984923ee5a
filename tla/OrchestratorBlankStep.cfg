SPECIFICATION FairSpec
CONSTANTS
    N = 3
    Blank = {1}
    Agents = {a1, a2}
    Temporary = {a2}
    Leftover = {"idle", "completed"}
    MaxConcurrentAgents = 2
PROPERTY
    Termination
