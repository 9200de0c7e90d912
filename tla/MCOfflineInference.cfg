SPECIFICATION ReplaySpec
\* a finished replay rests
CHECK_DEADLOCK FALSE
CONSTANTS
    Episodes = {"e1", "e2"}
    MaxRestarts = 1
    StopOutcomes = {"reaped", "unkillable"}
    Deadlines = {FALSE}
    MaxRequests = 3
    MaxResets = 2
    Configs <- MCConfigs
INVARIANTS
    AttemptsAreOwn
    ExitIsHonest
PROPERTIES
    ReplayEnds
