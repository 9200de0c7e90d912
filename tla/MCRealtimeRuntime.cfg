SPECIFICATION RuntimeFairSpec
\* the last run ends, and an open backend's worker then waits for ever
CHECK_DEADLOCK FALSE
CONSTANTS
    Episodes = {e1}
    MaxRequests = 2
    MaxInvalidations = 4
    Modes = {FALSE, TRUE}
    HistorySize = 2
    TickCount = 3
    MaxRuns = 2
INVARIANTS
    LiveIsOnItsWay
    WaitingIsWanted
    OwnResults
    CleanedUp
PROPERTIES
    RunEnds
