SPECIFICATION FairSpec
CONSTANTS
    Episodes = {e1}
    MaxRestarts = 1
    StopOutcomes = {"reaped"}
    Deadlines = {TRUE}
    MaxRequests = 2
    MaxResets = 1
PROPERTIES
    EveryRequestSettled
    CloseReaps
