SPECIFICATION FairSpec
CONSTANTS
    Episodes = {e1}
    MaxRestarts = 1
    StopOutcomes = {"reaped", "unkillable", "transport_stuck", "raises"}
    Deadlines = {FALSE}
    MaxRequests = 2
    MaxResets = 0
PROPERTIES
    EveryRequestSettled
