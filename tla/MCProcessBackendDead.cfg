SPECIFICATION Spec
CONSTANTS
    Episodes = {e1}
    MaxRestarts = 1
    StopOutcomes = {"reaped", "unkillable"}
    Deadlines = {FALSE}
    MaxRequests = 1
    MaxResets = 1
INVARIANTS
    DeadIsUnavailable
