SPECIFICATION Spec
CONSTANTS
    Episodes = {e1}
    MaxRestarts = 1
    StopOutcomes = {"reaped"}
    Deadlines = {FALSE}
    MaxRequests = 1
    MaxResets = 0
INVARIANTS
    CancelledIsSilent
