SPECIFICATION Spec
CONSTANTS
    Modes = {FALSE, TRUE}
    HistorySize = 2
    MaxRequests = 3
    MaxBatch = 1
INVARIANTS
    TypeOK
    Lifecycle
    AcceptedInOrder
    SampledOnce
PROPERTIES
    AcceptedOnTime
    CancelledStaysSilent
