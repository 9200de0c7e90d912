SPECIFICATION FairSpec
CONSTANTS
    Episodes = {e1, e2}
    MaxRequests = 2
    MaxInvalidations = 2
INVARIANTS
    TypeOK
    NoSilentLoss
    CleanInference
PROPERTIES
    ImplementsLatestOnly
    EveryRequestSettled
    CloseStopsWorker
