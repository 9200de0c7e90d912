SPECIFICATION Spec
CONSTANTS
    Episodes = {e1, e2}
    MaxRestarts = 0
    StopOutcomes = {"reaped", "unkillable", "transport_stuck", "raises", "raises_late"}
    Deadlines = {TRUE}
    MaxRequests = 2
    MaxResets = 1
SYMMETRY EpisodeSymmetry
INVARIANTS
    OneModel
    OwnProcess
    InnocentSurvives
    NoSilentLoss
    BudgetRespected
PROPERTIES
    ImplementsLatestOnly
