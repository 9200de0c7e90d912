SPECIFICATION Spec
\* an episode ends: the clock stops at MaxTime
CHECK_DEADLOCK FALSE
CONSTANTS
    Episodes = {e1, e2}
    Period = 2
    MaxActionsPerChunk = 2
    ChunkLengths = {1, 3}
    MaxRequests = 2
    MaxTime = 5
    MaxTicks = 3
    MaxResets = 1
SYMMETRY EpisodeSymmetry
INVARIANTS
    OnceAndInOrder
    InItsTime
    CoverageIsHonest
PROPERTIES
    TailKept
