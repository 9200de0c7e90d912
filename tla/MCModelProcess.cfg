SPECIFICATION FairSpec
\* a stopped process is not used again
CHECK_DEADLOCK FALSE
CONSTANTS
    Episodes = {"e1","e2"}
    Generations = {0, 1}
    Shapes = {s1, s2}
    MaxWarmups = 2
    MaxRequests = 3
INVARIANTS
    HandshakeInOrder
    OwnHistory
    OneShape
PROPERTIES
    EveryCallReturns
    TransportEnds
