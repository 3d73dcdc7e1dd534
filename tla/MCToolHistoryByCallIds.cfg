CONSTANTS
    TTL = 1
    IdsGiven = FALSE
    MaxCalls = 1
    MaxRequests = 3
    MaxTime = 2
SPECIFICATION Spec
INVARIANTS
    FallbackLinksRight
CHECK_DEADLOCK FALSE
