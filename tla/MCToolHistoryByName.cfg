CONSTANTS
    TTL = 1
    IdsGiven = FALSE
    MaxCalls = 1
    MaxRequests = 3
    MaxTime = 0
SPECIFICATION Spec
INVARIANTS
    ValidNameContinues
CHECK_DEADLOCK FALSE
