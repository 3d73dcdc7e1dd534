CONSTANTS
    TTL = 1
    IdsGiven = TRUE
    MaxCalls = 2
    MaxRequests = 3
    MaxTime = 2
SPECIFICATION Spec
INVARIANTS
    TypeOK
    SameConversation
    OutputsFollowCalls
    ContinuationsAccepted
    StoredHistoryIsKnown
CHECK_DEADLOCK FALSE
