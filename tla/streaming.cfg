CONSTANTS
    c1 = c1
    c2 = c2
    k = k
    Callers = {c1, c2}
    Events <- MCEvents
    SeqNo <- MCSeqNo
    Stamp <- MCStamp
    Policies <- MCPolicies
    Lateness = 1
    MaxAge = 1
    MaxLag = 1
    Consumer = k
    MaxPending = 2
    HighWatermark = 1
    LowWatermark = 0
    AckTimeout = 1
    MaxCalls = 4
SPECIFICATION Spec
CHECK_DEADLOCK FALSE
INVARIANTS
    TypeOK
    AtMostOnce
    NothingLost
    NoCapacityLeak
PROPERTIES
    InOrder
    GapsEnd
