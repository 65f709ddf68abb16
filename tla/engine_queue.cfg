CONSTANTS
    a1 = a1
    a2 = a2
    a3 = a3
    d1 = d1
    d2 = d2
    oA = oA
    oB = oB
    Commands = {a1, a2, a3}
    Orders = {oA, oB}
    OrderOf <- MCOrderOf
    Drains = {d1}
    SerializePerOrder = TRUE
    EnableIdempotency = TRUE
    IgnoreResultStoreErrors = TRUE
    IgnoreHistoryErrors = FALSE
    IgnoreObserverErrors = FALSE
    StartAwaitsDrain = TRUE
    MaxAttempts = 1
    MaxCrashes = 0
SPECIFICATION Spec
INVARIANTS
    StoppedIsIdle
    TailsMatchQueues
PROPERTY QueueSpec
