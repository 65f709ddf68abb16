CONSTANTS
    a1 = a1
    a2 = a2
    a3 = a3
    d1 = d1
    d2 = d2
    oA = oA
    oB = oB
    Commands = {a1, a2}
    Orders = {oA}
    OrderOf <- MCOrderOf
    Drains = {d1}
    SerializePerOrder = TRUE
    EnableIdempotency = TRUE
    IgnoreResultStoreErrors = FALSE
    IgnoreHistoryErrors = TRUE
    IgnoreObserverErrors = TRUE
    StartAwaitsDrain = TRUE
    MaxAttempts = 2
    MaxCrashes = 1
SPECIFICATION FairSpec
INVARIANTS
    SuccessIsStored
    OneVerdict
    CountsBalance
PROPERTIES
    SavedNeverRedispatched
    EveryCommandSettles
    EveryDrainReturns
