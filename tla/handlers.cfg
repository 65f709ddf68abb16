CONSTANTS
    f1 = f1
    g1 = g1
    f2 = f2
    x = x
    submit = submit
    cancel = cancel
    replace = replace
    reconcile = reconcile
    NoId = NoId
    Fills <- MCFills
    FillQty <- MCFillQty
    ExIds <- MCExIds
    Commands = {submit, cancel, replace, reconcile}
    Op <- MCOp
    KnowsId = {}
    ExId = x
    Qty = 2
    ClockMayLag = TRUE
    MaxAttempts <- MCAttempts
    MaxCrashes = 1
SPECIFICATION Spec
ACTION_CONSTRAINT OneRequest
CHECK_DEADLOCK FALSE
INVARIANTS
    FinalMeansDead
    WriteAhead
PROPERTIES
    ReconciliationSettles
    RepositoryAdvances
    EventsFollowPersistence
