CONSTANTS
    f1 = f1
    g1 = g1
    f2 = f2
    x = x
    submit = submit
    cancel = cancel
    replace = replace
    reconcile = reconcile
    NoId = NoId
    Fills = {f2}
    FillQty <- MCFillQty
    ExIds <- MCExIds
    Commands = {submit, replace, reconcile}
    Op <- MCOp
    KnowsId = {}
    ExId = x
    Qty = 2
    ClockMayLag = TRUE
    MaxAttempts <- MCAttempts
    MaxCrashes = 0
SPECIFICATION Spec
CHECK_DEADLOCK FALSE
PROPERTY ReplacementSettles
