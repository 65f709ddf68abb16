CONSTANTS
    f1 = f1
    f2 = f2
    f3 = f3
    x1 = x1
    x2 = x2
    NoId = NoId
    Fills <- MCFills
    FillQty <- MCFillQty
    ExIds <- MCExIds
    Qty = 3
    MaxVersion = 14
SPECIFICATION LifeSpec
CHECK_DEADLOCK FALSE
INVARIANTS
    ReturnedOrdersValid
    FilledIsSumOfFills
