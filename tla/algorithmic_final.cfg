CONSTANTS
    c1 = c1
    c2 = c2
    s1 = s1
    k1 = k1
    k2 = k2
    f1 = f1
    g1 = g1
    f2 = f2
    g2 = g2
    Callers = {c1, c2}
    Slices = {s1}
    Orders = {k1, k2}
    Fills = {f1, g1, f2, g2}
    Target <- MCTarget
    FillOf <- MCFillOf
    FillQty <- MCFillQty
    Quantities = {1, 2}
    MaxVersion = 12
SPECIFICATION Spec
ACTION_CONSTRAINT TraderAndControl
CHECK_DEADLOCK FALSE
PROPERTY
    FinalIsFinal
