SPECIFICATION Spec
CONSTANTS
    Callers = {c1, c2}
    Subs = {s1}
    NoSub = none
    MaxConnects = 3
    MaxCalls = 4
    ReadyOnOpen = TRUE
INVARIANTS ReadyIsLive ActiveIsServed InactiveIsSilent
PROPERTY DestroyedIsFinal
CHECK_DEADLOCK FALSE
