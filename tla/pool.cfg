SPECIFICATION Spec
CONSTANTS
    Callers = {a, b}
    Exchanges = {e1, e2}
    None = None
    MaxConns = 3
    MaxTotal = 2
    MaxPerExchange = 2
    EvictFailed = TRUE
    MaxCalls = 4
CHECK_DEADLOCK FALSE
INVARIANTS
    LimitsKept
    LeasesAreSound
    NoneStranded
PROPERTY
    CallsEnd
