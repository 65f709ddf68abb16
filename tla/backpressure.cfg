CONSTANTS
    k1 = k1
    k2 = k2
    Consumers = {k1, k2}
    Events = {e}
    MaxPending = 2
    HighWatermark = 2
    LowWatermark = 1
    MaxGlobal = 3
    AckTimeout = 1
    MaxEntries = 4
    Registrations <- MCRegistrations
SPECIFICATION Spec
INVARIANTS
    GlobalBound
    PausedAtHigh
PROPERTIES
    CapacityKept
    DispatchInOrder
    PauseEnds
