SPECIFICATION LiveSpec
CONSTANTS
    d1 = d1
    u1 = u1
    out = out
    Callers = {d1, u1, out}
    Jobs = {d1, u1}
    Kind <- KindOf
    Nobody = Nobody
    MaxConcurrent = 1
    MaxPairs = 3
    Retries = 1
INVARIANTS
    TypeOK
    SlotsExact
    SingleFlight
PROPERTIES
    TransfersEnd
CHECK_DEADLOCK FALSE
