SPECIFICATION LiveSpec
CONSTANTS
    r1 = r1
    r2 = r2
    r3 = r3
    k1 = k1
    k2 = k2
    Requests = {r1, r2, r3}
    Borrowers = {r1, r2}
    Keys = {k1, k2}
    Shared = Shared
    Kid <- KeyOf
    Published <- Sets
    Clients = {c1, c2}
    Nobody = Nobody
    MaxIdle = 1
    MaxPools = 2
INVARIANTS
    TypeOK
    ActsForHolder
    NoneLost
PROPERTIES
    CacheNeverOlder
    NoFalseRefusal
    Decided
CHECK_DEADLOCK FALSE
