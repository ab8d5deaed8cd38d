SPECIFICATION Spec
CONSTANTS
    ChunkSize = 2
    MaxSize = 3
    Downloads = {o, v1, v2}
    Owners = {o}
    Visitors = {v1, v2}
    Pages = {}
    Asks <- AskSets
    Limits = {1, Unlimited}
    Unlimited = Unlimited
    MaxCount = 1
SYMMETRY Symmetry
INVARIANTS
    StreamExact
    RangeHonoured
    EveryStreamCounted
    LimitOvershoot
PROPERTIES
    ShutStaysShut
CHECK_DEADLOCK FALSE
