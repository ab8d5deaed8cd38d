SPECIFICATION Spec
CONSTANTS
    a = a
    b = b
    c = c
    r1 = r1
    r2 = r2
    Files = {a, b, c}
    Size <- Sizes
    Cap = 2
    MaxFileSize = 2
    Parallel = 2
    Requests = {r1, r2}
CONSTRAINT OnlyOneRepeated
INVARIANTS
    FloorPending
    NeverUndercharged
    OvershootBounded
    RefundsAddUp
CHECK_DEADLOCK FALSE
