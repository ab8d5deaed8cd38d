SPECIFICATION Spec
CONSTANTS
    two = two
    one = one
    empty = empty
    sweep = sweep
    sweep2 = sweep2
    deferred = deferred
    NoFile = NoFile
    MaxChunks = 2
    ChunkCount <- Counts
    Kind <- Kinds
    BatchSize = 2
    Files = {two, empty}
    Requests = {r1, r2}
    Jobs = {sweep, sweep2, deferred}
    Faults = {"lostReply", "insert", "crash", "abort", "drop", "refuse"}
INVARIANTS
    CommittedIntact
PROPERTIES
    ImplementsStore
CHECK_DEADLOCK FALSE
