SPECIFICATION LiveSpec
CONSTANTS
    two = two
    one = one
    empty = empty
    sweep = sweep
    sweep2 = sweep2
    deferred = deferred
    NoFile = NoFile
    MaxChunks = 2
    ChunkCount <- Counts
    Kind <- Kinds
    BatchSize = 1
    Files = {two, one}
    Requests = {r1}
    Jobs = {sweep, deferred}
    Faults = {}
INVARIANTS
    MessagesAccounted
PROPERTIES
    ImplementsDeletes
    ImplementsLiveStore
    AbandonedReclaimed
    RemovedReclaimed
CHECK_DEADLOCK FALSE
