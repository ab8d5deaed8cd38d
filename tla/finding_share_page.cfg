SPECIFICATION Spec
CONSTANTS
    ChunkSize = 2
    MaxSize = 1
    Downloads = {v1}
    Owners = {}
    Visitors = {v1}
    Pages = {v1}
    Asks <- AskSets
    Limits = {1}
    Unlimited = Unlimited
    MaxCount = 1
INVARIANTS
    LimitPermitsDownloads
CHECK_DEADLOCK FALSE
