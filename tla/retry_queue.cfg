SPECIFICATION LiveSpec
CONSTANTS
    Messages = {m1}
    Pieces = {p1}
    Drains = {d1, d2}
    MaxAttempts = 2
    RetryBatch = 2
    MaxTransient = 3
    MaxDeaths = 1
INVARIANTS
    TypeOK
    DescriptorsKept
    ParkedLate
PROPERTIES
    ImplementsDeletes
    QueueDrains
