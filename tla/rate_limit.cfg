SPECIFICATION Spec
CONSTANTS
    a1 = a1
    a2 = a2
    b1 = b1
    b2 = b2
    b3 = b3
    b4 = b4
    user = user
    bot = bot
    channel = channel
    Calls = {a1, b1, b2, b3}
    Kind <- KindOf
    Needs <- NeedsOf
    Buckets = {user, bot, channel}
    Limit <- Limits
    Window <- Windows
    MaxDelay = 1
    MaxTime = 3
INVARIANTS
    BudgetKept
PROPERTIES
    RefusedOnlyWhenFull
CHECK_DEADLOCK FALSE
SYMMETRY Alike
