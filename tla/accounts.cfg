SPECIFICATION AccountSpec
CONSTANTS
    Users = {early, late}
    Early = {early}
    Logins = {l1, l2, l3}
    Confirming = {TRUE, FALSE}
INVARIANTS
    SyncedSinceTriggers
    NeverToldTooMuch
    ConflictOnlyIfRaced
CHECK_DEADLOCK FALSE
