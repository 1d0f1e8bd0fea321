SPECIFICATION Spec
CONSTANTS
    Mailboxes = {"m1"}
    Databases = {"d1"}
    Archives = {"good"}
    MaxLosses = 0
INVARIANTS
    OwnedAfterRestore
CHECK_DEADLOCK FALSE
