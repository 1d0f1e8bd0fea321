SPECIFICATION Spec
CONSTANTS
    Mailboxes = {"m1"}
    Databases = {"d1"}
    Archives = {"good", "unsafe", "anonymous"}
    MaxLosses = 1
INVARIANTS
    TypeOK
    CleanIsComplete
    ServedAfterOwner
    LinesPerDelivery
    OneOriginal
CHECK_DEADLOCK FALSE
