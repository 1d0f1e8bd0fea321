SPECIFICATION Spec
CONSTANTS
    Mailboxes = {"m1"}
    Databases = {}
    Archives = {"good", "unsafe", "anonymous"}
    MaxLosses = 1
PROPERTIES
    Settles
CHECK_DEADLOCK FALSE
