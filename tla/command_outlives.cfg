SPECIFICATION Spec
CONSTANTS
    Calls <- Renewals
    CommandTimeout <- Timeouts
    KillGrace = 1
    HANDLER_TIMEOUT = 12
    REQUEST_TIMEOUT = 2
    READ_TIMEOUT = 12
    MaxAge = 16
INVARIANTS
    TimeoutEnforced
