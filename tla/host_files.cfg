SPECIFICATION Spec
CONSTANTS
    Workers = {w1, w2}
    Mailboxes <- Addresses
    StartsWith <- Prefixes
    Jobs = {"j1", "j2"}
    Records = {"r1", "r2", "r3"}
    SOA = "SOA"
    Refused <- Conflicts
    MaxRequests = 3
INVARIANTS
    TypeOK
    AcknowledgedKept
    AcknowledgedServed
    DeletedGone
PROPERTIES
    WorkersReturn
CHECK_DEADLOCK FALSE
