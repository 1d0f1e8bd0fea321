SPECIFICATION Spec
CONSTANTS
    Domains = {d1}
    Users <- OneUser
    Conns = {c1, c2}
    NoUser = NoUser
    NoDomain = NoDomain
    Legacy = {}
    Ops <- Suspension
    Faults = {"badvhost"}
    Candidates <- OneName
    Overlap = "none"
INVARIANT SuspendedServesStub
