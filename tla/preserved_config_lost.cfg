SPECIFICATION Spec
CONSTANTS
    Domains = {d1}
    Users <- OneUser
    Conns = {c1, c2}
    NoUser = NoUser
    NoDomain = NoDomain
    Legacy = {}
    Ops <- AllOps
    Faults = {"commit"}
    Candidates <- OneName
    Overlap = "none"
INVARIANT PreservedIsSite
