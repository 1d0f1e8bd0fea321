SPECIFICATION Spec
CONSTANTS
    Domains = {d1, d2}
    Users <- TwoUsers
    Conns = {c1, c2}
    NoUser = NoUser
    NoDomain = NoDomain
    Legacy = {}
    Ops <- CreateDelete
    Faults = {}
    Candidates <- SameBase
    Overlap = "distinct"
INVARIANT OneUserPerWebroot
