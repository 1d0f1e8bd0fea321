SPECIFICATION Spec
CONSTANTS
    Domains = {d1, d2, d3}
    Users <- TwoUsers
    Conns = {c1}
    NoUser = NoUser
    NoDomain = NoDomain
    Legacy = {d3}
    Ops <- DomainOps
    Faults <- Benign
    Candidates <- SameBase
    Overlap = "none"
INVARIANT OneUserPerWebroot
