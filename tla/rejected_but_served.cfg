SPECIFICATION Spec
CONSTANTS
    Domains = {d1}
    Users <- OneUser
    Conns = {c1, c2}
    NoUser = NoUser
    NoDomain = NoDomain
    Legacy = {}
    Ops <- CreateVhost
    Faults = {"badvhost"}
    Candidates <- OneName
    Overlap = "distinct"
PROPERTY RejectedNotServed
