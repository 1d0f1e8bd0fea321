SPECIFICATION Spec
CONSTANTS
    Domains = {d1, d2}
    Users <- TwoUsers
    Conns = {c1, c2}
    NoUser = NoUser
    NoDomain = NoDomain
    Legacy = {d1, d2}
    Ops <- CreateDelete
    Faults = {}
    Candidates <- SameBase
    Overlap = "any"
INVARIANT RowsHaveOwnUser
SYMMETRY RaceSymmetry
