SPECIFICATION Spec
CONSTANTS
    Domains = {d1}
    Users <- OneUser
    Conns = {c1, c2}
    NoUser = NoUser
    NoDomain = NoDomain
    Legacy = {}
    Ops <- CreateRebuild
    Faults = {}
    Candidates <- OneName
    Overlap = "any"
INVARIANT BackupKept
