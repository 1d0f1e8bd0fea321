SPECIFICATION Spec
CONSTANTS
    Domains = {d1}
    Users <- OneUser
    Conns = {c1}
    NoUser = NoUser
    NoDomain = NoDomain
    Legacy = {}
    Ops <- DomainOpsReload
    Faults <- DomainFaults
    Candidates <- OneName
    Overlap = "any"
INVARIANT TlsHasCert
INVARIANT RowsHaveOwnUser
INVARIANT BackupIsTransient
