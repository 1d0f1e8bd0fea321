SPECIFICATION TimedSpec
CONSTANTS
    Domains = {d1}
    Users <- OneUser
    Conns = {c1}
    NoUser = NoUser
    NoDomain = NoDomain
    Legacy = {}
    Ops <- EditOps
    Faults <- LiveFaults
    Candidates <- OneName
    Overlap = "any"
INVARIANT TlsHasCert
PROPERTY Answered
PROPERTY HandlersEnd
