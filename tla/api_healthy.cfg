SPECIFICATION Spec
CONSTANTS
    Domains = {d1, d2}
    Users <- TwoUsers
    Conns = {c1, c2}
    NoUser = NoUser
    NoDomain = NoDomain
    Legacy = {}
    Ops <- AllOps
    Faults <- Benign
    Candidates <- OwnBase
    Overlap = "distinct"
INVARIANT TypeOK
INVARIANT RowMatchesDisk
INVARIANT RowTellsTheTruth
INVARIANT SuspendedServesStub
INVARIANT PreservedIsSite
PROPERTY ImplementsService
