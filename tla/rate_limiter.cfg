SPECIFICATION Spec
CONSTANTS
    Peers = {p1, p2}
    Max = 2
    Window = 2
    MaxTime = 5
INVARIANT TypeOK
INVARIANT WindowBoundSoFar
INVARIANT RefusedOnlyWhenFull
