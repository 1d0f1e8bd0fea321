SPECIFICATION Spec
CONSTANTS
    Domains <- SomeDomains
    Reserved <- SomeReserved
    LinuxMax = 8
    BaseMax = 6
    Slots = 2
INVARIANT GeneratedIsAccepted
INVARIANT TurnedAwayOnlyWhenFull
