CONSTANTS
    Octet = 4
    PortLo = 3
    PortHi = 4
SPECIFICATION Spec
INVARIANTS
    TypeOK
    NoneTriedTwice
    FailsOnlyWhenFull
