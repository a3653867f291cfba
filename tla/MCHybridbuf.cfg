CONSTANTS
    Byte = {b1, b2}
    CacheSize = 2
    MaxData = 5
    MaxFetch = 3
SPECIFICATION Spec
SYMMETRY Symmetry
INVARIANTS
    TypeOK
    Layout
PROPERTY ImplementsTape
