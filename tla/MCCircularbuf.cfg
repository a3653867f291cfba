CONSTANTS
    Byte = {b1, b2}
    BufSize = 4
    MaxOffer = 4
SPECIFICATION Spec
SYMMETRY Symmetry
INVARIANT TypeOK
PROPERTY ImplementsByteQueue
