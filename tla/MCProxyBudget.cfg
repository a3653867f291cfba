CONSTANTS
    NULL = NULL
    Conn = {c1, c2, c3, c4}
    Buf = {b1, b2, b3, b4}
    MAX_CONNECTION = 3
    MAX_HYBRID_POOL = 1
    MaxLingering = 0
    MaxLeaked = 2
SPECIFICATION Spec
SYMMETRY Symmetry
INVARIANT NeverOutOfDescriptors
CHECK_DEADLOCK FALSE
