CONSTANTS
    NULL = NULL
    MaxRequests = 3
    MaxBody = 1
    BufSize = 4
SPECIFICATION Spec
INVARIANTS
    TypeOK
    ResponseWhole
    EndNoticed
    NoSpuriousError
CHECK_DEADLOCK FALSE
