CONSTANTS
    NULL = NULL
    Conn = {c1, c2, c3, c4}
    Buf = {b1, b2, b3, b4}
    MAX_CONNECTION = 3
    MAX_HYBRID_POOL = 1
    MaxLingering = 1
    MaxLeaked = 1
SPECIFICATION Spec
SYMMETRY Symmetry
INVARIANTS
    TypeOK
    CountExact
    HistoryIsPrivate
    HistoryIsClean
    HistoryBudget
    BudgetCoversConnections
CHECK_DEADLOCK FALSE
