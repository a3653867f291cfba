CONSTANTS
    NULL = NULL
    MsgLen = 2
    BufSize = 3
    LOG_LEVEL_2 = FALSE
    MaxRequestTokens = 3
    MaxResponseTokens = 2
SPECIFICATION SignalSpec
INVARIANT NoDanglingEvent
CHECK_DEADLOCK FALSE
