CONSTANTS
    NULL = NULL
    MsgLen = 2
    BufSize = 3
    LOG_LEVEL_2 = TRUE
    MaxRequestTokens = 3
    MaxResponseTokens = 2
SPECIFICATION Spec
INVARIANT NoCrash
CHECK_DEADLOCK FALSE
