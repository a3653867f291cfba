CONSTANTS
    NULL = NULL
    MsgLen = 2
    BufSize = 3
    LOG_LEVEL_2 = FALSE
    MaxRequestTokens = 4
    MaxResponseTokens = 3
SPECIFICATION FairSpec
INVARIANTS
    TypeOK
    Watched
    Backpressure
    ServerOnlyWhenClientPaused
    RequestStream
    HistoryIsIncompleteRequest
    ResponseInOrder
    KeptUnlessCut
    PageComesLast
    SlowRequestIntact
    UnsentIsScheduledOnceStored
    Wired
PROPERTY PausedClientResumes
CHECK_DEADLOCK FALSE
