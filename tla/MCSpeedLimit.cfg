CONSTANTS
    Speeds = {0, 1, 3}
    BufSize = 3
    MaxInbox = 2
    MaxStrays = 1
SPECIFICATION FairSpec
INVARIANTS
    TypeOK
    QuotaRespected
    Attended
    FoundAtShutdown
PROPERTY TransferGoesOn
CHECK_DEADLOCK FALSE
