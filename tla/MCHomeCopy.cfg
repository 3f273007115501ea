SPECIFICATION FairSpec
CONSTANTS
    local = local
    rest = rest
    Part <- MCPart
    Fault <- AnsweredFaults
    LastVersion = 2
    MaxReboots = 2
INVARIANT CopyTypeOK
INVARIANT NothingLost
PROPERTY EncryptsOnlyCompleteCopy
PROPERTY PageIsAnswered
PROPERTY RestorationIsAnswered
CHECK_DEADLOCK FALSE
