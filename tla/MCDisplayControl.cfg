SPECIFICATION FairSpec
CONSTANTS
    Fault <- AllFaults
    MaxChanges = 6
    MaxBus = 2
INVARIANT DisplayTypeOK
INVARIANT HiddenOnceAnswered
INVARIANT PauseIsAgreed
PROPERTY BlankingIsPaused
CHECK_DEADLOCK FALSE
