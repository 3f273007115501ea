SPECIFICATION FairSpec
CONSTANTS
    Fault <- NameFaults
    AtStart <- EmptyAtStart
    MaxChanges = 1
    MaxBus = 2
    MaxQuestions = 2
INVARIANT UnlockTypeOK
INVARIANT CachesAgree
INVARIANT ShutdownTimersRight
INVARIANT DisabledOnlyWhileAnswered
INVARIANT NeverCancels
PROPERTY BatteryRuleFollowed
PROPERTY UnlockEnds
CHECK_DEADLOCK FALSE
