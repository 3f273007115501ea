SPECIFICATION Spec
CONSTANTS
    Fault <- NoFault
    AtStart <- EmptyAtStart
    MaxChanges = 1
    MaxBus = 2
    MaxQuestions = 2
INVARIANT EmptyBatteryShutsDown
CHECK_DEADLOCK FALSE
