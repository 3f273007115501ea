SPECIFICATION Spec
CONSTANTS
    Fault <- HangUpFaults
    MaxCalls = 2
    MaxRequests = 2
INVARIANT ErrorMeansNotCalling
CHECK_DEADLOCK FALSE
