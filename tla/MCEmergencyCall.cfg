SPECIFICATION FairSpec
CONSTANTS
    Fault <- OfonoFaults
    MaxCalls = 4
    MaxRequests = 4
INVARIANT EmergencyTypeOK
INVARIANT CallUnderControl
INVARIANT NoCallLeftBehind
INVARIANT OnlyEmergencyNumbers
PROPERTY CallGoesOn
CHECK_DEADLOCK FALSE
