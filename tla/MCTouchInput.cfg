SPECIFICATION FairSpec
CONSTANTS
    Node = {event0, event1}
    Fault <- AllFaults
    MaxPlugs = 3
INVARIANT TouchTypeOK
INVARIANT NothingMissed
PROPERTY TouchStartsAgent
CHECK_DEADLOCK FALSE
