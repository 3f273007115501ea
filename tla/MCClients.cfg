SPECIFICATION ClientSpec
CONSTANTS
    ui_client = ui_client
    Client <- MCClient
    NoClient = NoClient
    Fault <- JobFaults
    ManageFault <- AllHostFaults
    UsbModeAtStart <- OneUsbMode
    CanCrash = TRUE
    MaxStarts = 2
INVARIANT ClientTypeOK
INVARIANT JobAndRestartExclude
INVARIANT SecurityCodeIsUsed
PROPERTY HomeIsKept
\* A service that has ended is not started again without its marker.
CHECK_DEADLOCK FALSE
