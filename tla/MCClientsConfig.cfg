SPECIFICATION ClientFairSpec
CONSTANTS
    ui_client = ui_client
    Client <- MCClient
    NoClient = NoClient
    Fault <- OnlyConfigItems
    ManageFault <- NoFault
    UsbModeAtStart <- AllUsbModes
    CanCrash = FALSE
    MaxStarts = 1
PROPERTY FinalizingRestartsSession
CHECK_DEADLOCK FALSE
