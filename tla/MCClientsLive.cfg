SPECIFICATION ClientFairSpec
CONSTANTS
    ui_client = ui_client
    Client <- MCClient
    NoClient = NoClient
    Fault <- MountableFaults
    ManageFault <- UsbFaults
    UsbModeAtStart <- AllUsbModes
    CanCrash = FALSE
    MaxStarts = 1
INVARIANT PreparedHomeIsMasked
PROPERTY RestartRestoresHost
PROPERTY FinalizingRestartsSession
PROPERTY EncryptionIsAnswered
PROPERTY HomeIsKept
\* Nothing is left to do when the session has been restarted.
CHECK_DEADLOCK FALSE
