SPECIFICATION EncryptFairSpec
CONSTANTS
    qa = qa
    settings = settings
    Client <- MCClient
    NoClient = NoClient
    Fault <- MostFaults
INVARIANT EncryptTypeOK
INVARIANT PendingWorkOwnsData
INVARIANT ResultIsFinal
INVARIANT FinishedIsEncrypted
INVARIANT UnitConfOnlyForLuks
PROPERTY PromiseKept
PROPERTY KnownDeviceIsTold
\* A device that cannot be opened kills the service, which nobody starts again here.
CHECK_DEADLOCK FALSE
