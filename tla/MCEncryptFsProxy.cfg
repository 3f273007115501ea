SPECIFICATION EncryptSpec
CONSTANTS
    qa = qa
    settings = settings
    Client <- MCClient
    NoClient = NoClient
    Fault <- OnlyFsProxy
INVARIANT ResultIsFinal
