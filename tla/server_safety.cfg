SPECIFICATION Spec
CONSTANTS
    MaxConns = 2
    MaxLines = 1
    FdLimit = 2
    WaitingClients = 1
    InitThreads = 2
INVARIANTS
    TypeOK
    OwnDescriptor
    ExitJoined
    ExitCloses
    AbortCauses
    HandlersListed
CHECK_DEADLOCK FALSE
