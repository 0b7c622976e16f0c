SPECIFICATION Spec
CONSTANTS
    MaxConns = 2
    MaxLines = 1
    FdLimit = 1
    WaitingClients = 1
    InitThreads = 2
PROPERTIES
    KeepsListening
CHECK_DEADLOCK FALSE
