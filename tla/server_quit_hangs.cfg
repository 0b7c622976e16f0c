SPECIFICATION FairSpec
CONSTANTS
    MaxConns = 1
    MaxLines = 0
    FdLimit = 1
    WaitingClients = 1
    InitThreads = 2
PROPERTIES
    QuitEnds
CHECK_DEADLOCK FALSE
