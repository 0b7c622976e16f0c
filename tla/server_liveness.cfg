SPECIFICATION FairSpec
CONSTANTS
    MaxConns = 2
    MaxLines = 0
    FdLimit = 2
    WaitingClients = 1
    InitThreads = 1
INVARIANTS
    
    AddressesValid
PROPERTIES
    StopWaitsOnlyForHandlers
    Greeted
CHECK_DEADLOCK FALSE
