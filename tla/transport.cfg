SPECIFICATION FairSpec
CONSTANTS
    MaxBytes = 6
    Sizes <- MCSizes
    Window = 2
INVARIANTS
    TypeOK
    ShortOnlyAtEnd
    SuccessMeansSent
PROPERTIES
    ImplementsStream
    SendReturns
    ReceiveReturns
CHECK_DEADLOCK FALSE
