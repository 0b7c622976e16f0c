SPECIFICATION BoardSpec
CONSTANTS
    Side = 2
    MaxFilled = 2
    Original <- MCOriginal
INVARIANTS
    BoardTypeOK
    VerifyExact
PROPERTIES
    ImplementsMatrix
