SPECIFICATION Spec
CONSTANTS
    Letters <- MCLetters
    MaxFile = 7
    MaxString = 10
    Bytes <- MCLetters
    Keywords <- MCKeywords
    MaxLine = 8
INVARIANTS
    ConfigTypeOK
    ConfigFaithful
    RequestRead
PROPERTIES
    ConfigEnds
CHECK_DEADLOCK FALSE
