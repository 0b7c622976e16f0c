SPECIFICATION Spec
CONSTANTS
    Side = 2
    MaxFilled = 2
    Original <- MCOriginal
    Puts <- MCPuts
INVARIANTS
    ErrorTrue
CHECK_DEADLOCK FALSE
