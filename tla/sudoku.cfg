SPECIFICATION FairSpec
CONSTANTS
    Side = 2
    MaxFilled = 2
    Original <- MCOriginal
    Puts <- MCPuts
INVARIANTS
    TypeOK
    AnswersInStep
    OkTrue
PROPERTIES
    OnlyAsTyped
    Answered
    ServerEnds
CHECK_DEADLOCK FALSE
