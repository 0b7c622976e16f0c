SPECIFICATION FairSpec
CONSTANTS
    s1 = s1
    s2 = s2
    Sessions <- MCSessions
    Names = {0, 1}
INVARIANTS
    TypeOK
    InStep
    OnlyEntitled
    ToldTrue
PROPERTIES
    Answered
CHECK_DEADLOCK FALSE
