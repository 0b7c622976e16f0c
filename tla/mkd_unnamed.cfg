SPECIFICATION FairSpec
CONSTANTS
    s1 = s1
    s2 = s2
    Sessions <- MCSessions
    Names = {0}
PROPERTIES
    MkdAnswered
CHECK_DEADLOCK FALSE
