CONSTANTS
    N = 3
    k1 = k1
    k2 = k2
    Keys <- OneKey
SPECIFICATION FairSpec
CHECK_DEADLOCK FALSE
PROPERTIES
    TaskSettles
