CONSTANTS
    N = 3
    k1 = k1
    k2 = k2
    Keys <- OneKey
SPECIFICATION Spec
CHECK_DEADLOCK FALSE
PROPERTIES
    RunningTaskRecords
