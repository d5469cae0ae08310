CONSTANTS
    N = 3
    Protocols <- OnlyKeygen
    MayFail = TRUE
SPECIFICATION Spec
CHECK_DEADLOCK FALSE
INVARIANTS
    ErrorIsReturned
