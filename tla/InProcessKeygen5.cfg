CONSTANTS
    N = 5
    Protocols <- OnlyKeygen
    MayFail = FALSE
SPECIFICATION Spec
CHECK_DEADLOCK FALSE
INVARIANTS
    NeverStuck
