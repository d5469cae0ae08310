CONSTANTS
    N = 3
    Protocols <- Both
    MayFail = TRUE
SPECIFICATION FairSpec
CHECK_DEADLOCK FALSE
INVARIANTS
    TypeOK
    NeverStuck
    NoDeadlock
    ClosesAtTheEnd
PROPERTIES
    RunCompletes
