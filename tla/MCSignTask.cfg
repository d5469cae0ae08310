CONSTANTS
    N = 3
    s1 = s1
    s2 = s2
    Sigs <- TwoSigs
SPECIFICATION FairSpec
CHECK_DEADLOCK FALSE
INVARIANTS
    TypeOK
    NoLostEvent
    SuccessLeavesNothing
PROPERTIES
    KeepsPromise
    TaskSettles
