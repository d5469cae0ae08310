CONSTANTS
    M = 5
    Own <- OneOwn
    Cap = 5
SPECIFICATION Spec
CHECK_DEADLOCK FALSE
INVARIANTS
    NothingStranded
