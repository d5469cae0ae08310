CONSTANTS
    M = 5
    Own <- OneOwn
    Cap = 2
SPECIFICATION FairSpec
CHECK_DEADLOCK FALSE
INVARIANTS
    TypeOK
    ExactlyOnce
PROPERTIES
    DropsOnlyWhenFull
    SessionEnds
