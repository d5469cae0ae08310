CONSTANTS
    N = 3
    R = 2
    Faulty <- OneNode
SPECIFICATION FairSpec
CHECK_DEADLOCK FALSE
INVARIANTS
    TypeOK
    ShareNeedsEveryNode
    SkipsOnlyLastRound
    LostMessageNoResult
PROPERTIES
    TaskCompletes
