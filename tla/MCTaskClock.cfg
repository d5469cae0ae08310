CONSTANTS
    Nodes = {n1, n2}
    MaxPush = 2
    Wait = 5
    Registry = 6
    ExpiresAfter = 4
    TempKeyTTL = 4
    RecordTTL = 12
    KeyTTL = 24
    EarlyTTL = 4
    MaxTime = 14
SPECIFICATION Spec
SYMMETRY Symmetry
CHECK_DEADLOCK FALSE
INVARIANTS
    TypeOK
    KeysCollected
    EarlyKept
    KeysOutliveTask
PROPERTIES
    ReportsHeard
