CONSTANTS
    N = 3
    k1 = k1
    k2 = k2
    Keys <- TwoKeys
SPECIFICATION Spec
SYMMETRY KeySymmetry
CHECK_DEADLOCK FALSE
INVARIANTS
    TypeOK
    WalletAgreement
    NoLostEvent
PROPERTIES
    FirstReportWins
    KeepsPromise
