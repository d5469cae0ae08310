CONSTANTS
    U = 4
    I = 8
    Nodes = {n1, n2}
    w1 = w1
    t1 = t1
    t2 = t2
    Wallets <- OneWallet
    Accounts <- AccountsIn
    Changes <- ChangesIn
    LastIndexes <- LastIn
    Counts <- CountsIn
    MaxCreated = 2
    Blacklist <- Black
    Whitelist <- White
    Calls = {c1}
    Txs <- TxsIn
SPECIFICATION FairSpec
CHECK_DEADLOCK FALSE
INVARIANTS
    TypeOK
    HandedOutIsSignable
    OnePathPerKey
    AnswersInFull
    ListsUsableWallets
PROPERTIES
    CallReturns
