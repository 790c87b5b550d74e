SPECIFICATION Spec
CONSTANTS
    Users = {u1, u2}
    Requests = {r1, r2}
    LastDay = 1
    Configured <- MCConfigured
    Transactions <- MCTwoStores
    Reward <- MCReward
    Amounts <- MCAmounts
    Window = 1
    MaxFailures = 1
    NoTx = NoTx
SYMMETRY MCSymmetry
INVARIANTS
    TypeOK
    LedgerMatchesBalances
PROPERTIES
    ExactlyOnce
