SPECIFICATION FairSpec
CONSTANTS
    Users = {u1}
    Requests = {r1, r2}
    LastDay = 2
    Configured <- MCConfigured
    Transactions <- MCTransactions
    Reward <- MCReward
    Amounts = {}
    Window = 1
    MaxFailures = 1
    NoTx = NoTx
INVARIANTS
    CheckinsAreNotFarmed
PROPERTIES
    PurchaseSettles
