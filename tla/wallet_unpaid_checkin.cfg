SPECIFICATION Spec
CONSTANTS
    Users = {u1}
    Requests = {r1, r2}
    LastDay = 2
    Configured <- MCConfigured
    Transactions <- MCTwoStores
    Reward <- MCReward
    Amounts <- MCAmounts
    Window = 1
    MaxFailures = 1
    NoTx = NoTx
INVARIANTS
    CheckinIsPaid
