SPECIFICATION Spec
CONSTANTS
    Users = {u1}
    Requests = {r1, r2}
    MaxLevel = 3
    xpBase = 1
    Rewards <- MCRewards
    Earned = {1, 3}
    MaxPages = 3
    MaxXP = 6
    NoJob = NoJob
SYMMETRY MCSymmetry
INVARIANTS
    TypeOK
    PagesInOrder
    NobodyReadsAhead
    AwardedOnce
