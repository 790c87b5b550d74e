SPECIFICATION FairSpec
CONSTANTS
    Users = {u1}
    Requests = {r1, r2}
    Admins = {a1}
    Dates = {1}
    LastDay = 4
    Rows <- MCRows
    Claims <- MCClaims
    Times <- MCTimes
    NoRow = NoRow
    NoJob = NoJob
INVARIANTS
    TypeOK
    AwardedOnce
    TotalsAddUp
    NothingPlayedEarly
PROPERTIES
    FinishedIsFinal
    EveryWinSettles
