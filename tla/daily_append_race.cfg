SPECIFICATION MCAppendSpec
CONSTANTS
    Users = {u1}
    Requests = {r1}
    Admins = {a1, a2}
    Dates = {0, 1, 2}
    LastDay = 2
    Rows <- MCRows
    Claims <- MCClaims
    Times <- MCTimes
    NoRow = NoRow
    NoJob = NoJob
PROPERTIES
    AppendTakesAFreeDate
