SPECIFICATION MCSpec
CONSTANTS
    Clients = {c1, c2}
    TrustProxy = TRUE
    Cost = 3
    Burst = 0
    IdleTTL = 1
    Horizon = 6
    NoClient = NoClient
    NoBucket = NoBucket
    Calls = {k1, k2, k3}
    DBMaxConns = 0
    DefaultConns = 2
    MaxAsks = 1
    Rows = {x1, x2}
    RetreatRow = x1
    Uploads = {w1}
    BatchSizes = {1, 2}
    Limits = {0, 3}
    MaxPageLimit = 1
    LibraryCap = 2
    MaxFiles = 3
    NoUpload = NoUpload
    NoWalk = NoWalk
    Emails = {e1}
    Passwords = {p1, p2}
    Logins = {l1}
    JWTTTL = 2
    LastTick = 4
    MaxRestarts = 2
    NoAccount = NoAccount
    NoLogin = NoLogin
    Players = {1, 2}
    Readers = {g1}
    BoardSize = 1
    MaxScore = 2
    NoReading = NoReading
INVARIANTS
    ServiceTypeOK
    Throttled
    ConnectionsComeBack
    NothingIsMissing
    AdminsLapse
    AchievementsWereEarned
PROPERTIES
    ShutdownEnds
CHECK_DEADLOCK FALSE
