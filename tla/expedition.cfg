SPECIFICATION MCSpec
CONSTANTS
    Users = {u1}
    Requests = {r1, r2}
    Admins = {a1}
    Band = 1
    Cap = 3
    MaxLevels = 4
    Configs <- MCConfigs
    Campaign <- MCPlain
    MaxEdits = 1
    MaxBonus = 1
    NoConfig = NoConfig
    NoJob = NoJob
    NoTask = NoTask
SYMMETRY MCSymmetry
INVARIANTS
    TypeOK
    NobodySkipsAhead
    AwardedOnce
    ViewAgreesWithGate
PROPERTIES
    StarsAreKept
