SPECIFICATION Spec
CONSTANTS
    Users = {u1}
    Requests = {r1, r2}
    Admins = {a1}
    Band = 1
    Cap = 2
    MaxLevels = 2
    Configs <- MCConfigs
    Campaign <- MCLadder
    MaxEdits = 1
    MaxBonus = 0
    NoConfig = NoConfig
    NoJob = NoJob
    NoTask = NoTask
PROPERTIES
    RemovalTakesNoStars
