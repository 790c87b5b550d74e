SPECIFICATION MCStaleSpec
CONSTANTS
    Users = {u1}
    Requests = {r1, r2}
    GridRows = 2
    GridCols = 3
    MinMonsters = 1
    MaxMonsters = 2
    Layouts <- MCMoved
    Legacy <- MCMovedLegacy
    Energy = 3
    MaxVersion = 2
    NoMap = NoMap
    NoImage = NoImage
    NoCell = NoCell
    NoProgress = NoProgress
    NoJob = NoJob
    NoSave = NoSave
PROPERTIES
    EveryMonsterDefeated
CHECK_DEADLOCK FALSE
