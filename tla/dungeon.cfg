SPECIFICATION Spec
CONSTANTS
    Users = {u1}
    Requests = {r1, r2}
    GridRows = 2
    GridCols = 3
    MinMonsters = 1
    MaxMonsters = 2
    Layouts <- MCLayouts
    Legacy <- MCLegacy
    Energy = 4
    MaxVersion = 2
    NoMap = NoMap
    NoImage = NoImage
    NoCell = NoCell
    NoProgress = NoProgress
    NoJob = NoJob
    NoSave = NoSave
SYMMETRY MCSymmetry
INVARIANTS
    TypeOK
    WalkIsPaid
    NoMonsterSkipped
    AwardedOnce
PROPERTIES
    TreasureIsKept
CHECK_DEADLOCK FALSE
