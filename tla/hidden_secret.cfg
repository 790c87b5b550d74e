SPECIFICATION Spec
CONSTANTS
    Users = {u1}
    Requests = {r1, r2, r3}
    Tiles = {t1, t2, t3}
    Images = {i1, i2}
    MaxBoards = 2
    NoSecret = NoSecret
    NoProgress = NoProgress
    NoImage = NoImage
    NoJob = NoJob
SYMMETRY MCSymmetry
INVARIANTS
    TypeOK
    WholeInGallery
    AwardedOnce
PROPERTIES
    TilesAreKept
CHECK_DEADLOCK FALSE
