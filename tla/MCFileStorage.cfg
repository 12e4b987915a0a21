SPECIFICATION FairSpec
CONSTANTS
    Projects = {p1, p2}
    Uploads = {u1, u2}
    Deletions = {x1, x2}
    Owner = Owner
    MaxCrashes = 1
INVARIANTS
    TypeOK
    RowsHaveFiles
    FilesAreAccounted
    EmptyDirectoriesAreVisited
PROPERTIES
    OrphansVanish
CHECK_DEADLOCK FALSE
