SPECIFICATION Spec
CONSTANTS
    Projects = {p1, p2}
    Uploads = {u1, u2}
    Deletions = {x1, x2}
    Owner = Owner
    MaxCrashes = 0
INVARIANTS
    DeletedProjectLeavesNoFiles
CHECK_DEADLOCK FALSE
