\* One process clones into a path that may hold a file of the user.
CONSTANTS
    p1 = p1
    p2 = p2
    Procs = {p1}
    MaxKey = 1
    MaxManifest = 1
    MaxOps = 2
SPECIFICATION Spec
PROPERTIES
    OnlyDirectoriesRemoved
\* All operations may have been used up.
CHECK_DEADLOCK FALSE
