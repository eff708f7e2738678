\* Two processes of one user run three operations in one directory; the other
\* members rotate the key once and publish once more.
CONSTANTS
    p1 = p1
    p2 = p2
    Procs <- MCProcs
    MaxKey = 2
    MaxManifest = 2
    MaxOps = 3
SPECIFICATION Spec
SYMMETRY MCSymmetry
INVARIANTS
    TypeOK
    StateReadable
    CloneRetriable
PROPERTIES
    StateKept
    RemovesOwn
\* All operations may have been used up.
CHECK_DEADLOCK FALSE
