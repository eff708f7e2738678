\* Three clients of one directory; nobody dies between the two writes.
SPECIFICATION Spec
CONSTANTS
    Procs = {p1, p2, p3}
    MaxWrites = 4
INVARIANTS
    TypeOK
    SwapBuildsOnRead
PROPERTIES
    ImplementsPointers
