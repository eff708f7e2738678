\* Two members of a fixed roster, two branches, two commits, three pushes and
\* two fetches; a process may die anywhere.
CONSTANTS
    a = a
    b = b
    c = c
    Clients = {a, b}
    Joined <- JoinedAB
    Refs = {"main", "dev"}
    MaxPushRetries = 3
    Budget <- PushFetchBudget
    CrashesAllowed = TRUE
SPECIFICATION Spec
INVARIANTS
    TypeOK
    ManifestChain
    RefsCovered
    ImportedAreLocal
    NothingToImport
    ConflictsAreProgress
PROPERTIES
    NoLostUpdate
\* Every operation may have been used up: the clients then stop.
CHECK_DEADLOCK FALSE
