\* Two clients, each with a genesis of its own; two runs of publish-genesis and
\* three rosters or manifests after it.
CONSTANTS
    NClients = 2
    Founders = {1, 2}
    MaxWrites = 3
    MaxRuns = 2
    MaxRetries = 2
SPECIFICATION Spec
INVARIANTS
    TypeOK
    ListedPacksStored
    AnswersTrue
PROPERTIES
    RowsFollowPointers
    NoClobber
    ReportsTrue
\* Contents and runs may have been used up.
CHECK_DEADLOCK FALSE
