\* Members a and b and the outsider c: one full rekey, one removal, one commit,
\* two pushes and one fetch; a process may die anywhere.  The calls of a are
\* answered; those of b and c may hang for good.
CONSTANTS
    a = a
    b = b
    c = c
    Clients = {a, b, c}
    Joined <- JoinedAB
    Refs = {"main"}
    MaxPushRetries = 2
    Budget <- RekeyBudget
    CrashesAllowed = TRUE
    Answered = {a}
SPECIFICATION AnsweredSpec
INVARIANTS
    RefsCovered
    HeadPacksStored
PROPERTIES
    OperationsReturn
\* Every operation may have been used up: the clients then stop.
CHECK_DEADLOCK FALSE
