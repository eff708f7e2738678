\* One addition and one removal by different members, no crash.
CONSTANTS
    a = a
    b = b
    c = c
    Clients = {a, b, c}
    Joined <- JoinedAB
    Refs = {"main"}
    MaxPushRetries = 2
    Budget <- RaceBudget
    CrashesAllowed = FALSE
SPECIFICATION Spec
INVARIANTS
    ConsistentAtRest
\* Every operation may have been used up: the clients then stop.
CHECK_DEADLOCK FALSE
