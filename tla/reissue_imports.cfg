\* A membership change by a member that has not fetched, no crash.
CONSTANTS
    a = a
    b = b
    c = c
    Clients = {a, b, c}
    Joined <- JoinedAB
    Refs = {"main"}
    MaxPushRetries = 2
    Budget <- MembershipBudget
    CrashesAllowed = FALSE
SPECIFICATION Spec
INVARIANTS
    NothingToImport
\* Every operation may have been used up: the clients then stop.
CHECK_DEADLOCK FALSE
