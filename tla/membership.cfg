\* Members a and b and the outsider c: one addition, two removals, one commit,
\* one push and one fetch; a process may die anywhere.
CONSTANTS
    a = a
    b = b
    c = c
    Clients = {a, b, c}
    Joined <- JoinedAB
    Refs = {"main"}
    MaxPushRetries = 2
    Budget <- MembershipBudget
    CrashesAllowed = TRUE
SPECIFICATION Spec
INVARIANTS
    RosterChain
    SignerInBoundRoster
    PinsCommitted
    KeyConfined
    GenerationNamesKey
PROPERTIES
    PinsFollowChains
\* Every operation may have been used up: the clients then stop.
CHECK_DEADLOCK FALSE
