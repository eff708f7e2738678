\* Three names, one repo, two requests at a time, one invite; the process may
\* die once.
CONSTANTS
    Users = {u1, u2, u3}
    Repos = {"r"}
    Workers = {w1, w2}
    TokenTTL = 1
    InviteTTL = 1
    MaxClock = 2
    MaxInvites = 1
    MaxStarts = 2
SPECIFICATION Spec
SYMMETRY Symmetry
INVARIANTS
    TypeOK
    OneEnabledAdmin
    AccountsAreEarned
    WritersOnly
    FreshLoginNeeded
\* The clock and the process may have been stopped for good.
CHECK_DEADLOCK FALSE
