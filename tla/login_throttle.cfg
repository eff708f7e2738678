\* Three logins at a time for two password checks, one address, a name with an
\* account and one without; the ceiling is no power of two times the base.
CONSTANTS
    Addresses = {"ip"}
    Names = {"known", "unknown"}
    Known = {"known"}
    Workers = {w1, w2, w3}
    Base = 1
    MaxBackoff = 3
    Grace = 1
    MaxArgon2 = 2
    MaxClock = 5
    MaxLogins = 4
SPECIFICATION Spec
SYMMETRY Symmetry
INVARIANTS
    TypeOK
    SlotsReturned
    NoLockout
PROPERTIES
    WindowsKept
    WindowShrinksByDelay
