---------------------------- MODULE LoginThrottle ----------------------------
(***************************************************************************)
(* The two layers in front of the password check of /auth/login            *)
(* (internal/server/throttle.go, handleLogin): a backoff window for the    *)
(* address and for the name, kept in the database, and a bound on the      *)
(* password checks that run at once, kept in the process.                  *)
(*                                                                         *)
(* A login reads the clock when it arrives and uses that reading to the    *)
(* end: to prune, to judge the windows, and to open new ones.  Statements  *)
(* and transactions are atomic; logins interleave between them.            *)
(***************************************************************************)
EXTENDS Integers, FiniteSets

CONSTANTS
    Addresses,   \* keys of scope 'ip'
    Names,       \* keys of scope 'user', presented by anybody
    Known,       \* the names that have an account
    Workers,     \* logins the server can have in progress
    Base,        \* LoginBackoffBase, in seconds
    MaxBackoff,  \* LoginBackoffMax, in seconds
    Grace,       \* ThrottlePruneGrace, in seconds
    MaxArgon2,   \* MaxConcurrentArgon2
    MaxClock,    \* bound: seconds
    MaxLogins    \* bound: logins that arrive

ASSUME ThrottleAssumption ==
    /\ Known \subseteq Names /\ Names \cap Addresses = {}
    /\ Base \in Nat \ {0} /\ MaxBackoff \in Nat
    /\ Grace \in Nat /\ MaxArgon2 \in Nat \ {0}
    /\ MaxClock \in Nat /\ MaxLogins \in Nat

VARIABLES
    row,      \* login_throttle: failures in a row and the end of the window
    slots,    \* argon2Sem: slots taken
    req,      \* worker: the login in progress
    arrived,  \* logins so far
    clock

vars == <<row, slots, req, arrived, clock>>

Keys  == Addresses \cup Names
NoRow == [count |-> 0, until |-> 0]
PCs   == {"idle", "prune", "windows", "slot", "verify", "fail", "reset"}
None  == "none"
Idle  == [pc |-> "idle", ip |-> None, user |-> None, now |-> 0]
Login == [pc : PCs, ip : Addresses \cup {None}, user : Names \cup {None},
          now : Nat]

KeysOf(w)   == {req[w].ip, req[w].user}
Answer(w)   == req' = [req EXCEPT ![w] = Idle]
Goes(w, pc) == req' = [req EXCEPT ![w].pc = pc]

Init ==
    /\ row = [k \in Keys |-> NoRow]
    /\ slots = 0
    /\ req = [w \in Workers |-> Idle]
    /\ arrived = 0
    /\ clock = 0

-----------------------------------------------------------------------------

\* Bug variant: doubling in an integer of 2 bits, with no exit at the ceiling.
BackoffOverflows(n) ==
    LET b == IF n = 0 THEN 0 ELSE (Base * 2 ^ (n - 1)) % 4
    IN  IF b > MaxBackoff THEN MaxBackoff ELSE b

\* Bug variant: no ceiling.
BackoffUncapped(n) == IF n = 0 THEN 0 ELSE Base * 2 ^ (n - 1)

\* backoffSeconds: doubling until the ceiling is reached.
BackoffSeconds(n) ==
    LET doubled[i \in 1 .. MaxLogins] ==
            LET b == IF i = 1 THEN Base ELSE 2 * doubled[i - 1]
            IN  IF b > MaxBackoff THEN MaxBackoff ELSE b
    IN  IF n = 0 THEN 0 ELSE doubled[n]

Arrive(w, ip, user) ==
    /\ req[w].pc = "idle"
    /\ arrived < MaxLogins
    /\ arrived' = arrived + 1
    /\ req' = [req EXCEPT ![w] = [pc |-> "prune", ip |-> ip, user |-> user,
                                  now |-> clock]]
    /\ UNCHANGED <<row, slots, clock>>

\* Bug variant: the grace is taken off the wrong side.
PruneEarly(w) ==
    /\ req[w].pc = "prune"
    /\ row' = [k \in Keys |-> IF row[k].until < req[w].now + Grace THEN NoRow
                              ELSE row[k]]
    /\ Goes(w, "windows")
    /\ UNCHANGED <<slots, arrived, clock>>

\* throttleStatus, first statement.
Prune(w) ==
    /\ req[w].pc = "prune"
    /\ row' = [k \in Keys |-> IF row[k].until < req[w].now - Grace THEN NoRow
                              ELSE row[k]]
    /\ Goes(w, "windows")
    /\ UNCHANGED <<slots, arrived, clock>>

\* throttleStatus, second statement: 429 inside a window of either key.
ReadWindows(w) ==
    /\ req[w].pc = "windows"
    /\ IF \E k \in KeysOf(w) : row[k].until > req[w].now THEN Answer(w)
       ELSE Goes(w, "slot")
    /\ UNCHANGED <<row, slots, arrived, clock>>

\* acquireArgon2
AcquireArgon2(w) ==
    /\ req[w].pc = "slot"
    /\ slots < MaxArgon2
    /\ slots' = slots + 1
    /\ Goes(w, "verify")
    /\ UNCHANGED <<row, arrived, clock>>

\* Bug variant: the slot that was not acquired is released.
BusyReleases(w) ==
    /\ req[w].pc = "slot"
    /\ slots' = slots - 1
    /\ Answer(w)
    /\ UNCHANGED <<row, arrived, clock>>

\* 503 after Argon2AcquireTimeout.  When a slot is freed at that moment, select
\* takes either branch.
Busy(w) ==
    /\ req[w].pc = "slot"
    /\ Answer(w)
    /\ UNCHANGED <<row, slots, arrived, clock>>

\* Bug variant: a wrong password returns before the slot is released.
VerifyKeepsSlot(w) ==
    /\ req[w].pc = "verify"
    /\ \/ Goes(w, "fail") /\ UNCHANGED slots
       \/ req[w].user \in Known /\ Goes(w, "reset") /\ slots' = slots - 1
    /\ UNCHANGED <<row, arrived, clock>>

\* s.login and release: a wrong password or an unknown name, the right
\* password, or a database error, which is no failure of the caller.
Verify(w) ==
    /\ req[w].pc = "verify"
    /\ slots' = slots - 1
    /\ \/ Goes(w, "fail")
       \/ req[w].user \in Known /\ Goes(w, "reset")
       \/ Answer(w)
    /\ UNCHANGED <<row, arrived, clock>>

\* throttleFail, one transaction; the window starts when the login arrived.
ThrottleFail(w) ==
    /\ req[w].pc = "fail"
    /\ row' = [k \in Keys |->
                 IF k \in KeysOf(w)
                 THEN [count |-> row[k].count + 1,
                       until |-> req[w].now + BackoffSeconds(row[k].count + 1)]
                 ELSE row[k]]
    /\ Answer(w)
    /\ UNCHANGED <<slots, arrived, clock>>

\* throttleReset
ThrottleReset(w) ==
    /\ req[w].pc = "reset"
    /\ row' = [k \in Keys |-> IF k \in KeysOf(w) THEN NoRow ELSE row[k]]
    /\ Answer(w)
    /\ UNCHANGED <<slots, arrived, clock>>

\* A statement or transaction fails: 500, and nothing is written.
DatabaseError(w) ==
    /\ req[w].pc \in {"prune", "windows", "fail", "reset"}
    /\ Answer(w)
    /\ UNCHANGED <<row, slots, arrived, clock>>

\* The slots die with the process, the windows do not.
Restart ==
    /\ req' = [w \in Workers |-> Idle]
    /\ slots' = 0
    /\ UNCHANGED <<row, arrived, clock>>

Tick ==
    /\ clock < MaxClock
    /\ clock' = clock + 1
    /\ UNCHANGED <<row, slots, req, arrived>>

Next ==
    \/ Tick \/ Restart
    \/ \E w \in Workers :
           \/ \E ip \in Addresses, user \in Names : Arrive(w, ip, user)
           \/ Prune(w) \/ ReadWindows(w)
           \/ AcquireArgon2(w) \/ Busy(w) \/ Verify(w)
           \/ ThrottleFail(w) \/ ThrottleReset(w) \/ DatabaseError(w)

Spec == Init /\ [][Next]_vars

-----------------------------------------------------------------------------
(* Properties                                                              *)

\* The type of every variable.
TypeOK ==
    /\ row \in [Keys -> [count : 0 .. MaxLogins, until : Nat]]
    /\ slots \in 0 .. MaxArgon2
    /\ req \in [Workers -> Login]
    /\ arrived \in 0 .. MaxLogins
    /\ clock \in 0 .. MaxClock

\* Every slot that is taken belongs to a password check that is running, so a
\* server whose logins have all been answered has all its slots, whatever the
\* logins' outcomes and however they overlap (acquireArgon2, release).
SlotsReturned == slots = Cardinality({w \in Workers : req[w].pc = "verify"})

\* A key is never locked out: however many logins fail, in whatever order and
\* with whatever clock readings, its window ends within the ceiling from now
\* (backoffSeconds: "a backoff, never a hard lockout").
NoLockout == \A k \in Keys : row[k].until <= clock + MaxBackoff

\* A window in force, or one that ended less than the grace ago, disappears only
\* by a successful login of that name or address: a late login with an old
\* clock reading prunes nothing else (throttleStatus, throttleReset).
WindowsKept ==
    [][\A k \in Keys :
          (row[k] # NoRow /\ row'[k] = NoRow) =>
              \/ row[k].until < clock - Grace
              \/ \E w \in Workers : req[w].pc = "reset" /\ k \in KeysOf(w)]_vars

\* A recorded failure takes from the window of its keys at most the time its
\* login was in progress: windows are opened from the clock reading at arrival,
\* so a slow login may move the end back, but never by more (throttleFail).
WindowShrinksByDelay ==
    [][\A w \in Workers :
          (req[w].pc = "fail" /\ req'[w].pc = "idle" /\ row' # row) =>
              \A k \in KeysOf(w) :
                  row'[k].until >= row[k].until - (clock - req[w].now)]_vars
=============================================================================
