------------------------- MODULE AccountsProperties -------------------------
(***************************************************************************)
(* What the server promises about accounts, sessions and roles.            *)
(***************************************************************************)
EXTENDS Accounts

\* Every column holds a value of its type.
TypeOK ==
    /\ accounts \in [Users -> {"none", "user", "admin"}]
    /\ disabled \in SUBSET Users
    /\ access \in [Users -> [Repos -> Roles \cup {"none"}]]
    /\ repos \in SUBSET Repos
    /\ boot \in Seq({"live", "used"})
    /\ printed \subseteq 1 .. Len(boot)
    /\ invites \in Seq(Invite)
    /\ sessions \in SUBSET Session
    /\ writers \in [Repos -> SUBSET Users]
    /\ req \in [Workers -> Request]
    /\ server \in {"down", "starting", "up"}
    /\ starts \in 0 .. MaxStarts
    /\ clock \in 0 .. MaxClock
    /\ ended \in SUBSET Users

\* There is never a second admin and the admin there is stays enabled, whatever
\* restarts of the process and admin requests interleave: the instance cannot
\* be locked out by its own disable endpoint (EnsureBootstrap, disableAccount).
OneEnabledAdmin == Cardinality(Admins) <= 1 /\ Admins \cap disabled = {}

\* Accounts correspond one to one to redeemed tokens: no bootstrap token or
\* invite makes two accounts, however redemptions race, and a redemption that
\* fails burns none (consumeBootstrap, consumeInvite).
AccountsAreEarned ==
    Cardinality({u \in Users : Exists(u)}) =
        Cardinality({i \in 1 .. Len(boot) : boot[i] = "used"})
            + Cardinality({i \in 1 .. Len(invites) : invites[i].used})

\* Whoever changed a repo's data is a writer of that repo: being the admin, or a
\* reader, is not enough (authRepo, orthogonality of the admin role).
WritersOnly == \A r \in Repos : \A u \in writers[r] : access[u][r] = "writer"

\* "The user must log in again for a fresh token (disable deleted the old ones)"
\* (enableAccount): once an account was disabled while no login of its user was
\* in progress, no session of it exists until that user begins a login, through
\* any enabling, restart of the server or late statement of another request.
\* A login in progress does leave a session behind: disableAccount deletes the
\* sessions there are, and that login inserts its own afterwards.
FreshLoginNeeded == \A s \in sessions : s.account \notin ended
=============================================================================
