------------------------------ MODULE Accounts ------------------------------
(***************************************************************************)
(* Accounts, sessions, invites and repo roles of the server                *)
(* (internal/server/storage.go and the handlers of server.go).             *)
(*                                                                         *)
(* The database has one connection: a statement outside a transaction, and *)
(* a whole transaction, is one atomic step.  A request that issues several *)
(* of them interleaves with the others, so it is held by a worker between  *)
(* two.  A request that is rejected has changed nothing and is not shown.  *)
(*                                                                         *)
(* Passwords are right, bodies are well formed and requests carry tokens   *)
(* the server issued: the other requests are rejected without an effect.   *)
(* Two sessions of one account with one expiry are the same session.       *)
(***************************************************************************)
EXTENDS Naturals, Sequences, FiniteSets

CONSTANTS
    Users,        \* user names
    Repos,        \* repo ids
    Workers,      \* requests the server can have in progress
    TokenTTL,     \* Config.TokenTTL
    InviteTTL,    \* Config.InviteTTL
    MaxClock,     \* bound: ticks of the clock
    MaxInvites,   \* bound: invites issued
    MaxStarts     \* bound: starts of the server process

ASSUME AccountsAssumption ==
    /\ TokenTTL \in Nat /\ InviteTTL \in Nat /\ MaxClock \in Nat
    /\ MaxInvites \in Nat /\ MaxStarts \in Nat

VARIABLES
    accounts,   \* "none", "user" or "admin" (is_admin) for every user name
    disabled,   \* accounts whose disabled flag is set
    access,     \* repo_access: the role of a user on a repo, or "none"
    repos,      \* repos created
    boot,       \* bootstrap rows, oldest first: "live" or "used"
    printed,    \* bootstrap tokens the operator has seen
    invites,    \* invites rows, oldest first
    sessions,   \* api_tokens rows
    writers,    \* accounts that have changed a repo's data
    req,        \* worker: the request in progress
    server,     \* "down", "starting" (bootstrap stored, not printed) or "up"
    starts,     \* starts so far
    clock,
    ended       \* history: accounts that were disabled while no login of theirs
                \* was in progress, and that have begun no login since

database == <<accounts, disabled, access, repos, boot, invites, sessions>>
vars == <<database, printed, writers, req, server, starts, clock, ended>>

Roles   == {"reader", "writer"}
Session == [account : Users, expiry : Nat]
Invite  == [repo : Repos, role : Roles, expiry : Nat, used : BOOLEAN]

\* What a request still has to do, and what it has read.
PCs == {"idle", "mint", "register", "disable", "enable", "createRepo",
        "founder", "createInvite", "roleFor", "write"}
None == "none"
Idle == [pc |-> "idle", by |-> None, user |-> None, repo |-> None,
         invite |-> 0, now |-> 0]
Request == [pc : PCs, by : Users \cup {None}, user : Users \cup {None},
            repo : Repos \cup {None}, invite : Nat, now : Nat]

Exists(u)  == accounts[u] # "none"
Admins     == {u \in Users : accounts[u] = "admin"}
Answer(w)  == req' = [req EXCEPT ![w] = Idle]
Hold(w, q) == req' = [req EXCEPT ![w] = q]

Init ==
    /\ accounts = [u \in Users |-> "none"]
    /\ disabled = {}
    /\ access = [u \in Users |-> [r \in Repos |-> "none"]]
    /\ repos = {}
    /\ boot = << >>
    /\ printed = {}
    /\ invites = << >>
    /\ sessions = {}
    /\ writers = [r \in Repos |-> {}]
    /\ req = [w \in Workers |-> Idle]
    /\ server = "down"
    /\ starts = 0
    /\ clock = 0
    /\ ended = {}

-----------------------------------------------------------------------------
(* The process: EnsureBootstrap, then serving                              *)

LiveBootstraps == {i \in 1 .. Len(boot) : boot[i] = "live"}

EnsureBootstrap ==
    /\ server = "down"
    /\ starts < MaxStarts
    /\ starts' = starts + 1
    /\ IF Admins = {} /\ LiveBootstraps = {}
       THEN boot' = Append(boot, "live") /\ server' = "starting"
       ELSE server' = "up" /\ UNCHANGED boot
    /\ UNCHANGED <<accounts, disabled, access, repos, invites, sessions,
                   printed, writers, req, clock, ended>>

PrintBootstrap ==
    /\ server = "starting"
    /\ printed' = printed \cup {Len(boot)}
    /\ server' = "up"
    /\ UNCHANGED <<database, writers, req, starts, clock, ended>>

\* The process dies; the database survives, the requests do not.
Kill ==
    /\ server # "down"
    /\ starts < MaxStarts
    /\ server' = "down"
    /\ req' = [w \in Workers |-> Idle]
    /\ UNCHANGED <<database, printed, writers, starts, clock, ended>>

Tick ==
    /\ clock < MaxClock
    /\ clock' = clock + 1
    /\ UNCHANGED <<database, printed, writers, req, server, starts, ended>>

-----------------------------------------------------------------------------
(* Unauthenticated entry points                                            *)

\* consumeBootstrap: claim the token and insert the account, or roll back.
ConsumeBootstrap(i, u) ==
    /\ server = "up"
    /\ i \in printed
    /\ boot[i] = "live"
    /\ ~Exists(u)
    /\ boot' = [boot EXCEPT ![i] = "used"]
    /\ accounts' = [accounts EXCEPT ![u] = "admin"]
    /\ UNCHANGED <<disabled, access, repos, invites, sessions,
                   printed, writers, req, server, starts, clock, ended>>

\* consumeInvite reads the clock, then waits for the connection.
Register(w, i, u) ==
    /\ server = "up"
    /\ req[w].pc = "idle"
    /\ Hold(w, [Idle EXCEPT !.pc = "register", !.invite = i, !.user = u,
                            !.now = clock])
    /\ UNCHANGED <<database, printed, writers, server, starts, clock, ended>>

\* Bug variant: the claim of the invite does not look at used.
ConsumeInviteTwice(w) ==
    LET q == req[w]
        inv == invites[q.invite]
    IN  /\ q.pc = "register"
        /\ Answer(w)
        /\ IF inv.expiry > q.now /\ ~Exists(q.user)
           THEN /\ invites' = [invites EXCEPT ![q.invite].used = TRUE]
                /\ accounts' = [accounts EXCEPT ![q.user] = "user"]
                /\ access' = [access EXCEPT ![q.user][inv.repo] = inv.role]
           ELSE UNCHANGED <<invites, accounts, access>>
        /\ UNCHANGED <<disabled, repos, boot, sessions,
                       printed, writers, server, starts, clock, ended>>

\* The transaction: claim the invite, create the account, bind the role.
ConsumeInvite(w) ==
    LET q == req[w]
        inv == invites[q.invite]
    IN  /\ q.pc = "register"
        /\ Answer(w)
        /\ IF ~inv.used /\ inv.expiry > q.now /\ ~Exists(q.user)
           THEN /\ invites' = [invites EXCEPT ![q.invite].used = TRUE]
                /\ accounts' = [accounts EXCEPT ![q.user] = "user"]
                /\ access' = [access EXCEPT ![q.user][inv.repo] = inv.role]
           ELSE UNCHANGED <<invites, accounts, access>>
        /\ UNCHANGED <<disabled, repos, boot, sessions,
                       printed, writers, server, starts, clock, ended>>

\* login reads the account row; the password check follows, and then the insert.
Login(w, u) ==
    /\ server = "up"
    /\ req[w].pc = "idle"
    /\ Exists(u) /\ u \notin disabled
    /\ Hold(w, [Idle EXCEPT !.pc = "mint", !.user = u])
    /\ ended' = ended \ {u}
    /\ UNCHANGED <<database, printed, writers, server, starts, clock>>

MintSession(w) ==
    /\ req[w].pc = "mint"
    /\ sessions' = sessions \cup {[account |-> req[w].user,
                                   expiry |-> clock + TokenTTL]}
    /\ Answer(w)
    /\ UNCHANGED <<accounts, disabled, access, repos, boot, invites,
                   printed, writers, server, starts, clock, ended>>

-----------------------------------------------------------------------------
(* authenticate, authAdmin and authRepo                                    *)

Authenticates(s) == /\ s \in sessions
                    /\ s.account \notin disabled
                    /\ clock < s.expiry

AuthAdmin(w, s) ==
    /\ server = "up"
    /\ req[w].pc = "idle"
    /\ Authenticates(s)
    /\ accounts[s.account] = "admin"
    /\ LET admitted == [Idle EXCEPT !.by = s.account] IN
       \/ \E next \in {"disable", "enable"}, u \in Users :
              Hold(w, [admitted EXCEPT !.pc = next, !.user = u])
       \/ \E r \in Repos, u \in Users :
              Hold(w, [admitted EXCEPT !.pc = "createRepo", !.repo = r, !.user = u])
       \/ \E r \in Repos :
              Hold(w, [admitted EXCEPT !.pc = "createInvite", !.repo = r])
    /\ UNCHANGED <<database, printed, writers, server, starts, clock, ended>>

AuthRepo(w, s, r) ==
    /\ server = "up"
    /\ req[w].pc = "idle"
    /\ Authenticates(s)
    /\ Hold(w, [Idle EXCEPT !.pc = "roleFor", !.by = s.account, !.repo = r])
    /\ UNCHANGED <<database, printed, writers, server, starts, clock, ended>>

\* Bug variant: any role is enough for a write.
RoleForAnyRole(w) ==
    LET q == req[w] IN
    /\ q.pc = "roleFor"
    /\ Hold(w, IF access[q.by][q.repo] # "none"
               THEN [q EXCEPT !.pc = "write"] ELSE Idle)
    /\ UNCHANGED <<database, printed, writers, server, starts, clock, ended>>

\* roleFor, for a request that needs to write.
RoleFor(w) ==
    LET q == req[w] IN
    /\ q.pc = "roleFor"
    /\ Hold(w, IF access[q.by][q.repo] = "writer"
               THEN [q EXCEPT !.pc = "write"] ELSE Idle)
    /\ UNCHANGED <<database, printed, writers, server, starts, clock, ended>>

\* A data handler past authRepo: PUT and DELETE of blobs, manifest, roster and
\* keyfile (what they store is the engine's affair).
Write(w) ==
    /\ req[w].pc = "write"
    /\ writers' = [writers EXCEPT ![req[w].repo] = @ \cup {req[w].by}]
    /\ Answer(w)
    /\ UNCHANGED <<database, printed, server, starts, clock, ended>>

-----------------------------------------------------------------------------
(* Admin handlers past authAdmin                                           *)

LoggingIn(u) == \E v \in Workers : req[v].pc = "mint" /\ req[v].user = u

\* Bug variant: an admin is disabled like any other account.
DisableAccountUnguarded(w) ==
    LET u == req[w].user IN
    /\ req[w].pc = "disable"
    /\ Answer(w)
    /\ IF Exists(u)
       THEN /\ disabled' = disabled \cup {u}
            /\ sessions' = {s \in sessions : s.account # u}
            /\ ended' = IF LoggingIn(u) THEN ended ELSE ended \cup {u}
       ELSE UNCHANGED <<disabled, sessions, ended>>
    /\ UNCHANGED <<accounts, access, repos, boot, invites,
                   printed, writers, server, starts, clock>>

\* Bug variant: the flag alone, as authenticate looks at it anyway.
DisableAccountKeepsSessions(w) ==
    LET u == req[w].user
        last == u \in Admins \ disabled /\ Admins \ disabled = {u}
    IN  /\ req[w].pc = "disable"
        /\ Answer(w)
        /\ IF Exists(u) /\ ~last
           THEN /\ disabled' = disabled \cup {u}
                /\ ended' = IF LoggingIn(u) THEN ended ELSE ended \cup {u}
           ELSE UNCHANGED <<disabled, ended>>
        /\ UNCHANGED <<accounts, access, repos, boot, invites, sessions,
                       printed, writers, server, starts, clock>>

\* disableAccount, one transaction.
DisableAccount(w) ==
    LET u == req[w].user
        last == u \in Admins \ disabled /\ Admins \ disabled = {u}
    IN  /\ req[w].pc = "disable"
        /\ Answer(w)
        /\ IF Exists(u) /\ ~last
           THEN /\ disabled' = disabled \cup {u}
                /\ sessions' = {s \in sessions : s.account # u}
                /\ ended' = IF LoggingIn(u) THEN ended ELSE ended \cup {u}
           ELSE UNCHANGED <<disabled, sessions, ended>>
        /\ UNCHANGED <<accounts, access, repos, boot, invites,
                       printed, writers, server, starts, clock>>

EnableAccount(w) ==
    /\ req[w].pc = "enable"
    /\ disabled' = disabled \ {req[w].user}
    /\ Answer(w)
    /\ UNCHANGED <<accounts, access, repos, boot, invites, sessions,
                   printed, writers, server, starts, clock, ended>>

\* handleCreateRepo inserts the repo, then looks the founder up and grants.
CreateRepo(w) ==
    LET q == req[w] IN
    /\ q.pc = "createRepo"
    /\ IF q.repo \notin repos
       THEN /\ repos' = repos \cup {q.repo}
            /\ Hold(w, [q EXCEPT !.pc = "founder"])
       ELSE Answer(w) /\ UNCHANGED repos
    /\ UNCHANGED <<accounts, disabled, access, boot, invites, sessions,
                   printed, writers, server, starts, clock, ended>>

\* An account once created stays: the lookup and the grant are one step.  A
\* request without a founder name ends the same way as one whose founder does
\* not exist.
GrantFounder(w) ==
    LET q == req[w] IN
    /\ q.pc = "founder"
    /\ Answer(w)
    /\ access' = IF Exists(q.user) THEN [access EXCEPT ![q.user][q.repo] = "writer"]
                 ELSE access
    /\ UNCHANGED <<accounts, disabled, repos, boot, invites, sessions,
                   printed, writers, server, starts, clock, ended>>

\* Bug variant: the role of the request body is stored unchecked.
CreateInviteAnyRole(w) ==
    LET q == req[w] IN
    /\ q.pc = "createInvite"
    /\ Len(invites) < MaxInvites
    /\ Answer(w)
    /\ IF q.repo \in repos
       THEN \E role \in Roles \cup {"admin"} :
               invites' = Append(invites, [repo |-> q.repo, role |-> role,
                                           expiry |-> clock + InviteTTL,
                                           used |-> FALSE])
       ELSE UNCHANGED invites
    /\ UNCHANGED <<accounts, disabled, access, repos, boot, sessions,
                   printed, writers, server, starts, clock, ended>>

\* A repo once created stays: repoExists and the insert are one step.
CreateInvite(w) ==
    LET q == req[w] IN
    /\ q.pc = "createInvite"
    /\ Len(invites) < MaxInvites
    /\ Answer(w)
    /\ IF q.repo \in repos
       THEN \E role \in Roles :
               invites' = Append(invites, [repo |-> q.repo, role |-> role,
                                           expiry |-> clock + InviteTTL,
                                           used |-> FALSE])
       ELSE UNCHANGED invites
    /\ UNCHANGED <<accounts, disabled, access, repos, boot, sessions,
                   printed, writers, server, starts, clock, ended>>

-----------------------------------------------------------------------------

Receive(w) ==
    \/ \E i \in 1 .. Len(invites), u \in Users : Register(w, i, u)
    \/ \E u \in Users : Login(w, u)
    \/ \E s \in sessions : AuthAdmin(w, s)
    \/ \E s \in sessions, r \in Repos : AuthRepo(w, s, r)

Serve(w) ==
    \/ ConsumeInvite(w) \/ MintSession(w)
    \/ RoleFor(w) \/ Write(w)
    \/ DisableAccount(w) \/ EnableAccount(w)
    \/ CreateRepo(w) \/ GrantFounder(w) \/ CreateInvite(w)

Next ==
    \/ EnsureBootstrap \/ PrintBootstrap \/ Kill \/ Tick
    \/ \E i \in 1 .. Len(boot), u \in Users : ConsumeBootstrap(i, u)
    \/ \E w \in Workers : Receive(w) \/ Serve(w)

Spec == Init /\ [][Next]_vars
=============================================================================
