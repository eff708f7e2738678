--------------------------- MODULE AccountsProofs ---------------------------
(***************************************************************************)
(* What the server promises about accounts, sessions and roles holds for   *)
(* any users, repos, requests in progress, lifetimes and restarts.         *)
(***************************************************************************)
EXTENDS AccountsProperties, FiniteSetTheorems, SequenceTheorems, TLAPS

NeedsUser == {"mint", "register", "disable", "enable", "createRepo", "founder"}
NeedsBy   == {"roleFor", "write", "disable", "enable", "createRepo", "founder",
              "createInvite"}
NeedsRepo == {"createRepo", "founder", "createInvite", "roleFor", "write"}

\* A request in progress has read what its next step uses; n invites exist.
FieldsSet(q, n) ==
    /\ q.pc \in NeedsUser => q.user \in Users
    /\ q.pc \in NeedsBy => q.by \in Users
    /\ q.pc \in NeedsRepo => q.repo \in Repos
    /\ q.pc = "register" => q.invite \in 1 .. n

TypeInv ==
    /\ TypeOK
    /\ \A w \in Workers : FieldsSet(req[w], Len(invites))
    /\ server = "starting" => Len(boot) > 0

-----------------------------------------------------------------------------
(* Types *)

LEMMA IdleType == Idle \in Request /\ \A n : FieldsSet(Idle, n)
  BY DEF Idle, Request, PCs, FieldsSet, NeedsUser, NeedsBy, NeedsRepo

LEMMA InitType == Init => TypeInv
  <1> SUFFICES ASSUME Init PROVE TypeInv
    OBVIOUS
  <1>1. TypeOK
    BY IdleType, AccountsAssumption DEF Init, TypeOK, Roles
  <1>2. \A w \in Workers : req[w] = Idle
    BY DEF Init
  <1>3. QED
    BY <1>1, <1>2, IdleType DEF Init, TypeInv

LEMMA RequestFacts ==
  ASSUME TypeInv, NEW w \in Workers
  PROVE  /\ req[w] \in Request /\ req[w].now \in Nat /\ req[w].invite \in Nat
         /\ FieldsSet(req[w], Len(invites))
         /\ Len(invites) \in Nat /\ Len(boot) \in Nat /\ clock \in Nat
  BY AccountsAssumption DEF TypeInv, TypeOK, Request

\* A worker goes on with request q while invites are kept.
LEMMA HoldType ==
  ASSUME TypeInv, NEW w \in Workers, NEW q \in Request, Hold(w, q),
         FieldsSet(q, Len(invites)),
         Len(invites') \in Nat, Len(invites') >= Len(invites)
  PROVE  /\ req' \in [Workers -> Request]
         /\ \A v \in Workers : FieldsSet(req'[v], Len(invites'))
         /\ req'[w] = q /\ \A v \in Workers : v # w => req'[v] = req[v]
  <1>1. req \in [Workers -> Request] /\ Len(invites) \in Nat
    BY DEF TypeInv, TypeOK
  <1>2. /\ req' \in [Workers -> Request] /\ req'[w] = q
        /\ \A v \in Workers : v # w => req'[v] = req[v]
    BY <1>1 DEF Hold
  <1>3. \A v \in Workers : FieldsSet(req'[v], Len(invites))
    BY <1>2 DEF TypeInv
  <1>4. 1 .. Len(invites) \subseteq 1 .. Len(invites')
    BY <1>1
  <1>5. QED
    BY <1>2, <1>3, <1>4 DEF FieldsSet

LEMMA AnswerIsHold == \A w : Answer(w) <=> Hold(w, Idle)
  BY DEF Answer, Hold

\* A request is received: nothing changes but the worker, and a login that
\* begins is remembered.
LEMMA ReceiveFields ==
  ASSUME TypeInv, NEW w \in Workers, Receive(w)
  PROVE  /\ UNCHANGED <<database, printed, writers, server, starts, clock>>
         /\ req[w].pc = "idle"
         /\ \E q \in Request :
              /\ Hold(w, q) /\ FieldsSet(q, Len(invites))
              /\ q.pc \in {"register", "mint", "disable", "enable", "createRepo",
                           "createInvite", "roleFor"}
              /\ ended' \subseteq ended
              /\ q.pc = "mint" => q.user \notin ended'
  <1>1. clock \in Nat /\ sessions \in SUBSET Session /\ Len(invites) \in Nat
    BY AccountsAssumption DEF TypeInv, TypeOK
  <1>2. ASSUME NEW i \in 1 .. Len(invites), NEW u \in Users, Register(w, i, u)
        PROVE  \E q \in Request :
              /\ Hold(w, q) /\ FieldsSet(q, Len(invites)) /\ q.pc = "register"
    <2> DEFINE q == [Idle EXCEPT !.pc = "register", !.invite = i, !.user = u,
                                 !.now = clock]
    <2>1. i \in Nat
      BY <1>1
    <2>2. /\ q.pc = "register" /\ q.by = None /\ q.user = u /\ q.repo = None
          /\ q.invite = i
      BY DEF Idle
    <2>3. q \in Request
      BY <1>1, <2>1 DEF Idle, Request, PCs
    <2>4. FieldsSet(q, Len(invites))
      BY <2>2 DEF FieldsSet, NeedsBy, NeedsRepo
    <2>5. QED
      BY <1>2, <2>2, <2>3, <2>4 DEF Register
  <1>3. ASSUME NEW u \in Users, Login(w, u)
        PROVE  \E q \in Request :
              /\ Hold(w, q) /\ FieldsSet(q, Len(invites)) /\ q.pc = "mint"
              /\ q.user \notin ended'
    <2> DEFINE q == [Idle EXCEPT !.pc = "mint", !.user = u]
    <2>1. /\ q \in Request /\ FieldsSet(q, Len(invites)) /\ q.pc = "mint"
          /\ q.user = u
      BY <1>3 DEF Idle, Request, PCs, FieldsSet, NeedsUser, NeedsBy, NeedsRepo
    <2>2. Hold(w, q) /\ u \notin ended'
      BY <1>3 DEF Login
    <2> HIDE DEF q
    <2>3. QED
      BY <2>1, <2>2
  <1>4. ASSUME NEW s \in sessions, NEW r \in Repos, AuthRepo(w, s, r)
        PROVE  \E q \in Request :
              /\ Hold(w, q) /\ FieldsSet(q, Len(invites)) /\ q.pc = "roleFor"
    <2> DEFINE q == [Idle EXCEPT !.pc = "roleFor", !.by = s.account, !.repo = r]
    <2>1. s.account \in Users
      BY <1>1 DEF Session
    <2>2. /\ q \in Request /\ FieldsSet(q, Len(invites)) /\ q.pc = "roleFor"
          /\ q.by = s.account
      BY <2>1 DEF Idle, Request, PCs, FieldsSet, NeedsUser, NeedsBy, NeedsRepo
    <2>3. QED
      BY <1>4, <2>1, <2>2 DEF AuthRepo
  <1>5. ASSUME NEW s \in sessions, AuthAdmin(w, s)
        PROVE  \E q \in Request :
              /\ Hold(w, q) /\ FieldsSet(q, Len(invites))
              /\ q.pc \in {"disable", "enable", "createRepo", "createInvite"}
    <2> DEFINE a == [Idle EXCEPT !.by = s.account]
               Goal == \E q \in Request :
                  /\ Hold(w, q) /\ FieldsSet(q, Len(invites))
                  /\ q.pc \in {"disable", "enable", "createRepo", "createInvite"}
    <2>1. s.account \in Users
      BY <1>1 DEF Session
    <2>2. ASSUME NEW next \in {"disable", "enable"}, NEW u \in Users,
                 Hold(w, [a EXCEPT !.pc = next, !.user = u])
          PROVE  Goal
      <3> DEFINE q == [a EXCEPT !.pc = next, !.user = u]
      <3>1. /\ q \in Request /\ FieldsSet(q, Len(invites)) /\ q.pc = next
            /\ q.by = s.account
        BY <2>1 DEF Idle, Request, PCs, FieldsSet, NeedsUser, NeedsBy, NeedsRepo
      <3> HIDE DEF q
      <3>2. QED
        BY <2>1, <2>2, <3>1 DEF q
    <2>3. ASSUME NEW r \in Repos, NEW u \in Users,
                 Hold(w, [a EXCEPT !.pc = "createRepo", !.repo = r, !.user = u])
          PROVE  Goal
      <3> DEFINE q == [a EXCEPT !.pc = "createRepo", !.repo = r, !.user = u]
      <3>1. /\ q \in Request /\ FieldsSet(q, Len(invites)) /\ q.pc = "createRepo"
            /\ q.by = s.account
        BY <2>1 DEF Idle, Request, PCs, FieldsSet, NeedsUser, NeedsBy, NeedsRepo
      <3> HIDE DEF q
      <3>2. QED
        BY <2>1, <2>3, <3>1 DEF q
    <2>4. ASSUME NEW r \in Repos,
                 Hold(w, [a EXCEPT !.pc = "createInvite", !.repo = r])
          PROVE  Goal
      <3> DEFINE q == [a EXCEPT !.pc = "createInvite", !.repo = r]
      <3>1. /\ q \in Request /\ FieldsSet(q, Len(invites)) /\ q.pc = "createInvite"
            /\ q.by = s.account
        BY <2>1 DEF Idle, Request, PCs, FieldsSet, NeedsUser, NeedsBy, NeedsRepo
      <3> HIDE DEF q
      <3>2. QED
        BY <2>1, <2>4, <3>1 DEF q
    <2>5. QED
      BY <1>5, <2>2, <2>3, <2>4 DEF AuthAdmin
  <1>6. /\ UNCHANGED <<database, printed, writers, server, starts, clock>>
        /\ ended' \subseteq ended
        /\ req[w].pc = "idle"
    BY DEF Receive, Register, Login, AuthAdmin, AuthRepo
  <1>7. QED
    BY <1>2, <1>3, <1>4, <1>5, <1>6 DEF Receive

\* Redeeming an invite sets its used flag and nothing else.
LEMMA InviteUsed ==
  ASSUME invites \in Seq(Invite), NEW i \in 1 .. Len(invites),
         NEW s, s = [invites EXCEPT ![i].used = TRUE]
  PROVE  /\ s \in Seq(Invite) /\ Len(s) = Len(invites)
         /\ \A j \in 1 .. Len(invites) : s[j].used <=> (j = i \/ invites[j].used)
  <1>1. Len(invites) \in Nat /\ DOMAIN invites = 1 .. Len(invites)
    BY LenProperties
  <1>2. \A j \in 1 .. Len(invites) : invites[j] \in Invite
    BY ElementOfSeq
  <1>3. [invites[i] EXCEPT !.used = TRUE] \in Invite
    BY <1>2 DEF Invite
  <1>4. s = [invites EXCEPT ![i] = [invites[i] EXCEPT !.used = TRUE]]
    OBVIOUS
  <1>5. s \in Seq(Invite) /\ Len(s) = Len(invites)
    BY <1>3, <1>4, ExceptSeq
  <1>6. ASSUME NEW j \in 1 .. Len(invites)
        PROVE  s[j].used <=> (j = i \/ invites[j].used)
    <2>1. CASE j = i
      <3>1. s[j] = [invites[i] EXCEPT !.used = TRUE]
        BY <1>1, <1>4, <2>1
      <3>2. s[j].used = TRUE
        BY <1>2, <3>1 DEF Invite
      <3>3. QED
        BY <2>1, <3>2
    <2>2. CASE j # i
      BY <1>1, <1>4, <2>2
    <2>3. QED
      BY <2>1, <2>2
  <1>7. QED
    BY <1>5, <1>6

\* The requests a worker serves leave it idle, or holding the next step of the
\* same request.
LEMMA ServeFields ==
  ASSUME TypeInv, NEW w \in Workers, Serve(w)
  PROVE  /\ req[w].pc # "idle"
         /\ UNCHANGED <<boot, printed, server, starts, clock>>
         /\ Len(invites') \in Nat /\ Len(invites') >= Len(invites)
         /\ \E q \in Request :
              /\ Hold(w, q) /\ FieldsSet(q, Len(invites))
              /\ q = Idle \/ \/ CreateRepo(w) /\ q.pc = "founder"
                            \/ /\ RoleFor(w) /\ q.pc = "write"
                               /\ q.by = req[w].by /\ q.repo = req[w].repo
                               /\ access[q.by][q.repo] = "writer"
  <1> DEFINE n == Len(invites)
             Goal == \E q \in Request :
              /\ Hold(w, q) /\ FieldsSet(q, Len(invites))
              /\ q = Idle \/ \/ CreateRepo(w) /\ q.pc = "founder"
                            \/ /\ RoleFor(w) /\ q.pc = "write"
                               /\ q.by = req[w].by /\ q.repo = req[w].repo
                               /\ access[q.by][q.repo] = "writer"
  <1>1. req[w] \in Request /\ FieldsSet(req[w], n) /\ n \in Nat
    BY RequestFacts
  <1>2. UNCHANGED <<boot, printed, server, starts, clock>>
    BY DEF Serve, ConsumeInvite, MintSession, RoleFor, Write, DisableAccount,
       EnableAccount, CreateRepo, GrantFounder, CreateInvite, database
  <1>3. req[w].pc # "idle"
    BY DEF Serve, ConsumeInvite, MintSession, RoleFor, Write, DisableAccount,
       EnableAccount, CreateRepo, GrantFounder, CreateInvite
  <1>4. ASSUME Answer(w) PROVE Goal
    BY <1>4, IdleType, AnswerIsHold
  <1>5. ASSUME RoleFor(w) PROVE Goal
    <2> DEFINE q == [req[w] EXCEPT !.pc = "write"]
    <2>1. CASE access[req[w].by][req[w].repo] = "writer"
      <3>1. Hold(w, q) /\ req[w].pc = "roleFor"
        BY <1>5, <2>1 DEF RoleFor
      <3>2. /\ q \in Request /\ q.pc = "write" /\ q.by = req[w].by
            /\ q.repo = req[w].repo
        BY <1>1 DEF Request, PCs
      <3>3. FieldsSet(q, n)
        BY <1>1, <3>1, <3>2 DEF FieldsSet, NeedsUser, NeedsBy, NeedsRepo
      <3> HIDE DEF q
      <3>4. QED
        BY <1>5, <2>1, <3>1, <3>2, <3>3
    <2>2. CASE access[req[w].by][req[w].repo] # "writer"
      BY <1>4, <1>5, <2>2, AnswerIsHold DEF RoleFor
    <2>3. QED
      BY <2>1, <2>2
  <1>6. ASSUME CreateRepo(w) PROVE Goal
    <2> DEFINE q == [req[w] EXCEPT !.pc = "founder"]
    <2>1. CASE Hold(w, q)
      <3>1. req[w].pc = "createRepo"
        BY <1>6 DEF CreateRepo
      <3>2. /\ q \in Request /\ q.pc = "founder" /\ q.by = req[w].by
            /\ q.repo = req[w].repo /\ q.user = req[w].user
        BY <1>1 DEF Request, PCs
      <3>3. FieldsSet(q, n)
        BY <1>1, <3>1, <3>2 DEF FieldsSet, NeedsUser, NeedsBy, NeedsRepo
      <3> HIDE DEF q
      <3>4. QED
        BY <1>6, <2>1, <3>2, <3>3
    <2>2. Hold(w, q) \/ Answer(w)
      BY <1>6 DEF CreateRepo
    <2>3. QED
      BY <1>4, <2>1, <2>2
  <1>7. Goal
    BY <1>4, <1>5, <1>6 DEF Serve, ConsumeInvite, MintSession, Write,
       DisableAccount, EnableAccount, GrantFounder, CreateInvite
  <1>8. Len(invites') \in Nat /\ Len(invites') >= n
    <2>1. invites \in Seq(Invite)
      BY DEF TypeInv, TypeOK
    <2>2. CASE invites' = invites
      BY <1>1, <2>2
    <2>3. CASE ConsumeInvite(w)
      <3>1. \/ invites' = invites
            \/ invites' = [invites EXCEPT ![req[w].invite].used = TRUE]
        BY <2>3 DEF ConsumeInvite
      <3>2. req[w].invite \in 1 .. n
        BY <1>1, <2>3 DEF ConsumeInvite, FieldsSet
      <3>3. Len(invites') = n
        BY <2>1, <3>1, <3>2, InviteUsed
      <3>4. QED
        BY <1>1, <3>3
    <2>4. CASE CreateInvite(w)
      <3>1. invites' = invites \/ \E e : invites' = Append(invites, e)
        BY <2>4 DEF CreateInvite
      <3>2. \A e : Len(Append(invites, e)) = n + 1
        BY <2>1
      <3>3. QED
        BY <1>1, <3>1, <3>2
    <2>5. QED
      BY <2>2, <2>3, <2>4 DEF Serve, MintSession, RoleFor, Write, DisableAccount,
         EnableAccount, CreateRepo, GrantFounder, database
  <1>9. QED
    BY <1>2, <1>3, <1>7, <1>8

\* Types of the tables after a request is served.
LEMMA ServeTables ==
  ASSUME TypeInv, NEW w \in Workers, Serve(w)
  PROVE  /\ accounts' \in [Users -> {"none", "user", "admin"}]
         /\ disabled' \in SUBSET Users
         /\ access' \in [Users -> [Repos -> Roles \cup {"none"}]]
         /\ repos' \in SUBSET Repos
         /\ invites' \in Seq(Invite)
         /\ sessions' \in SUBSET Session
         /\ writers' \in [Repos -> SUBSET Users]
         /\ ended' \in SUBSET Users
  <1>1. /\ accounts \in [Users -> {"none", "user", "admin"}]
        /\ disabled \in SUBSET Users
        /\ access \in [Users -> [Repos -> Roles \cup {"none"}]]
        /\ repos \in SUBSET Repos
        /\ invites \in Seq(Invite)
        /\ sessions \in SUBSET Session
        /\ writers \in [Repos -> SUBSET Users]
        /\ ended \in SUBSET Users
    BY DEF TypeInv, TypeOK
  <1>2. FieldsSet(req[w], Len(invites)) /\ clock \in Nat
    BY RequestFacts
  <1>3. CASE ConsumeInvite(w)
    <2>1. req[w].user \in Users /\ req[w].invite \in 1 .. Len(invites)
      BY <1>2, <1>3 DEF ConsumeInvite, FieldsSet, NeedsUser
    <2>2. invites[req[w].invite] \in Invite
      BY <1>1, <2>1, ElementOfSeq
    <2>3. [invites EXCEPT ![req[w].invite].used = TRUE] \in Seq(Invite)
      BY <1>1, <2>1, InviteUsed
    <2>4. UNCHANGED <<disabled, repos, sessions, writers, ended>>
      BY <1>3 DEF ConsumeInvite
    <2>5. \/ UNCHANGED <<invites, accounts, access>>
          \/ /\ invites' = [invites EXCEPT ![req[w].invite].used = TRUE]
             /\ accounts' = [accounts EXCEPT ![req[w].user] = "user"]
             /\ access' = [access EXCEPT ![req[w].user][invites[req[w].invite].repo]
                             = invites[req[w].invite].role]
      BY <1>3 DEF ConsumeInvite
    <2>6. CASE UNCHANGED <<invites, accounts, access>>
      BY <1>1, <2>4, <2>6
    <2>7. CASE /\ invites' = [invites EXCEPT ![req[w].invite].used = TRUE]
               /\ accounts' = [accounts EXCEPT ![req[w].user] = "user"]
               /\ access' = [access EXCEPT ![req[w].user][invites[req[w].invite].repo]
                             = invites[req[w].invite].role]
      <3>1. invites[req[w].invite].role \in Roles
        BY <2>2 DEF Invite
      <3>2. /\ accounts' \in [Users -> {"none", "user", "admin"}]
            /\ access' \in [Users -> [Repos -> Roles \cup {"none"}]]
        BY <1>1, <2>1, <2>7, <3>1
      <3>3. QED
        BY <1>1, <2>3, <2>4, <2>7, <3>2
    <2>8. QED
      BY <2>5, <2>6, <2>7
  <1>4. CASE MintSession(w)
    <2>1. req[w].user \in Users /\ TokenTTL \in Nat
      BY <1>2, <1>4, AccountsAssumption DEF MintSession, FieldsSet, NeedsUser
    <2>2. [account |-> req[w].user, expiry |-> clock + TokenTTL] \in Session
      BY <1>2, <2>1 DEF Session
    <2>3. QED
      BY <1>1, <1>4, <2>2 DEF MintSession
  <1>5. CASE RoleFor(w)
    BY <1>1, <1>5 DEF RoleFor, database
  <1>6. CASE Write(w)
    <2>1. req[w].by \in Users /\ req[w].repo \in Repos
      BY <1>2, <1>6 DEF Write, FieldsSet, NeedsBy, NeedsRepo
    <2>2. QED
      BY <1>1, <1>6, <2>1 DEF Write, database
  <1>7. CASE DisableAccount(w) \/ EnableAccount(w)
    <2>1. req[w].user \in Users
      BY <1>2, <1>7 DEF DisableAccount, EnableAccount, FieldsSet, NeedsUser
    <2>2. QED
      BY <1>1, <1>7, <2>1 DEF DisableAccount, EnableAccount
  <1>8. CASE CreateRepo(w)
    <2>1. req[w].repo \in Repos
      BY <1>2, <1>8 DEF CreateRepo, FieldsSet, NeedsRepo
    <2>2. QED
      BY <1>1, <1>8, <2>1 DEF CreateRepo
  <1>9. CASE GrantFounder(w)
    <2>1. req[w].user \in Users /\ req[w].repo \in Repos
      BY <1>2, <1>9 DEF GrantFounder, FieldsSet, NeedsUser, NeedsRepo
    <2>2. access' \in [Users -> [Repos -> Roles \cup {"none"}]]
      BY <1>1, <1>9, <2>1 DEF GrantFounder, Roles
    <2>3. QED
      BY <1>1, <1>9, <2>2 DEF GrantFounder
  <1>10. CASE CreateInvite(w)
    <2>1. req[w].repo \in Repos /\ InviteTTL \in Nat
      BY <1>2, <1>10, AccountsAssumption DEF CreateInvite, FieldsSet, NeedsRepo
    <2>2. \A role \in Roles : [repo |-> req[w].repo, role |-> role,
                                expiry |-> clock + InviteTTL, used |-> FALSE] \in Invite
      BY <1>2, <2>1 DEF Invite
    <2>3. invites' = invites \/ \E e \in Invite : invites' = Append(invites, e)
      BY <1>10, <2>2 DEF CreateInvite
    <2>4. invites' \in Seq(Invite)
      BY <1>1, <2>3
    <2>5. QED
      BY <1>1, <1>10, <2>4 DEF CreateInvite
  <1>11. QED
    BY <1>3, <1>4, <1>5, <1>6, <1>7, <1>8, <1>9, <1>10 DEF Serve

LEMMA TypeInductive == TypeInv /\ [Next]_vars => TypeInv'
  <1> SUFFICES ASSUME TypeInv, [Next]_vars PROVE TypeInv'
    OBVIOUS
  <1>1. CASE UNCHANGED vars
    BY <1>1 DEF vars, database, TypeInv, TypeOK, FieldsSet
  <1>2. /\ accounts \in [Users -> {"none", "user", "admin"}]
        /\ boot \in Seq({"live", "used"}) /\ Len(boot) \in Nat
        /\ printed \subseteq 1 .. Len(boot)
        /\ starts \in 0 .. MaxStarts /\ clock \in 0 .. MaxClock
        /\ MaxStarts \in Nat /\ MaxClock \in Nat
    BY AccountsAssumption DEF TypeInv, TypeOK
  <1>3. CASE EnsureBootstrap
    <2>1. starts' \in 0 .. MaxStarts
      BY <1>2, <1>3 DEF EnsureBootstrap
    <2>2. \/ boot' = boot /\ server' = "up"
          \/ boot' = Append(boot, "live") /\ server' = "starting"
      BY <1>3 DEF EnsureBootstrap
    <2>3. /\ boot' \in Seq({"live", "used"}) /\ Len(boot') >= Len(boot)
          /\ Len(boot') \in Nat /\ server' \in {"starting", "up"}
          /\ server' = "starting" => Len(boot') > 0
      <3>1. Append(boot, "live") \in Seq({"live", "used"}) /\
            Len(Append(boot, "live")) = Len(boot) + 1
        BY <1>2, AppendProperties
      <3>2. QED
        BY <1>2, <2>2, <3>1
    <2>4. printed \subseteq 1 .. Len(boot')
      BY <1>2, <2>3
    <2>5. QED
      BY <1>3, <2>1, <2>3, <2>4 DEF EnsureBootstrap, TypeInv, TypeOK, FieldsSet
  <1>4. CASE PrintBootstrap
    <2>1. printed' \subseteq 1 .. Len(boot)
      <3>1. Len(boot) > 0 /\ printed' = printed \cup {Len(boot)}
        BY <1>4 DEF PrintBootstrap, TypeInv
      <3>2. Len(boot) \in 1 .. Len(boot)
        BY <1>2, <3>1
      <3>3. QED
        BY <1>2, <3>1, <3>2
    <2>2. QED
      BY <1>4, <2>1 DEF PrintBootstrap, database, TypeInv, TypeOK, FieldsSet
  <1>5. CASE Kill
    <2>1. req' \in [Workers -> Request] /\ \A w \in Workers : req'[w] = Idle
      BY <1>5, IdleType DEF Kill
    <2>2. \A w \in Workers : FieldsSet(req'[w], Len(invites'))
      BY <2>1, IdleType
    <2>3. QED
      BY <1>5, <2>1, <2>2 DEF Kill, database, TypeInv, TypeOK
  <1>6. CASE Tick
    <2>1. clock' \in 0 .. MaxClock
      BY <1>2, <1>6 DEF Tick
    <2>2. QED
      BY <1>6, <2>1 DEF Tick, database, TypeInv, TypeOK, FieldsSet
  <1>7. ASSUME NEW i \in 1 .. Len(boot), NEW u \in Users, ConsumeBootstrap(i, u)
        PROVE  TypeInv'
    <2>1. boot' \in Seq({"live", "used"}) /\ Len(boot') = Len(boot)
      BY <1>2, <1>7, ExceptSeq DEF ConsumeBootstrap
    <2>2. accounts' \in [Users -> {"none", "user", "admin"}]
      BY <1>2, <1>7 DEF ConsumeBootstrap
    <2>3. QED
      BY <1>7, <2>1, <2>2 DEF ConsumeBootstrap, TypeInv, TypeOK, FieldsSet
  <1>8. ASSUME NEW w \in Workers, Receive(w) PROVE TypeInv'
    <2>1. PICK q \in Request : Hold(w, q) /\ FieldsSet(q, Len(invites))
      BY <1>8, ReceiveFields
    <2>2. /\ UNCHANGED <<database, printed, writers, server, starts, clock>>
          /\ ended' \subseteq ended
      BY <1>8, ReceiveFields
    <2>3. Len(invites') = Len(invites) /\ Len(invites) \in Nat
      BY <1>8, <2>2, RequestFacts DEF database
    <2>4. /\ req' \in [Workers -> Request]
          /\ \A v \in Workers : FieldsSet(req'[v], Len(invites'))
      BY <2>1, <2>3, HoldType
    <2>5. QED
      BY <2>2, <2>4 DEF TypeInv, TypeOK, database
  <1>9. ASSUME NEW w \in Workers, Serve(w) PROVE TypeInv'
    <2>1. PICK q \in Request : Hold(w, q) /\ FieldsSet(q, Len(invites))
      BY <1>9, ServeFields
    <2>2. /\ UNCHANGED <<boot, printed, server, starts, clock>>
          /\ Len(invites') \in Nat /\ Len(invites') >= Len(invites)
      BY <1>9, ServeFields
    <2>3. /\ req' \in [Workers -> Request]
          /\ \A v \in Workers : FieldsSet(req'[v], Len(invites'))
      BY <2>1, <2>2, HoldType
    <2>4. QED
      BY <1>9, <2>2, <2>3, ServeTables DEF TypeInv, TypeOK
  <1>10. QED
    BY <1>1, <1>3, <1>4, <1>5, <1>6, <1>7, <1>8, <1>9 DEF Next

LEMMA TypeInvCorrect == Spec => []TypeInv
  <1>1. Init => TypeInv
    BY InitType
  <1>2. TypeInv /\ [Next]_vars => TypeInv'
    BY TypeInductive
  <1>3. QED
    BY <1>1, <1>2, PTL DEF Spec

\* Every column keeps a value of its type, and a request has read every field
\* its next statement uses.
THEOREM TypeCorrect == Spec => []TypeOK
  <1>1. TypeInv => TypeOK
    BY DEF TypeInv
  <1>2. QED
    BY <1>1, TypeInvCorrect, PTL

-----------------------------------------------------------------------------
(* The admin.  That there is at most one is not inductive: a second token    *)
(* could be redeemed.  While a token is live there is no admin, and a token  *)
(* is issued only when there is neither.                                     *)

AtMostOne(S) == \A x, y \in S : x = y

AdminInv ==
    /\ AtMostOne(Admins) /\ AtMostOne(LiveBootstraps)
    /\ Admins = {} \/ LiveBootstraps = {}
    /\ Admins \cap disabled = {}
    /\ \A u \in disabled : Exists(u)

\* Which steps create accounts, change tokens and disable.
LEMMA AdminWriters ==
  ASSUME [Next]_vars
  PROVE  /\ \/ UNCHANGED <<accounts, boot, disabled>>
            \/ EnsureBootstrap
            \/ \E i \in 1 .. Len(boot), u \in Users : ConsumeBootstrap(i, u)
            \/ \E w \in Workers :
                  ConsumeInvite(w) \/ DisableAccount(w) \/ EnableAccount(w)
  BY DEF Next, vars, database, PrintBootstrap, Kill, Tick, Receive, Register, Login,
     AuthAdmin, AuthRepo, Serve, MintSession, RoleFor, Write, CreateRepo,
     GrantFounder, CreateInvite

LEMMA AdminInductive == TypeInv /\ AdminInv /\ [Next]_vars => AdminInv'
  <1> SUFFICES ASSUME TypeInv, AdminInv, [Next]_vars PROVE AdminInv'
    OBVIOUS
  <1>1. /\ accounts \in [Users -> {"none", "user", "admin"}]
        /\ boot \in Seq({"live", "used"}) /\ Len(boot) \in Nat
        /\ disabled \in SUBSET Users
    BY DEF TypeInv, TypeOK
  <1>2. CASE UNCHANGED <<accounts, boot, disabled>>
    BY <1>2 DEF AdminInv, AtMostOne, Admins, LiveBootstraps, Exists
  <1>3. CASE EnsureBootstrap
    <2>1. UNCHANGED <<accounts, disabled>>
      BY <1>3 DEF EnsureBootstrap
    <2>2. Admins' = Admins /\ \A u : Exists(u)' = Exists(u)
      BY <2>1 DEF Admins, Exists
    <2>3. CASE boot' = boot
      <3>1. LiveBootstraps' = LiveBootstraps
        BY <2>3 DEF LiveBootstraps
      <3>2. QED
        BY <2>1, <2>2, <3>1 DEF AdminInv, AtMostOne
    <2>4. CASE Admins = {} /\ LiveBootstraps = {} /\ boot' = Append(boot, "live")
      <3>1. /\ Len(boot') = Len(boot) + 1
            /\ \A i \in 1 .. Len(boot) : boot'[i] = boot[i]
        BY <1>1, <2>4, AppendProperties
      <3>2. \A i \in LiveBootstraps' : i = Len(boot) + 1
        BY <1>1, <2>4, <3>1 DEF LiveBootstraps
      <3>3. AtMostOne(LiveBootstraps')
        BY <3>2 DEF AtMostOne
      <3>4. AtMostOne(LiveBootstraps)' /\ AtMostOne(Admins)'
        BY <2>2, <3>3 DEF AdminInv, AtMostOne
      <3>5. QED
        BY <2>1, <2>2, <2>4, <3>4 DEF AdminInv
    <2>5. QED
      BY <1>3, <2>3, <2>4 DEF EnsureBootstrap
  <1>4. ASSUME NEW i \in 1 .. Len(boot), NEW u \in Users, ConsumeBootstrap(i, u)
        PROVE  AdminInv'
    <2>1. /\ boot[i] = "live" /\ ~Exists(u) /\ disabled' = disabled
          /\ boot' = [boot EXCEPT ![i] = "used"]
          /\ accounts' = [accounts EXCEPT ![u] = "admin"]
      BY <1>4 DEF ConsumeBootstrap
    <2>2. i \in LiveBootstraps
      BY <2>1 DEF LiveBootstraps
    <2>3. Admins = {} /\ \A j \in LiveBootstraps : j = i
      BY <2>2 DEF AdminInv, AtMostOne
    <2>4. Admins' = {u}
      BY <1>1, <2>1, <2>3 DEF Admins
    <2>5. LiveBootstraps' = {}
      <3>1. /\ Len(boot') = Len(boot) /\ boot'[i] = "used"
            /\ \A j \in 1 .. Len(boot) : j # i => boot'[j] = boot[j]
        BY <1>1, <2>1, ExceptSeq
      <3>2. QED
        BY <2>3, <3>1 DEF LiveBootstraps
    <2>6. u \notin disabled
      BY <2>1 DEF AdminInv
    <2>7. \A v \in disabled' : Exists(v)'
      BY <1>1, <2>1 DEF AdminInv, Exists
    <2>8. AtMostOne(Admins)' /\ AtMostOne(LiveBootstraps)'
      BY <2>4, <2>5 DEF AtMostOne
    <2>9. QED
      BY <2>1, <2>4, <2>5, <2>6, <2>7, <2>8 DEF AdminInv
  <1>5. ASSUME NEW w \in Workers, ConsumeInvite(w) PROVE AdminInv'
    <2>1. req[w].user \in Users
      BY <1>5, RequestFacts DEF ConsumeInvite, FieldsSet, NeedsUser
    <2>2. /\ UNCHANGED <<boot, disabled>>
          /\ \/ accounts' = accounts
             \/ /\ ~Exists(req[w].user)
                /\ accounts' = [accounts EXCEPT ![req[w].user] = "user"]
      BY <1>5 DEF ConsumeInvite
    <2>3. Admins' = Admins
      BY <1>1, <2>1, <2>2 DEF Admins, Exists
    <2>4. \A u \in disabled' : Exists(u)'
      BY <1>1, <2>1, <2>2 DEF AdminInv, Exists
    <2>5. LiveBootstraps' = LiveBootstraps
      BY <2>2 DEF LiveBootstraps
    <2>6. QED
      BY <2>2, <2>3, <2>4, <2>5 DEF AdminInv, AtMostOne
  <1>6. ASSUME NEW w \in Workers, DisableAccount(w) PROVE AdminInv'
    <2> DEFINE u == req[w].user
    <2>1. UNCHANGED <<accounts, boot>>
      BY <1>6 DEF DisableAccount
    <2>2. /\ Admins' = Admins /\ LiveBootstraps' = LiveBootstraps
          /\ \A v : Exists(v)' = Exists(v)
      BY <2>1 DEF Admins, LiveBootstraps, Exists
    <2>3. CASE disabled' = disabled
      BY <2>2, <2>3 DEF AdminInv, AtMostOne
    <2>4. CASE /\ Exists(u) /\ ~(u \in Admins \ disabled /\ Admins \ disabled = {u})
               /\ disabled' = disabled \cup {u}
      <3>1. u \notin Admins
        BY <2>4 DEF AdminInv, AtMostOne
      <3>2. QED
        BY <2>2, <2>4, <3>1 DEF AdminInv, AtMostOne
    <2>5. QED
      BY <1>6, <2>3, <2>4 DEF DisableAccount
  <1>7. ASSUME NEW w \in Workers, EnableAccount(w) PROVE AdminInv'
    <2>1. UNCHANGED <<accounts, boot>> /\ disabled' \subseteq disabled
      BY <1>7 DEF EnableAccount
    <2>2. /\ Admins' = Admins /\ LiveBootstraps' = LiveBootstraps
          /\ \A v : Exists(v)' = Exists(v)
      BY <2>1 DEF Admins, LiveBootstraps, Exists
    <2>3. QED
      BY <2>1, <2>2 DEF AdminInv, AtMostOne
  <1>8. QED
    BY <1>2, <1>3, <1>4, <1>5, <1>6, <1>7, AdminWriters

LEMMA AdminInvCorrect == Spec => [](TypeInv /\ AdminInv)
  <1>1. Init => AdminInv
    BY DEF Init, AdminInv, AtMostOne, Admins, LiveBootstraps
  <1>2. TypeInv /\ AdminInv /\ [Next]_vars => AdminInv'
    BY AdminInductive
  <1>3. QED
    BY <1>1, <1>2, TypeInvCorrect, PTL DEF Spec

\* There is never a second admin and the admin there is stays enabled, however
\* many restarts, redemptions and admin requests interleave.
THEOREM AdminStaysAlone == Spec => []OneEnabledAdmin
  <1>1. AdminInv => OneEnabledAdmin
    <2> SUFFICES ASSUME AdminInv PROVE Cardinality(Admins) <= 1
      BY DEF AdminInv, OneEnabledAdmin
    <2>1. CASE Admins = {}
      BY <2>1, FS_EmptySet
    <2>2. CASE Admins # {}
      <3>1. PICK a : a \in Admins
        BY <2>2
      <3>2. Admins = {a}
        BY <3>1 DEF AdminInv, AtMostOne
      <3>3. QED
        BY <3>2, FS_Singleton
    <2>3. QED
      BY <2>1, <2>2
  <1>2. QED
    BY <1>1, AdminInvCorrect, PTL

-----------------------------------------------------------------------------
(* Roles.  A role read by roleFor is used after the connection is released: *)
(* the request stays right because a writer never stops being one, which    *)
(* holds because an invite only binds a role to the account it creates.     *)

RoleInv ==
    /\ \A u \in Users, r \in Repos : access[u][r] # "none" => Exists(u)
    /\ \A w \in Workers :
         req[w].pc = "write" => access[req[w].by][req[w].repo] = "writer"
    /\ WritersOnly

\* Which steps grant roles and create accounts, and that accounts stay.
LEMMA RoleWriters ==
  ASSUME [Next]_vars
  PROVE  /\ \/ UNCHANGED <<access, accounts>>
            \/ \E i \in 1 .. Len(boot), u \in Users :
                  ConsumeBootstrap(i, u) /\ access' = access
            \/ \E w \in Workers : ConsumeInvite(w) \/ GrantFounder(w)
         /\ writers' = writers \/ \E w \in Workers : Write(w)
         /\ \/ req' = req
            \/ req' = [w \in Workers |-> Idle]
            \/ \E w \in Workers : Receive(w) \/ Serve(w)
  BY DEF Next, vars, database, EnsureBootstrap, PrintBootstrap, Kill, Tick,
     ConsumeBootstrap, Receive, Register, Login, AuthAdmin, AuthRepo, Serve,
     ConsumeInvite, DisableAccount, EnableAccount, GrantFounder, MintSession,
     RoleFor, Write, CreateRepo, CreateInvite

\* Writers stay writers, and a role is only ever given to an account.
LEMMA WritersStay ==
  ASSUME TypeInv, RoleInv, [Next]_vars
  PROVE  \A u \in Users, r \in Repos :
           /\ access[u][r] = "writer" => access'[u][r] = "writer"
           /\ access'[u][r] # "none" => Exists(u)'
  <1>1. /\ accounts \in [Users -> {"none", "user", "admin"}]
        /\ access \in [Users -> [Repos -> Roles \cup {"none"}]]
        /\ invites \in Seq(Invite)
    BY DEF TypeInv, TypeOK
  <1>2. \A u \in Users, r \in Repos : access[u][r] # "none" => Exists(u)
    BY DEF RoleInv
  <1>3. CASE UNCHANGED <<access, accounts>>
    BY <1>2, <1>3 DEF Exists
  <1>4. ASSUME NEW i \in 1 .. Len(boot), NEW v \in Users, ConsumeBootstrap(i, v),
               access' = access, NEW u \in Users, NEW r \in Repos
        PROVE  /\ access[u][r] = "writer" => access'[u][r] = "writer"
               /\ access'[u][r] # "none" => Exists(u)'
    BY <1>1, <1>2, <1>4 DEF ConsumeBootstrap, Exists
  <1>5. ASSUME NEW w \in Workers, ConsumeInvite(w), NEW u \in Users, NEW r \in Repos
        PROVE  /\ access[u][r] = "writer" => access'[u][r] = "writer"
               /\ access'[u][r] # "none" => Exists(u)'
    <2> DEFINE v == req[w].user
               repo == invites[req[w].invite].repo
               role == invites[req[w].invite].role
    <2>1. v \in Users
      BY <1>5, RequestFacts DEF ConsumeInvite, FieldsSet, NeedsUser
    <2>2. \/ UNCHANGED <<accounts, access>>
          \/ /\ ~Exists(v)
             /\ accounts' = [accounts EXCEPT ![v] = "user"]
             /\ access' = [access EXCEPT ![v][repo] = role]
      BY <1>5 DEF ConsumeInvite
    <2> HIDE DEF v, repo, role
    <2>3. QED
      BY <1>1, <1>2, <2>1, <2>2 DEF Exists
  <1>6. ASSUME NEW w \in Workers, GrantFounder(w), NEW u \in Users, NEW r \in Repos
        PROVE  /\ access[u][r] = "writer" => access'[u][r] = "writer"
               /\ access'[u][r] # "none" => Exists(u)'
    <2>1. req[w].user \in Users /\ req[w].repo \in Repos
      BY <1>6, RequestFacts DEF GrantFounder, FieldsSet, NeedsUser, NeedsRepo
    <2>2. QED
      BY <1>1, <1>2, <1>6, <2>1 DEF GrantFounder, Exists
  <1>7. QED
    BY <1>3, <1>4, <1>5, <1>6, RoleWriters

LEMMA RoleInductive == TypeInv /\ RoleInv /\ [Next]_vars => RoleInv'
  <1> SUFFICES ASSUME TypeInv, RoleInv, [Next]_vars PROVE RoleInv'
    OBVIOUS
  <1>1. \A u \in Users, r \in Repos :
           /\ access[u][r] = "writer" => access'[u][r] = "writer"
           /\ access'[u][r] # "none" => Exists(u)'
    BY WritersStay
  <1>2. \A w \in Workers : req[w].pc = "write" =>
          /\ req[w].by \in Users /\ req[w].repo \in Repos
          /\ access[req[w].by][req[w].repo] = "writer"
          /\ access'[req[w].by][req[w].repo] = "writer"
    BY <1>1, RequestFacts DEF RoleInv, FieldsSet, NeedsBy, NeedsRepo
  <1>3. \A w \in Workers :
          req'[w].pc = "write" => access'[req'[w].by][req'[w].repo] = "writer"
    <2>1. CASE req' = req
      BY <1>2, <2>1
    <2>2. CASE req' = [w \in Workers |-> Idle]
      BY <2>2 DEF Idle
    <2>3. ASSUME NEW w \in Workers, Receive(w), NEW v \in Workers,
                 req'[v].pc = "write"
          PROVE  access'[req'[v].by][req'[v].repo] = "writer"
      <3>1. PICK q \in Request : /\ Hold(w, q) /\ FieldsSet(q, Len(invites))
                                 /\ q.pc # "write"
        BY <2>3, ReceiveFields
      <3>2. v # w /\ req'[v] = req[v]
        BY <2>3, <3>1 DEF Hold, TypeInv, TypeOK
      <3>3. QED
        BY <1>2, <2>3, <3>2
    <2>4. ASSUME NEW w \in Workers, Serve(w), NEW v \in Workers,
                 req'[v].pc = "write"
          PROVE  access'[req'[v].by][req'[v].repo] = "writer"
      <3>1. PICK q \in Request :
              /\ Hold(w, q) /\ FieldsSet(q, Len(invites))
              /\ q.pc = "write" => access[q.by][q.repo] = "writer"
        BY <2>4, ServeFields DEF Idle
      <3>2. req'[w] = q /\ (v # w => req'[v] = req[v])
        BY <3>1 DEF Hold, TypeInv, TypeOK
      <3>3. CASE v # w
        BY <1>2, <2>4, <3>2, <3>3
      <3>4. CASE v = w
        <4>1. /\ q.by \in Users /\ q.repo \in Repos
              /\ access[q.by][q.repo] = "writer"
          BY <2>4, <3>1, <3>2, <3>4 DEF FieldsSet, NeedsBy, NeedsRepo
        <4>2. QED
          BY <1>1, <3>2, <3>4, <4>1
      <3>5. QED
        BY <3>3, <3>4
    <2>5. QED
      BY <2>1, <2>2, <2>3, <2>4, RoleWriters
  <1>4. \A r \in Repos : \A u \in writers'[r] : access'[u][r] = "writer"
    <2>1. writers \in [Repos -> SUBSET Users]
      BY DEF TypeInv, TypeOK
    <2>2. \A r \in Repos : \A u \in writers[r] : access'[u][r] = "writer"
      BY <1>1, <2>1 DEF RoleInv, WritersOnly
    <2>3. ASSUME NEW w \in Workers, Write(w), NEW r \in Repos, NEW u \in writers'[r]
          PROVE  access'[u][r] = "writer"
      <3>1. u \in writers[r] \/ (r = req[w].repo /\ u = req[w].by)
        BY <2>1, <2>3 DEF Write
      <3>2. req[w].pc = "write"
        BY <2>3 DEF Write
      <3>3. QED
        BY <1>2, <2>2, <3>1, <3>2
    <2>4. QED
      BY <2>2, <2>3, RoleWriters
  <1>5. QED
    BY <1>1, <1>3, <1>4 DEF RoleInv, WritersOnly, Exists

\* Whoever changed a repo's data is a writer of that repo, although the role was
\* read in one statement and used in another.
THEOREM OnlyWritersWrite == Spec => []WritersOnly
  <1>1. Init => RoleInv
    BY DEF Init, RoleInv, WritersOnly, Idle
  <1>2. TypeInv /\ RoleInv /\ [Next]_vars => RoleInv'
    BY RoleInductive
  <1>3. RoleInv => WritersOnly
    BY DEF RoleInv
  <1>4. QED
    BY <1>1, <1>2, <1>3, TypeInvCorrect, PTL DEF Spec

-----------------------------------------------------------------------------
(* Sessions of disabled accounts.  A login that is in progress is what      *)
(* could give an ended account a session, so there must be none either.     *)

FreshInv ==
    \A u \in ended : ~LoggingIn(u) /\ \A s \in sessions : s.account # u

LEMMA FreshWriters ==
  ASSUME TypeInv, [Next]_vars
  PROVE  \/ UNCHANGED <<sessions, ended, req>>
         \/ UNCHANGED <<sessions, ended>> /\ Kill
         \/ \E w \in Workers : Receive(w)
         \/ \E w \in Workers : Serve(w)
  BY DEF Next, vars, database, EnsureBootstrap, PrintBootstrap, Kill, Tick,
     ConsumeBootstrap

LEMMA FreshInductive == TypeInv /\ FreshInv /\ [Next]_vars => FreshInv'
  <1> SUFFICES ASSUME TypeInv, FreshInv, [Next]_vars PROVE FreshInv'
    OBVIOUS
  <1>1. req \in [Workers -> Request]
    BY DEF TypeInv, TypeOK
  <1>2. CASE UNCHANGED <<sessions, ended, req>>
    BY <1>2 DEF FreshInv, LoggingIn
  <1>3. CASE UNCHANGED <<sessions, ended>> /\ Kill
    BY <1>3 DEF FreshInv, LoggingIn, Kill, Idle
  <1>4. ASSUME NEW w \in Workers, Receive(w) PROVE FreshInv'
    <2>1. PICK q \in Request : /\ Hold(w, q) /\ ended' \subseteq ended
                               /\ q.pc = "mint" => q.user \notin ended'
      BY <1>4, ReceiveFields
    <2>2. req'[w] = q /\ \A v \in Workers : v # w => req'[v] = req[v]
      BY <1>1, <2>1 DEF Hold
    <2>3. sessions' = sessions
      BY <1>4, ReceiveFields DEF database
    <2>4. QED
      BY <2>1, <2>2, <2>3 DEF FreshInv, LoggingIn
  <1>5. ASSUME NEW w \in Workers, Serve(w) PROVE FreshInv'
    <2>1. PICK q \in Request : Hold(w, q) /\ q.pc # "mint"
      BY <1>5, ServeFields DEF Idle
    <2>2. req'[w] = q /\ \A v \in Workers : v # w => req'[v] = req[v]
      BY <1>1, <2>1 DEF Hold
    <2>3. \A u : LoggingIn(u)' => LoggingIn(u)
      BY <2>1, <2>2 DEF LoggingIn
    <2>4. CASE MintSession(w)
      <3>1. LoggingIn(req[w].user) /\ ended' = ended
        BY <2>4 DEF MintSession, LoggingIn
      <3>2. \A s \in sessions' : s \in sessions \/ s.account = req[w].user
        BY <2>4 DEF MintSession
      <3>3. QED
        BY <2>3, <3>1, <3>2 DEF FreshInv
    <2>5. CASE DisableAccount(w)
      <3>1. \/ UNCHANGED <<sessions, ended>>
            \/ /\ sessions' = {s \in sessions : s.account # req[w].user}
               /\ ended' = IF LoggingIn(req[w].user) THEN ended
                           ELSE ended \cup {req[w].user}
        BY <2>5 DEF DisableAccount
      <3>2. QED
        BY <2>3, <3>1 DEF FreshInv
    <2>6. CASE UNCHANGED <<sessions, ended>>
      BY <2>3, <2>6 DEF FreshInv
    <2>7. QED
      BY <1>5, <2>4, <2>5, <2>6 DEF Serve, ConsumeInvite, RoleFor, Write,
         EnableAccount, CreateRepo, GrantFounder, CreateInvite, database
  <1>6. QED
    BY <1>2, <1>3, <1>4, <1>5, FreshWriters

\* Disabling an account while its user is not logging in ends its sessions for
\* good: until that user begins a login there is none, however enabling,
\* restarts and the statements of other requests follow.
THEOREM DisableEndsSessions == Spec => []FreshLoginNeeded
  <1>1. Init => FreshInv
    BY DEF Init, FreshInv
  <1>2. TypeInv /\ FreshInv /\ [Next]_vars => FreshInv'
    BY FreshInductive
  <1>3. FreshInv => FreshLoginNeeded
    BY DEF FreshInv, FreshLoginNeeded
  <1>4. QED
    BY <1>1, <1>2, <1>3, TypeInvCorrect, PTL DEF Spec

-----------------------------------------------------------------------------
(* Accounts and redeemed tokens are counted together.                      *)

Existing    == {u \in Users : Exists(u)}
UsedTokens  == {i \in 1 .. Len(boot) : boot[i] = "used"}
UsedInvites == {i \in 1 .. Len(invites) : invites[i].used}

\* Invites as they are issued.
Unused == [repo : Repos, role : Roles, expiry : Nat, used : {FALSE}]

EarnedInv == IsFiniteSet(Existing) /\ AccountsAreEarned

LEMMA EarnedMeans ==
  AccountsAreEarned <=>
    Cardinality(Existing) = Cardinality(UsedTokens) + Cardinality(UsedInvites)
  BY DEF AccountsAreEarned, Existing, UsedTokens, UsedInvites

LEMMA UsedFinite ==
  ASSUME TypeInv
  PROVE  /\ IsFiniteSet(UsedTokens) /\ Cardinality(UsedTokens) \in Nat
         /\ IsFiniteSet(UsedInvites) /\ Cardinality(UsedInvites) \in Nat
  <1>1. Len(boot) \in Nat /\ Len(invites) \in Nat
    BY DEF TypeInv, TypeOK
  <1>2. IsFiniteSet(1 .. Len(boot)) /\ IsFiniteSet(1 .. Len(invites))
    BY <1>1, FS_Interval
  <1>3. IsFiniteSet(UsedTokens)
    BY <1>2, FS_Subset DEF UsedTokens
  <1>4. IsFiniteSet(UsedInvites)
    BY <1>2, FS_Subset DEF UsedInvites
  <1>5. QED
    BY <1>3, <1>4, FS_CardinalityType

LEMMA EarnedInit == Init => EarnedInv
  <1> SUFFICES ASSUME Init PROVE EarnedInv
    OBVIOUS
  <1>1. Existing = {} /\ UsedTokens = {} /\ UsedInvites = {}
    BY DEF Init, Existing, Exists, UsedTokens, UsedInvites
  <1>2. QED
    BY <1>1, EarnedMeans, FS_EmptySet DEF EarnedInv

\* Which steps create accounts, change tokens and change invites.
LEMMA EarnedWriters ==
  ASSUME [Next]_vars
  PROVE  \/ UNCHANGED <<accounts, boot, invites>>
         \/ EnsureBootstrap
         \/ \E i \in 1 .. Len(boot), u \in Users : ConsumeBootstrap(i, u)
         \/ \E w \in Workers : ConsumeInvite(w) \/ CreateInvite(w)
  BY DEF Next, vars, database, PrintBootstrap, Kill, Tick, Receive, Register, Login,
     AuthAdmin, AuthRepo, Serve, MintSession, RoleFor, Write, CreateRepo,
     GrantFounder, DisableAccount, EnableAccount

LEMMA EarnedInductive == TypeInv /\ EarnedInv /\ [Next]_vars => EarnedInv'
  <1> SUFFICES ASSUME TypeInv, EarnedInv, [Next]_vars PROVE EarnedInv'
    OBVIOUS
  <1> DEFINE E == Cardinality(Existing)
             T == Cardinality(UsedTokens)
             I == Cardinality(UsedInvites)
  <1>1. /\ accounts \in [Users -> {"none", "user", "admin"}]
        /\ boot \in Seq({"live", "used"}) /\ Len(boot) \in Nat
        /\ invites \in Seq(Invite) /\ Len(invites) \in Nat
    BY DEF TypeInv, TypeOK
  <1>2. /\ IsFiniteSet(Existing) /\ E = T + I
        /\ IsFiniteSet(UsedTokens) /\ IsFiniteSet(UsedInvites)
        /\ T \in Nat /\ I \in Nat
    BY EarnedMeans, UsedFinite DEF EarnedInv
  <1>3. ASSUME Existing' = Existing, UsedTokens' = UsedTokens,
               UsedInvites' = UsedInvites
        PROVE  EarnedInv'
    BY <1>2, <1>3 DEF EarnedInv, AccountsAreEarned, Existing, UsedTokens, UsedInvites
  <1>4. (accounts' = accounts => Existing' = Existing)
          /\ (boot' = boot => UsedTokens' = UsedTokens)
          /\ (invites' = invites => UsedInvites' = UsedInvites)
    BY DEF Existing, Exists, UsedTokens, UsedInvites
  <1>5. CASE EnsureBootstrap
    <2>1. boot' = boot \/ boot' = Append(boot, "live")
      BY <1>5 DEF EnsureBootstrap
    <2>2. UsedTokens' = UsedTokens
      <3>1. CASE boot' = Append(boot, "live")
        <4>1. /\ Len(boot') = Len(boot) + 1 /\ boot'[Len(boot) + 1] = "live"
              /\ \A i \in 1 .. Len(boot) : boot'[i] = boot[i]
          BY <1>1, <3>1, AppendProperties
        <4>2. QED
          BY <1>1, <4>1 DEF UsedTokens
      <3>2. QED
        BY <1>4, <2>1, <3>1
    <2>3. QED
      BY <1>3, <1>4, <1>5, <2>2 DEF EnsureBootstrap
  <1>6. ASSUME NEW i \in 1 .. Len(boot), NEW u \in Users, ConsumeBootstrap(i, u)
        PROVE  EarnedInv'
    <2>1. /\ boot[i] = "live" /\ ~Exists(u) /\ invites' = invites
          /\ boot' = [boot EXCEPT ![i] = "used"]
          /\ accounts' = [accounts EXCEPT ![u] = "admin"]
      BY <1>6 DEF ConsumeBootstrap
    <2>2. Existing' = Existing \cup {u} /\ u \notin Existing
      BY <1>1, <2>1 DEF Existing, Exists
    <2>3. /\ Len(boot') = Len(boot)
          /\ \A j \in 1 .. Len(boot) : boot'[j] = IF j = i THEN "used" ELSE boot[j]
      BY <1>1, <2>1, ExceptSeq
    <2>4. UsedTokens' = UsedTokens \cup {i} /\ i \notin UsedTokens
      BY <2>1, <2>3 DEF UsedTokens
    <2>5. /\ IsFiniteSet(Existing') /\ Cardinality(Existing') = E + 1
          /\ Cardinality(UsedTokens') = T + 1
      BY <1>2, <2>2, <2>4, FS_AddElement
    <2>6. Cardinality(UsedInvites') = I
      BY <1>4, <2>1
    <2>7. Cardinality(Existing') = Cardinality(UsedTokens') + Cardinality(UsedInvites')
      BY <1>2, <2>5, <2>6
    <2>8. QED
      BY <2>5, <2>7 DEF EarnedInv, AccountsAreEarned, Existing, UsedTokens, UsedInvites
  <1>7. ASSUME NEW w \in Workers, ConsumeInvite(w) PROVE EarnedInv'
    <2> DEFINE u == req[w].user
               i == req[w].invite
    <2>1. u \in Users /\ i \in 1 .. Len(invites)
      BY <1>7, RequestFacts DEF ConsumeInvite, FieldsSet, NeedsUser
    <2>2. /\ boot' = boot
          /\ \/ UNCHANGED <<accounts, invites>>
             \/ /\ ~invites[i].used /\ ~Exists(u)
                /\ invites' = [invites EXCEPT ![i].used = TRUE]
                /\ accounts' = [accounts EXCEPT ![u] = "user"]
      BY <1>7 DEF ConsumeInvite
    <2>3. CASE UNCHANGED <<accounts, invites>>
      BY <1>3, <1>4, <2>2, <2>3
    <2>4. CASE /\ ~invites[i].used /\ ~Exists(u)
               /\ invites' = [invites EXCEPT ![i].used = TRUE]
               /\ accounts' = [accounts EXCEPT ![u] = "user"]
      <3> HIDE DEF u, i
      <3>1. Existing' = Existing \cup {u} /\ u \notin Existing
        BY <1>1, <2>1, <2>4 DEF Existing, Exists
      <3>2. /\ Len(invites') = Len(invites)
            /\ \A j \in 1 .. Len(invites) :
                 invites'[j].used <=> (j = i \/ invites[j].used)
        BY <1>1, <2>1, <2>4, InviteUsed
      <3>3. UsedInvites' = UsedInvites \cup {i} /\ i \notin UsedInvites
        BY <2>1, <2>4, <3>2 DEF UsedInvites
      <3>4. /\ IsFiniteSet(Existing') /\ Cardinality(Existing') = E + 1
            /\ Cardinality(UsedInvites') = I + 1
        BY <1>2, <3>1, <3>3, FS_AddElement
      <3>5. Cardinality(UsedTokens') = T
        BY <1>4, <2>2
      <3>6. Cardinality(Existing') = Cardinality(UsedTokens') + Cardinality(UsedInvites')
        BY <1>2, <3>4, <3>5
      <3>7. QED
        BY <3>4, <3>6 DEF EarnedInv, AccountsAreEarned, Existing, UsedTokens, UsedInvites
    <2>5. QED
      BY <2>2, <2>3, <2>4
  <1>8. ASSUME NEW w \in Workers, CreateInvite(w) PROVE EarnedInv'
    <2>1. UNCHANGED <<accounts, boot>>
      BY <1>8 DEF CreateInvite
    <2>2. \/ invites' = invites
          \/ \E e \in Unused :
                invites' = Append(invites, e)
      <3>1. req[w].repo \in Repos /\ InviteTTL \in Nat /\ clock \in Nat
        BY <1>8, RequestFacts, AccountsAssumption
        DEF CreateInvite, FieldsSet, NeedsRepo
      <3>2. \A role \in Roles : [repo |-> req[w].repo, role |-> role,
                                expiry |-> clock + InviteTTL, used |-> FALSE] \in Unused
        BY <3>1 DEF Unused
      <3>3. QED
        BY <1>8, <3>2 DEF CreateInvite
    <2>3. UsedInvites' = UsedInvites
      <3>1. ASSUME NEW e \in Unused,
                   invites' = Append(invites, e)
            PROVE  UsedInvites' = UsedInvites
        <4>1. e \in Invite /\ e.used = FALSE
          BY DEF Invite, Unused
        <4>2. /\ Len(invites') = Len(invites) + 1
              /\ invites'[Len(invites) + 1] = e
              /\ \A j \in 1 .. Len(invites) : invites'[j] = invites[j]
          BY <1>1, <3>1, <4>1, AppendProperties
        <4>3. QED
          BY <1>1, <4>1, <4>2 DEF UsedInvites
      <3>2. QED
        BY <1>4, <2>2, <3>1
    <2>4. QED
      BY <1>3, <1>4, <2>1, <2>3
  <1>9. QED
    BY <1>3, <1>4, <1>5, <1>6, <1>7, <1>8, EarnedWriters

\* Every account was earned by one redemption and every redemption made one
\* account: no token or invite makes two, however redemptions race, and one
\* that fails burns none.
THEOREM EveryAccountIsEarned == Spec => []AccountsAreEarned
  <1>1. Init => EarnedInv
    BY EarnedInit
  <1>2. TypeInv /\ EarnedInv /\ [Next]_vars => EarnedInv'
    BY EarnedInductive
  <1>3. EarnedInv => AccountsAreEarned
    BY DEF EarnedInv
  <1>4. QED
    BY <1>1, <1>2, <1>3, TypeInvCorrect, PTL DEF Spec
=============================================================================
