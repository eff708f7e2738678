-------------------------- MODULE HttpStoreProofs ---------------------------
(***************************************************************************)
(* The rows of the server behave as pointers, no genesis is overwritten,   *)
(* listed packs are stored, and answers and reports are true, for any      *)
(* number of clients, founders, requests and runs.                         *)
(*                                                                         *)
(* A request of an engine operation is sent only once there is a genesis,  *)
(* and carries the successor of a row that is still there or was replaced  *)
(* (Based).  A request of publish-genesis is sent only while what it       *)
(* writes is absent; as long as runs do not overlap it is the only one, so *)
(* that stays true until it is handled (OneRun).  A content goes out in    *)
(* one request only, and a pack that is to be deleted is never listed      *)
(* again (MadeInv).                                                        *)
(***************************************************************************)
EXTENDS HttpStore, TLAPS

GenesisPCs == {"keyfile", "checkRoster", "genesis"}
Waiting == {"keyfile", "genesis", "change", "wrapping", "blob", "publishing", "deleting"}

\* What holds of a request in flight while there is a genesis or not (e) and
\* the keyfile is k, in every state,
RequestOK(m, e, k) ==
    /\ m.verb # "none"
    /\ m.run # 0 => m.verb \in {"PutKeyfile", "PutRoster"}
    /\ m.run = 0 => e
    /\ m.verb = "PutKeyfile" => m.item # 0
    /\ m.verb = "PutManifest" => m.body.version = m.expect + 1
    /\ m.verb = "PutRoster" =>
         \/ m.run = 0 /\ m.next = m.expect + 1 /\ m.body.version = m.next
         \/ /\ m.run # 0 /\ m.next = 0 /\ m.body.version = m.next /\ m.expect = 0
            /\ m.body.id # 0 /\ k # 0

\* and of an operation o of client c, if the requests in flight are n.
OpOK(c, o, n, e, k) ==
    /\ o.call # NoRequest => o.call \in n /\ o.call.from = c
    /\ o.kind = "genesis" => c \in Founders /\ o.run # 0 /\ o.pc \in GenesisPCs
    /\ o.kind = "none" => o.pc = "idle"
    /\ o.kind \in {"change", "push", "rekey"} => e
    /\ o.pc \in GenesisPCs => o.kind = "genesis"
    /\ o.pc = "keyfile" => o.call.verb = "PutKeyfile"
    /\ o.pc = "checkRoster" => k # 0
    /\ o.pc \in {"change", "wrap"} => o.made.id # 0
    /\ o.pc \in {"blob", "publish"} => o.made.version = o.row.version + 1

AllRequestsOK == \A m \in net : RequestOK(m, Exists("roster"), keyfile)
AllOpsOK == \A c \in Clients : OpOK(c, op[c], net, Exists("roster"), keyfile)

RowsOK ==
    /\ \A k \in Pointers : rows[k].version = rows[k].body.version
    /\ Exists("roster") => keyfile # 0

\* The row that a content was made from is still there or was replaced.
Base(k, expect, prev) ==
    /\ expect <= rows[k].version
    /\ expect = rows[k].version => prev = rows[k].body.id

BasedRequest(m) ==
    /\ m.verb = "PutManifest" => Base("manifest", m.expect, m.body.prev)
    /\ (m.verb = "PutRoster" /\ m.run = 0) => Base("roster", m.expect, m.body.prev)

BasedOp(o) ==
    o.pc \in {"blob", "publish"} => Base("manifest", o.row.version, o.made.prev)

Based ==
    /\ \A m \in net : BasedRequest(m)
    /\ \A c \in Clients : BasedOp(op[c])

\* At most one run of publish-genesis, and at most one request of it.
OneRun ==
    /\ \A m, n \in net : m.run # 0 /\ n.run # 0 => m = n
    /\ \A f \in Clients : Publishing(f) =>
         /\ \A g \in Clients : Publishing(g) => f = g
         /\ \A m \in net : m.run # 0 => m = op[f].call
    /\ \A m \in net : m.run # 0 =>
         /\ m.verb = "PutRoster" => ~Exists("roster")
         /\ m.verb = "PutKeyfile" => keyfile = 0

Basic == TypeOK /\ AllRequestsOK /\ AllOpsOK /\ RowsOK

IInv == Basic /\ (~overlapped => Based /\ OneRun)

-----------------------------------------------------------------------------
(* Types *)

\* A request names its sender, and is one.
LEMMA Requests ==
    ASSUME NEW c \in Clients, NEW made \in Content, NEW expect \in Nat,
           NEW next \in Nat, NEW run \in Nat, NEW id \in Nat
    PROVE  /\ CASManifest(c, made, expect) \in Request
           /\ CASRoster(c, expect, made, next, run) \in Request
           /\ PutKeyfile(c, id, run) \in Request
           /\ PutBlob(c, id) \in Request
           /\ DeleteBlob(c, id) \in Request
           /\ CASManifest(c, made, expect) # NoRequest
           /\ CASRoster(c, expect, made, next, run) # NoRequest
           /\ PutKeyfile(c, id, run) # NoRequest
           /\ PutBlob(c, id) # NoRequest
           /\ DeleteBlob(c, id) # NoRequest
<1>1. NoRequest \in Request
  <2>1. 1 \in Clients  BY HttpStoreAssumption DEF Clients
  <2>. QED  BY <2>1 DEF NoRequest, Request, Verbs, NoContent, Content
<1>. QED  BY <1>1 DEF CASManifest, CASRoster, PutKeyfile, PutBlob, DeleteBlob,
                      NoRequest, Request, Verbs

\* Idle is an operation, and waits for nothing.
LEMMA IdleType ==
    ASSUME Clients # {}
    PROVE  /\ Idle \in Op
           /\ Idle.call = NoRequest
           /\ NoRequest \in Request
           /\ NoRow \in Row
           /\ NoContent \in Content
<1>1. 1 \in Clients  BY HttpStoreAssumption DEF Clients
<1>2. NoContent \in Content  BY DEF NoContent, Content
<1>3. NoRow \in Row  BY <1>2 DEF NoRow, Row
<1>4. NoRequest \in Request
  BY <1>1, <1>2 DEF NoRequest, Request, Verbs
<1>. QED
  BY <1>2, <1>3, <1>4 DEF Idle, Op, PCs, Kinds, Outcomes

OpTyped(o) == o \in Op /\ (o.call # NoRequest <=> o.pc \in Waiting)

\* A step of one client keeps the type of op,
LEMMA BecomeType ==
    ASSUME TypeOK, NEW c \in Clients, NEW o, OpTyped(o), Become(c, o)
    PROVE  /\ op' \in [Clients -> Op]
           /\ \A d \in Clients : OpTyped(op'[d])
BY DEF TypeOK, Become, OpTyped, Waiting

\* what an answer leaves is an operation,
LEMMA AfterType ==
    ASSUME NEW o, OpTyped(o), Clients # {}
    PROVE  OpTyped(AfterOK(o)) /\ OpTyped(AfterConflict(o)) /\ OpTyped(Idle)
<1>1. OpTyped(Idle)  BY IdleType DEF OpTyped, Idle, Waiting
<1>2. \A pc \in PCs \ Waiting : OpTyped(Moves(o, pc))
  BY IdleType DEF OpTyped, Moves, Op
<1>3. OpTyped([Idle EXCEPT !.told = "published"])
  BY <1>1, IdleType DEF OpTyped, Op, Idle, Waiting, Outcomes
<1>4. OpTyped([Moves(o, "read") EXCEPT !.tries = @ + 1])
  <2>1. OpTyped(Moves(o, "read"))  BY <1>2 DEF PCs, Waiting
  <2>. QED  BY <2>1 DEF OpTyped, Op
<1>5. OpTyped(AfterOK(o))
  <2>. {"checkRoster", "wrap", "publish", "delete"} \subseteq PCs \ Waiting
    BY DEF PCs, Waiting
  <2>. QED  BY <1>1, <1>2, <1>3 DEF AfterOK
<1>6. OpTyped(AfterConflict(o))  BY <1>1, <1>4 DEF AfterConflict
<1>. QED  BY <1>1, <1>5, <1>6

\* and so does the answer to a request.
LEMMA ReplyType ==
    ASSUME TypeOK, NEW m \in Request, NEW o, OpTyped(o), Reply(m, o)
    PROVE  /\ op' \in [Clients -> Op]
           /\ \A d \in Clients : OpTyped(op'[d])
<1>1. m.from \in Clients  BY DEF Request
<1>. QED  BY <1>1 DEF TypeOK, Reply, OpTyped, Waiting

\* Nothing has happened yet.
LEMMA InitType == Init => TypeOK
<1>. SUFFICES ASSUME Init PROVE TypeOK  OBVIOUS
<1>1. NoContent \in Content  BY DEF NoContent, Content
<1>2. rows \in [Pointers -> Row]  BY <1>1 DEF Init, NoRow, Row
<1>3. Clients # {} => OpTyped(Idle)
  BY IdleType DEF OpTyped, Idle, Waiting
<1>4. op \in [Clients -> Op] /\ \A c \in Clients : OpTyped(op[c])
  BY <1>3 DEF Init, OpTyped
<1>. QED
  BY <1>2, <1>4, HttpStoreAssumption DEF Init, TypeOK, OpTyped, Waiting

\* Each step of a client becomes an operation of its type, and sends at most
\* one request of its own.
Sends(c, o) == net' = net \/ (net' = net \cup {o.call} /\ o.call \in Request)
TypedStep(c) == \E o : OpTyped(o) /\ Become(c, o) /\ Sends(c, o)

\* A genesis is a content.
LEMMA Genesis0 == \A f \in Nat : Genesis(f) \in Content
BY DEF Genesis, Content, NoContent

\* publish-genesis begins with an operation of its type,
LEMMA BeginPublishType ==
    ASSUME TypeOK, NEW f \in Clients, BeginPublish(f)
    PROVE  TypedStep(f) /\ runs' \in Nat /\ overlapped' \in BOOLEAN
<1>. DEFINE o == [Idle EXCEPT !.kind = "genesis", !.run = runs + 1]
            r == PutKeyfile(f, f, runs + 1)
<1>0. f \in Nat /\ runs + 1 \in Nat  BY HttpStoreAssumption DEF TypeOK, Clients
<1>1. r \in Request /\ r # NoRequest
  BY <1>0, Requests, IdleType
<1>2. o \in Op  BY <1>0, IdleType DEF Op, Kinds
<1>3. OpTyped([o EXCEPT !.pc = "keyfile", !.call = r])
  BY <1>1, <1>2 DEF OpTyped, Op, PCs, Waiting
<1>4. OpTyped(Moves(o, "checkRoster"))
  BY <1>2, IdleType DEF OpTyped, Op, PCs, Waiting, Moves
<1>5. OpTyped([Idle EXCEPT !.told = "refused"])
  BY IdleType DEF OpTyped, Op, Idle, Waiting, Outcomes
<1>6. [o EXCEPT !.pc = "keyfile", !.call = r].call = r  BY <1>2 DEF Op
<1>7. runs' \in Nat /\ overlapped' \in BOOLEAN
  BY <1>0 DEF BeginPublish, TypeOK
<1>8. CASE Send(f, o, "keyfile", r)
  BY <1>1, <1>3, <1>6, <1>7, <1>8 DEF Send, TypedStep, Sends
<1>9. CASE Become(f, Moves(o, "checkRoster")) /\ UNCHANGED net
  BY <1>4, <1>7, <1>9 DEF TypedStep, Sends
<1>10. CASE Become(f, [Idle EXCEPT !.told = "refused"]) /\ UNCHANGED net
  BY <1>5, <1>7, <1>10 DEF TypedStep, Sends
<1>. QED  BY <1>8, <1>9, <1>10 DEF BeginPublish

\* and Send is such a step.
LEMMA SendType ==
    ASSUME NEW c \in Clients, NEW o \in Op, NEW pc \in Waiting,
           NEW r \in Request, r # NoRequest, Send(c, o, pc, r)
    PROVE  TypedStep(c)
<1>. DEFINE n == [o EXCEPT !.pc = pc, !.call = r]
<1>1. OpTyped(n) /\ n.call = r  BY DEF OpTyped, Op, PCs, Waiting
<1>. QED  BY <1>1 DEF Send, TypedStep, Sends

\* What follows a row is a content.
LEMMA SuccessorType ==
    ASSUME TypeOK, NEW r \in Row, NEW packs \in SUBSET Nat
    PROVE  Successor(r, packs) \in Content
BY DEF TypeOK, Row, Content, Successor

\* Every other step of a client is typed too.
LEMMA ClientType ==
    ASSUME TypeOK, NEW c \in Clients, ClientStep(c) \/ CheckRoster(c)
    PROVE  TypedStep(c)
<1>. USE DEF Pointers
<1>0. /\ op[c] \in Op /\ c \in Nat
      /\ op[c].made \in Content /\ op[c].row \in Row /\ op[c].run \in Nat
      /\ rows["roster"] \in Row /\ rows["manifest"] \in Row /\ lastId + 1 \in Nat
  BY HttpStoreAssumption DEF TypeOK, Op, Clients
<1>1. OpTyped(Idle)  BY IdleType DEF OpTyped, Idle, Waiting
<1>2. CASE CheckRoster(c)
  <2>1. CASE Send(c, op[c], "genesis", CASRoster(c, 0, Genesis(c), 0, op[c].run))
    BY <1>0, <2>1, Genesis0, Requests, SendType DEF Waiting
  <2>2. CASE \E t \in Outcomes : Become(c, [Idle EXCEPT !.told = t]) /\ UNCHANGED net
    <3>1. PICK t \in Outcomes : Become(c, [Idle EXCEPT !.told = t]) /\ UNCHANGED net
      BY <2>2
    <3>2. OpTyped([Idle EXCEPT !.told = t])
      BY IdleType DEF OpTyped, Op, Idle, Waiting
    <3>. QED  BY <3>1, <3>2 DEF TypedStep, Sends
  <2>. QED  BY <1>2, <2>1, <2>2 DEF CheckRoster, Outcomes
<1>3. CASE BeginChange(c)
  <2>. DEFINE r == rows["roster"]
              made == Successor(r, {})
              o == [Idle EXCEPT !.kind = "change", !.row = r, !.made = made]
              q == CASRoster(c, r.version, made, r.version + 1, 0)
  <2>1. made \in Content /\ r.version \in Nat /\ r.version + 1 \in Nat
    BY <1>0, SuccessorType DEF Row
  <2>2. q \in Request /\ q # NoRequest  BY <2>1, Requests
  <2>3. o \in Op  BY <1>0, <2>1, IdleType DEF Op, Kinds
  <2>4. Send(c, o, "change", q)  BY <1>3 DEF BeginChange
  <2>. QED  BY <2>2, <2>3, <2>4, SendType DEF Waiting
<1>4. CASE WrapKeyfile(c)
  <2>1. op[c].made.id \in Nat  BY <1>0 DEF Content
  <2>. QED  BY <1>0, <1>4, <2>1, Requests, SendType DEF WrapKeyfile, Waiting
<1>5. CASE BeginPush(c)
  <2>1. PICK k \in {"push", "rekey"} :
           Become(c, [Idle EXCEPT !.kind = k, !.pc = "read"]) /\ UNCHANGED net
    BY <1>5 DEF BeginPush
  <2>2. OpTyped([Idle EXCEPT !.kind = k, !.pc = "read"])
    BY IdleType DEF OpTyped, Op, Kinds, PCs, Waiting
  <2>. QED  BY <2>1, <2>2 DEF TypedStep, Sends
<1>6. CASE ReadManifest(c)
  <2>. DEFINE r == rows["manifest"]
              id == lastId + 1
              kept == IF op[c].kind = "rekey" THEN {} ELSE r.body.packs
              made == Successor(r, kept \cup {id})
              o == [op[c] EXCEPT !.row = r, !.made = made]
  <2>1. kept \cup {id} \in SUBSET Nat  BY <1>0 DEF Row, Content
  <2>2. made \in Content  BY <1>0, <2>1, SuccessorType
  <2>3. o \in Op  BY <1>0, <2>2 DEF Op
  <2>4. PutBlob(c, id) \in Request /\ PutBlob(c, id) # NoRequest
    BY <1>0, <2>2, Requests
  <2>5. Send(c, o, "blob", PutBlob(c, id))  BY <1>6 DEF ReadManifest
  <2>. QED  BY <2>3, <2>4, <2>5, SendType DEF Waiting
<1>7. CASE Publish(c)
  <2>1. op[c].row.version \in Nat  BY <1>0 DEF Row
  <2>. QED  BY <1>0, <1>7, <2>1, Requests, SendType DEF Publish, Waiting
<1>8. CASE DeleteOld(c)
  <2>1. CASE Become(c, Idle) /\ UNCHANGED net
    BY <1>1, <2>1 DEF TypedStep, Sends
  <2>2. ASSUME NEW p \in op[c].row.body.packs,
               Send(c, [op[c] EXCEPT !.row.body.packs = @ \ {p}],
                    "deleting", DeleteBlob(c, p))
        PROVE  TypedStep(c)
    <3>1. p \in Nat  BY <1>0 DEF Row, Content
    <3>2. [op[c] EXCEPT !.row.body.packs = @ \ {p}] \in Op
      BY <1>0 DEF Op, Row, Content
    <3>. QED  BY <1>0, <2>2, <3>1, <3>2, Requests, SendType DEF Waiting
  <2>. QED  BY <1>8, <2>1, <2>2 DEF DeleteOld
<1>9. CASE GiveUp(c)
  BY <1>1, <1>9 DEF GiveUp, TypedStep, Sends
<1>. QED
  BY <1>2, <1>3, <1>4, <1>5, <1>6, <1>7, <1>8, <1>9 DEF ClientStep

\* The server keeps the type of what it writes.
LEMMA HandleType ==
    ASSUME TypeOK, Handle
    PROVE  TypeOK'
<1>1. PICK m \in net :
        /\ net' = net \ {m}
        /\ \/ HandlePutManifest(m) \/ HandlePutRoster(m) \/ HandlePutKeyfile(m)
           \/ HandlePutBlob(m) \/ HandleDeleteBlob(m) \/ Fails(m)
        /\ UNCHANGED <<lastId, runs, overlapped>>
  BY DEF Handle
<1>2. /\ m \in Request /\ m.from \in Clients /\ m.body \in Content
      /\ m.expect \in Nat /\ m.next \in Nat /\ m.item \in Nat
  BY DEF TypeOK, Request
<1>3. OpTyped(op[m.from])  BY <1>2 DEF TypeOK, OpTyped, Waiting
<1>4. PICK o : OpTyped(o) /\ Reply(m, o)
  BY <1>1, <1>2, <1>3, AfterType DEF OK, Conflict, Fails, HandlePutManifest,
     HandlePutRoster, HandlePutKeyfile, HandlePutBlob, HandleDeleteBlob
<1>5. op' \in [Clients -> Op] /\ \A d \in Clients : OpTyped(op'[d])
  BY <1>2, <1>4, ReplyType
<1>6. ASSUME NEW k \in Pointers, NEW v \in Nat, Store(k, v, m.body)
      PROVE  rows' \in [Pointers -> Row] /\ committed' \in SUBSET Nat
  BY <1>2, <1>6 DEF TypeOK, Store, Row, Content
<1>7. rows' \in [Pointers -> Row] /\ committed' \in SUBSET Nat
  <2>1. "manifest" \in Pointers /\ "roster" \in Pointers /\ m.expect + 1 \in Nat
    BY <1>2 DEF Pointers
  <2>2. \/ UNCHANGED <<rows, committed>>
        \/ casManifest(m)
        \/ casRoster(m)
    BY <1>1 DEF HandlePutManifest, HandlePutRoster, HandlePutKeyfile,
       HandlePutBlob, HandleDeleteBlob, Fails, server
  <2>3. CASE casManifest(m)  BY <1>6, <2>1, <2>3 DEF casManifest
  <2>4. CASE casRoster(m)  BY <1>2, <1>6, <2>1, <2>4 DEF casRoster
  <2>. QED  BY <2>2, <2>3, <2>4 DEF TypeOK
<1>8. keyfile' \in Nat /\ blobs' \in SUBSET Nat
  BY <1>1, <1>2 DEF HandlePutManifest, HandlePutRoster, HandlePutKeyfile,
     HandlePutBlob, HandleDeleteBlob, Fails, server, TypeOK
<1>. QED  BY <1>1, <1>5, <1>7, <1>8 DEF TypeOK, OpTyped, Waiting

\* Every step keeps the types.
LEMMA StepType == TypeOK /\ [Next]_vars => TypeOK'
<1>. SUFFICES ASSUME TypeOK, [Next]_vars PROVE TypeOK'  OBVIOUS
<1>1. ASSUME NEW c \in Clients, TypedStep(c), UNCHANGED <<server, committed>>,
             lastId' \in Nat, runs' \in Nat, overlapped' \in BOOLEAN
      PROVE  TypeOK'
  <2>1. PICK o : OpTyped(o) /\ Become(c, o) /\ Sends(c, o)  BY <1>1 DEF TypedStep
  <2>2. op' \in [Clients -> Op] /\ \A d \in Clients : OpTyped(op'[d])
    BY <2>1, BecomeType
  <2>3. net' \in SUBSET Request  BY <2>1 DEF Sends, TypeOK
  <2>. QED  BY <1>1, <2>2, <2>3 DEF TypeOK, OpTyped, Waiting, server
<1>2. ASSUME NEW f \in Founders, BeginPublish(f)  PROVE TypeOK'
  <2>1. f \in Clients  BY HttpStoreAssumption
  <2>. QED  BY <1>1, <1>2, <2>1, BeginPublishType DEF BeginPublish, TypeOK
<1>3. ASSUME NEW c \in Clients, ClientStep(c) \/ CheckRoster(c)  PROVE TypeOK'
  <2>1. TypedStep(c)  BY <1>3, ClientType
  <2>2. UNCHANGED <<server, committed>> /\ runs' = runs /\ overlapped' = overlapped
    BY <1>3 DEF ClientStep, CheckRoster, BeginChange, WrapKeyfile, BeginPush,
                ReadManifest, Publish, DeleteOld, GiveUp, history
  <2>3. lastId' \in Nat
    BY <1>3 DEF ClientStep, CheckRoster, BeginChange, WrapKeyfile, BeginPush,
                ReadManifest, Publish, DeleteOld, GiveUp, TypeOK
  <2>. QED  BY <1>1, <2>1, <2>2, <2>3 DEF TypeOK
<1>4. CASE Handle  BY <1>4, HandleType
<1>5. CASE UNCHANGED vars
  BY <1>5 DEF vars, server, history, TypeOK
<1>6. Founders \subseteq Clients  BY HttpStoreAssumption
<1>. QED  BY <1>2, <1>3, <1>4, <1>5, <1>6 DEF Next

\* Every variable keeps its type (the whole module).
THEOREM TypeCorrect == Spec => []TypeOK
<1>1. Init => TypeOK  BY InitType
<1>2. TypeOK /\ [Next]_vars => TypeOK'  BY StepType
<1>. QED  BY <1>1, <1>2, PTL DEF Spec

-----------------------------------------------------------------------------
(* Requests, operations and rows *)

\* What was there stays: a genesis and a keyfile.
Stays ==
    /\ Exists("roster") => Exists("roster")'
    /\ keyfile # 0 => keyfile' # 0

\* The same of the next state.
RequestNext(m) == RequestOK(m, Exists("roster")', keyfile')
OpNext(c, o) == OpOK(c, o, net', Exists("roster")', keyfile')
BasicNext == AllRequestsOK' /\ AllOpsOK' /\ RowsOK'

\* A step of client c that becomes o, and perhaps sends o.call.
LEMMA BecomeBasic ==
    ASSUME Basic, NEW c \in Clients, NEW o, Become(c, o), UNCHANGED server,
           \/ net' = net
           \/ net' = net \cup {o.call} /\ RequestNext(o.call),
           OpNext(c, o)
    PROVE  BasicNext
<1>1. AllRequestsOK'
  BY DEF Basic, AllRequestsOK, RequestNext, server, Exists
<1>2. ASSUME NEW d \in Clients  PROVE OpNext(d, op'[d])
  <2>1. CASE d = c  BY <2>1 DEF Become, Basic, TypeOK
  <2>2. CASE d # c
    <3>1. op'[d] = op[d]  BY <2>2 DEF Become, Basic, TypeOK
    <3>2. OpOK(d, op[d], net, Exists("roster"), keyfile)  BY DEF Basic, AllOpsOK
    <3>3. net \subseteq net'  OBVIOUS
    <3>. QED  BY <3>1, <3>2, <3>3 DEF OpOK, OpNext, server, Exists
  <2>. QED  BY <2>1, <2>2
<1>3. RowsOK'  BY DEF Basic, RowsOK, server, Exists
<1>. QED  BY <1>1, <1>2, <1>3 DEF AllOpsOK, OpNext, BasicNext

\* Idle with another report is as good as Idle.
LEMMA IdleOK ==
    ASSUME NEW c, NEW t
    PROVE  OpNext(c, Idle) /\ OpNext(c, [Idle EXCEPT !.told = t])
BY DEF OpNext, OpOK, Idle, GenesisPCs

\* The fields of the requests.
LEMMA Fields ==
    ASSUME NEW c, NEW made, NEW expect, NEW next, NEW run, NEW id
    PROVE  /\ LET q == CASManifest(c, made, expect) IN
              q.from = c /\ q.verb = "PutManifest" /\ q.body = made
              /\ q.expect = expect /\ q.run = 0
           /\ LET q == CASRoster(c, expect, made, next, run) IN
              q.from = c /\ q.verb = "PutRoster" /\ q.body = made
              /\ q.expect = expect /\ q.next = next /\ q.run = run
           /\ LET q == PutKeyfile(c, id, run) IN
              q.from = c /\ q.verb = "PutKeyfile" /\ q.item = id /\ q.run = run
           /\ LET q == PutBlob(c, id) IN
              q.from = c /\ q.verb = "PutBlob" /\ q.item = id /\ q.run = 0
           /\ LET q == DeleteBlob(c, id) IN
              q.from = c /\ q.verb = "DeleteBlob" /\ q.item = id /\ q.run = 0
BY DEF CASManifest, CASRoster, PutKeyfile, PutBlob, DeleteBlob, NoRequest

\* publish-genesis looks at the keyfile,
LEMMA BeginPublishBasic ==
    ASSUME Basic, NEW f \in Founders, BeginPublish(f)
    PROVE  BasicNext
<1>. DEFINE o == [Idle EXCEPT !.kind = "genesis", !.run = runs + 1]
            q == PutKeyfile(f, f, runs + 1)
            n == [o EXCEPT !.pc = "keyfile", !.call = q]
            k == Moves(o, "checkRoster")
            x == [Idle EXCEPT !.told = "refused"]
<1>0. f \in Clients /\ f \in Nat /\ f # 0 /\ runs + 1 # 0 /\ UNCHANGED server
  BY HttpStoreAssumption DEF Basic, TypeOK, Clients, BeginPublish
<1>1. CASE keyfile = 0 /\ Send(f, o, "keyfile", q)
  <2>1. q.from = f /\ q.verb = "PutKeyfile" /\ q.item = f /\ q.run = runs + 1
    BY Fields
  <2>2. RequestNext(q)  BY <1>0, <2>1 DEF RequestNext, RequestOK
  <2>3. Become(f, n) /\ net' = net \cup {n.call} /\ n.call = q
    BY <1>1 DEF Send, Idle
  <2>4. n.pc = "keyfile" /\ n.kind = "genesis" /\ n.run = runs + 1  BY DEF Idle
  <2>5. OpNext(f, n)  BY <1>0, <2>1, <2>3, <2>4 DEF OpNext, OpOK, GenesisPCs
  <2>. QED  BY <1>0, <2>2, <2>3, <2>5, BecomeBasic
<1>2. CASE keyfile = f /\ Become(f, k) /\ UNCHANGED net
  <2>1. k.pc = "checkRoster" /\ k.kind = "genesis" /\ k.run = runs + 1
        /\ k.call = NoRequest
    BY DEF Idle, Moves
  <2>2. OpNext(f, k)  BY <1>0, <1>2, <2>1 DEF OpNext, OpOK, GenesisPCs, server
  <2>. QED  BY <1>0, <1>2, <2>2, BecomeBasic
<1>3. CASE Become(f, x) /\ UNCHANGED net
  BY <1>0, <1>3, IdleOK, BecomeBasic
<1>. QED  BY <1>1, <1>2, <1>3 DEF BeginPublish

\* and at the roster.
LEMMA CheckRosterBasic ==
    ASSUME Basic, NEW f \in Founders, CheckRoster(f)
    PROVE  BasicNext
<1>. DEFINE q == CASRoster(f, 0, Genesis(f), 0, op[f].run)
            n == [op[f] EXCEPT !.pc = "genesis", !.call = q]
<1>0. /\ f \in Clients /\ f \in Nat /\ f # 0 /\ UNCHANGED server
      /\ op[f] \in Op /\ OpOK(f, op[f], net, Exists("roster"), keyfile) /\ op[f].pc = "checkRoster"
  BY HttpStoreAssumption DEF Basic, TypeOK, AllOpsOK, Clients, CheckRoster, At
<1>1. CASE Send(f, op[f], "genesis", q)
  <2>1. q.from = f /\ q.verb = "PutRoster" /\ q.body = Genesis(f)
        /\ q.expect = 0 /\ q.next = 0 /\ q.run = op[f].run
    BY Fields
  <2>2. Genesis(f).id = f /\ Genesis(f).version = 0  BY DEF Genesis, NoContent
  <2>3. op[f].run # 0 /\ op[f].kind = "genesis" /\ keyfile' # 0
    BY <1>0 DEF OpNext, OpOK, GenesisPCs, server
  <2>4. RequestNext(q)  BY <1>0, <2>1, <2>2, <2>3 DEF RequestNext, RequestOK
  <2>5. Become(f, n) /\ net' = net \cup {n.call} /\ n.call = q
    BY <1>0, <1>1 DEF Send, Op
  <2>6. n.pc = "genesis" /\ n.kind = "genesis" /\ n.run = op[f].run
    BY <1>0, <2>3 DEF Op
  <2>7. OpNext(f, n)  BY <1>0, <2>1, <2>3, <2>5, <2>6 DEF OpNext, OpOK, GenesisPCs
  <2>. QED  BY <1>0, <2>4, <2>5, <2>7, BecomeBasic
<1>2. ASSUME NEW t, Become(f, [Idle EXCEPT !.told = t]), UNCHANGED net
      PROVE  BasicNext
  BY <1>0, <1>2, IdleOK, BecomeBasic
<1>. QED  BY <1>1, <1>2 DEF CheckRoster

\* The engine sends requests that are as they should be.
LEMMA ClientBasic ==
    ASSUME Basic, NEW c \in Clients, ClientStep(c)
    PROVE  BasicNext
<1>. DEFINE e == Exists("roster")
<1>0. /\ op[c] \in Op /\ OpOK(c, op[c], net, e, keyfile)
      /\ lastId + 1 # 0 /\ UNCHANGED server
      /\ keyfile' = keyfile /\ Exists("roster")' = e
      /\ rows["roster"] \in Row /\ rows["manifest"] \in Row
  BY DEF Basic, TypeOK, AllOpsOK, ClientStep, BeginChange, WrapKeyfile, BeginPush,
         ReadManifest, Publish, DeleteOld, GiveUp, server, Exists, Pointers
<1>1. CASE BeginChange(c)
  <2>. DEFINE r == rows["roster"]
              made == Successor(r, {})
              o == [Idle EXCEPT !.kind = "change", !.row = r, !.made = made]
              q == CASRoster(c, r.version, made, r.version + 1, 0)
              n == [o EXCEPT !.pc = "change", !.call = q]
  <2>1. /\ q.from = c /\ q.verb = "PutRoster" /\ q.body = made
        /\ q.expect = r.version /\ q.next = r.version + 1 /\ q.run = 0
    BY Fields
  <2>2. made.version = r.version + 1 /\ made.id = lastId + 1 /\ e
    BY <1>1 DEF Successor, BeginChange
  <2>3. RequestNext(q)  BY <1>0, <2>1, <2>2 DEF RequestNext, RequestOK
  <2>4. n.pc = "change" /\ n.kind = "change" /\ n.made = made /\ n.call = q
    BY DEF Idle
  <2>5. Become(c, n) /\ net' = net \cup {n.call}
    BY <1>1, <2>4 DEF BeginChange, Send
  <2>6. OpNext(c, n)
    BY <1>0, <2>1, <2>2, <2>4, <2>5 DEF OpNext, OpOK, GenesisPCs
  <2>. QED  BY <1>0, <2>3, <2>4, <2>5, <2>6, BecomeBasic
<1>2. CASE WrapKeyfile(c)
  <2>. DEFINE q == PutKeyfile(c, op[c].made.id, 0)
              n == [op[c] EXCEPT !.pc = "wrapping", !.call = q]
  <2>1. q.from = c /\ q.verb = "PutKeyfile" /\ q.item = op[c].made.id /\ q.run = 0
    BY Fields
  <2>2. op[c].pc = "wrap" /\ op[c].made.id # 0
        /\ op[c].kind \in {"change", "push", "rekey"} /\ e
    BY <1>0, <1>2 DEF WrapKeyfile, At, OpOK, GenesisPCs, Op, Kinds
  <2>3. RequestNext(q)  BY <1>0, <2>1, <2>2 DEF RequestNext, RequestOK
  <2>4. n.pc = "wrapping" /\ n.kind = op[c].kind /\ n.call = q
    BY <1>0 DEF Op
  <2>5. Become(c, n) /\ net' = net \cup {n.call}
    BY <1>2, <2>4 DEF WrapKeyfile, Send
  <2>6. OpNext(c, n)
    BY <1>0, <2>1, <2>2, <2>4, <2>5 DEF OpNext, OpOK, GenesisPCs
  <2>. QED  BY <1>0, <2>3, <2>4, <2>5, <2>6, BecomeBasic
<1>3. CASE BeginPush(c)
  <2>1. PICK k \in {"push", "rekey"} :
           Become(c, [Idle EXCEPT !.kind = k, !.pc = "read"]) /\ UNCHANGED net
    BY <1>3 DEF BeginPush
  <2>. DEFINE n == [Idle EXCEPT !.kind = k, !.pc = "read"]
  <2>2. n.kind = k /\ n.pc = "read" /\ n.call = NoRequest  BY DEF Idle
  <2>3. OpNext(c, n)
    BY <1>0, <1>3, <2>2 DEF OpNext, OpOK, GenesisPCs, BeginPush
  <2>. QED  BY <1>0, <2>1, <2>3, BecomeBasic
<1>4. CASE ReadManifest(c)
  <2>. DEFINE r == rows["manifest"]
              kept == IF op[c].kind = "rekey" THEN {} ELSE r.body.packs
              made == Successor(r, kept \cup {lastId + 1})
              o == [op[c] EXCEPT !.row = r, !.made = made]
              q == PutBlob(c, lastId + 1)
              n == [o EXCEPT !.pc = "blob", !.call = q]
  <2>1. q.from = c /\ q.verb = "PutBlob" /\ q.run = 0  BY Fields
  <2>2. op[c].pc = "read" /\ op[c].kind \in {"change", "push", "rekey"} /\ e
    BY <1>0, <1>4 DEF ReadManifest, At, OpOK, GenesisPCs, Op, Kinds
  <2>3. RequestNext(q)  BY <1>0, <2>1, <2>2 DEF RequestNext, RequestOK
  <2>4. /\ n.pc = "blob" /\ n.kind = op[c].kind /\ n.call = q
        /\ n.made = made /\ n.row = r
    BY <1>0 DEF Op
  <2>5. Become(c, n) /\ net' = net \cup {n.call}
    BY <1>4, <2>4 DEF ReadManifest, Send
  <2>6. made.version = r.version + 1  BY DEF Successor
  <2>7. OpNext(c, n)
    BY <1>0, <2>1, <2>2, <2>4, <2>5, <2>6 DEF OpNext, OpOK, GenesisPCs
  <2>. QED  BY <1>0, <2>3, <2>4, <2>5, <2>7, BecomeBasic
<1>5. CASE Publish(c)
  <2>. DEFINE q == CASManifest(c, op[c].made, op[c].row.version)
              n == [op[c] EXCEPT !.pc = "publishing", !.call = q]
  <2>1. /\ q.from = c /\ q.verb = "PutManifest" /\ q.body = op[c].made
        /\ q.expect = op[c].row.version /\ q.run = 0
    BY Fields
  <2>2. op[c].pc = "publish" /\ op[c].kind \in {"change", "push", "rekey"} /\ e
    BY <1>0, <1>5 DEF Publish, At, OpOK, GenesisPCs, Op, Kinds
  <2>3. RequestNext(q)  BY <1>0, <2>1, <2>2 DEF RequestNext, RequestOK, OpOK
  <2>4. n.pc = "publishing" /\ n.kind = op[c].kind /\ n.call = q
    BY <1>0 DEF Op
  <2>5. Become(c, n) /\ net' = net \cup {n.call}
    BY <1>5, <2>4 DEF Publish, Send
  <2>6. OpNext(c, n)
    BY <1>0, <2>1, <2>2, <2>4, <2>5 DEF OpNext, OpOK, GenesisPCs
  <2>. QED  BY <1>0, <2>3, <2>4, <2>5, <2>6, BecomeBasic
<1>6. CASE DeleteOld(c)
  <2>1. CASE Become(c, Idle) /\ UNCHANGED net
    BY <1>0, <2>1, IdleOK, BecomeBasic
  <2>2. ASSUME NEW p \in op[c].row.body.packs,
               Send(c, [op[c] EXCEPT !.row.body.packs = @ \ {p}],
                    "deleting", DeleteBlob(c, p))
        PROVE  BasicNext
    <3>. DEFINE q == DeleteBlob(c, p)
                o == [op[c] EXCEPT !.row.body.packs = @ \ {p}]
                n == [o EXCEPT !.pc = "deleting", !.call = q]
    <3>1. q.from = c /\ q.verb = "DeleteBlob" /\ q.run = 0  BY Fields
    <3>2. op[c].pc = "delete" /\ op[c].kind \in {"change", "push", "rekey"} /\ e
      BY <1>0, <1>6 DEF DeleteOld, At, OpOK, GenesisPCs, Op, Kinds
    <3>3. RequestNext(q)  BY <1>0, <3>1, <3>2 DEF RequestNext, RequestOK
    <3>4. n.pc = "deleting" /\ n.kind = op[c].kind /\ n.call = q
      BY <1>0 DEF Op
    <3>5. Become(c, n) /\ net' = net \cup {n.call}
      BY <2>2, <3>4 DEF Send
    <3>6. OpNext(c, n)
      BY <1>0, <3>1, <3>2, <3>4, <3>5 DEF OpNext, OpOK, GenesisPCs
    <3>. QED  BY <1>0, <3>3, <3>4, <3>5, <3>6, BecomeBasic
  <2>. QED  BY <1>6, <2>1, <2>2 DEF DeleteOld
<1>7. CASE GiveUp(c)
  BY <1>0, <1>7, IdleOK, BecomeBasic DEF GiveUp
<1>. QED
  BY <1>1, <1>2, <1>3, <1>4, <1>5, <1>6, <1>7 DEF ClientStep

-----------------------------------------------------------------------------
(* The server handles request m *)

Handled(m) ==
    /\ net' = net \ {m}
    /\ \/ HandlePutManifest(m) \/ HandlePutRoster(m) \/ HandlePutKeyfile(m)
       \/ HandlePutBlob(m) \/ HandleDeleteBlob(m) \/ Fails(m)
    /\ UNCHANGED <<lastId, runs, overlapped>>

\* A row is replaced only by the two swaps.
RowsChange(m) ==
    \/ UNCHANGED rows
    \/ m.verb = "PutManifest" /\ casManifest(m)
    \/ m.verb = "PutRoster" /\ casRoster(m)

\* The keyfile is replaced only by its own request.
KeyfileChange(m) ==
    \/ keyfile' = keyfile
    \/ m.verb = "PutKeyfile" /\ keyfile' = m.item

LEMMA HandledChanges ==
    ASSUME NEW m \in net, Handled(m)
    PROVE  RowsChange(m) /\ KeyfileChange(m)
BY DEF Handled, RowsChange, KeyfileChange, HandlePutManifest, HandlePutRoster,
       HandlePutKeyfile, HandlePutBlob, HandleDeleteBlob, Fails, server

\* What the client that waits for m does next.
Answers(m) ==
    \E o : /\ Reply(m, o)
           /\ \/ o = Idle
              \/ o = AfterConflict(op[m.from])
              \/ /\ o = AfterOK(op[m.from])
                 /\ m.verb = "PutKeyfile" => keyfile' = m.item

LEMMA HandledAnswers ==
    ASSUME NEW m \in net, Handled(m)
    PROVE  Answers(m)
BY DEF Handled, Answers, HandlePutManifest, HandlePutRoster, HandlePutKeyfile,
       HandlePutBlob, HandleDeleteBlob, Fails, OK, Conflict

\* The rows keep their versions, and a genesis and a keyfile stay.
LEMMA HandledRows ==
    ASSUME Basic, NEW m \in net, Handled(m)
    PROVE  RowsOK' /\ Stays
<1>0. /\ m \in Request /\ RequestOK(m, Exists("roster"), keyfile)
      /\ rows \in [Pointers -> Row] /\ RowsOK
      /\ "roster" \in Pointers /\ "manifest" \in Pointers
  BY DEF Basic, TypeOK, AllRequestsOK, Pointers
<1>1. RowsChange(m) /\ KeyfileChange(m)  BY HandledChanges
<1>2. keyfile # 0 => keyfile' # 0
  BY <1>0, <1>1 DEF KeyfileChange, RequestOK
<1>3. CASE UNCHANGED rows
  BY <1>0, <1>2, <1>3 DEF RowsOK, Stays, Exists
<1>4. CASE m.verb = "PutManifest" /\ casManifest(m)
  <2>1. rows' = [rows EXCEPT !["manifest"] = [version |-> m.expect + 1, body |-> m.body]]
    BY <1>4 DEF casManifest, Store
  <2>2. rows'["roster"] = rows["roster"]  BY <1>0, <2>1
  <2>3. rows'["manifest"].version = rows'["manifest"].body.version
    BY <1>0, <1>4, <2>1 DEF RequestOK
  <2>. QED  BY <1>0, <1>2, <2>2, <2>3 DEF RowsOK, Stays, Exists, Pointers
<1>5. CASE m.verb = "PutRoster" /\ casRoster(m)
  <2>1. rows' = [rows EXCEPT !["roster"] = [version |-> m.next, body |-> m.body]]
    BY <1>5 DEF casRoster, Store
  <2>2. rows'["manifest"] = rows["manifest"]  BY <1>0, <2>1
  <2>3. rows'["roster"].version = m.next /\ rows'["roster"].body = m.body  BY <1>0, <2>1
  <2>4. m.next = m.body.version /\ m.body # NoContent /\ keyfile # 0
    <3>1. m.expect \in Nat  BY <1>0 DEF Request
    <3>. QED
      BY <1>0, <1>5, <3>1 DEF RequestOK, NoContent, RowsOK, Exists
  <2>. QED  BY <1>0, <1>2, <2>2, <2>3, <2>4 DEF RowsOK, Stays, Exists, Pointers
<1>. QED  BY <1>1, <1>3, <1>4, <1>5 DEF RowsChange

\* An operation that is answered waits for nothing, and stays of its kind.
LEMMA AfterOpOK ==
    ASSUME Stays, NEW c, NEW o \in Op, NEW s,
           OpOK(c, o, net, Exists("roster"), keyfile),
           \/ s = Idle
           \/ s = AfterConflict(o)
           \/ s = AfterOK(o) /\ (o.pc = "keyfile" => keyfile' # 0)
    PROVE  /\ s.call = NoRequest
           /\ OpNext(c, s)
           /\ s.kind = "genesis" => o.kind = "genesis"
           /\ s.pc \in {"blob", "publish"} =>
                 o.pc \in {"blob", "publish"} /\ s.row = o.row /\ s.made = o.made
<1>1. CASE s = Idle \/ s = [Idle EXCEPT !.told = "published"]
  BY <1>1 DEF Idle, OpNext, OpOK, GenesisPCs
<1>2. ASSUME NEW pc, s = Moves(o, pc)
      PROVE  /\ s.call = NoRequest /\ s.pc = pc /\ s.kind = o.kind
             /\ s.run = o.run /\ s.row = o.row /\ s.made = o.made
  BY <1>2 DEF Moves, Op
<1>3. ASSUME s = [Moves(o, "read") EXCEPT !.tries = @ + 1]
      PROVE  /\ s.call = NoRequest /\ s.pc = "read" /\ s.kind = o.kind
             /\ s.run = o.run /\ s.row = o.row /\ s.made = o.made
  BY <1>3 DEF Moves, Op
<1>4. CASE s = AfterConflict(o)
  BY <1>1, <1>3, <1>4 DEF AfterConflict, OpNext, OpOK, GenesisPCs, Stays
<1>5. CASE s = AfterOK(o) /\ (o.pc = "keyfile" => keyfile' # 0)
  <2>1. CASE o.pc = "keyfile" /\ s = Moves(o, "checkRoster")
    BY <1>2, <1>5, <2>1 DEF OpNext, OpOK, GenesisPCs, Stays
  <2>2. CASE o.pc = "change" /\ s = Moves(o, "wrap")
    BY <1>2, <2>2 DEF OpNext, OpOK, GenesisPCs, Stays
  <2>3. CASE o.pc = "blob" /\ s = Moves(o, "publish")
    BY <1>2, <2>3 DEF OpNext, OpOK, GenesisPCs, Stays
  <2>4. CASE o.pc \in {"publishing", "deleting"} /\ s = Moves(o, "delete")
    BY <1>2, <2>4 DEF OpNext, OpOK, GenesisPCs, Stays
  <2>5. \/ s = Idle \/ s = [Idle EXCEPT !.told = "published"]
        \/ o.pc = "keyfile" /\ s = Moves(o, "checkRoster")
        \/ o.pc = "change" /\ s = Moves(o, "wrap")
        \/ o.pc = "blob" /\ s = Moves(o, "publish")
        \/ o.pc \in {"publishing", "deleting"} /\ s = Moves(o, "delete")
    BY <1>5 DEF AfterOK
  <2>. QED  BY <1>1, <2>1, <2>2, <2>3, <2>4, <2>5
<1>. QED  BY <1>1, <1>4, <1>5

\* The operations once m is handled: the client that waited for it goes on,
\* the others are left alone.
LEMMA HandledOps ==
    ASSUME Basic, NEW m \in net, Handled(m), NEW d \in Clients
    PROVE  /\ OpNext(d, op'[d])
           /\ op'[d].kind = "genesis" => op[d].kind = "genesis"
           /\ op'[d].pc \in {"blob", "publish"} =>
                 /\ op[d].pc \in {"blob", "publish"}
                 /\ op'[d].row = op[d].row /\ op'[d].made = op[d].made
           /\ op'[d] = op[d] \/ op[d].call = m
<1>0. /\ op \in [Clients -> Op] /\ op[d] \in Op
      /\ OpOK(d, op[d], net, Exists("roster"), keyfile)
      /\ m \in Request /\ m.from \in Clients
      /\ RequestOK(m, Exists("roster"), keyfile)
      /\ net' = net \ {m}
  BY DEF Basic, TypeOK, AllRequestsOK, AllOpsOK, Request, Handled
<1>1. m # NoRequest  BY <1>0 DEF RequestOK, NoRequest
<1>2. Stays  BY HandledRows
<1>3. CASE op[d].call # m
  <2>1. op'[d] = op[d]
    <3>1. PICK o : Reply(m, o)  BY HandledAnswers DEF Answers
    <3>. QED  BY <1>0, <1>3, <3>1 DEF Reply
  <2>2. OpNext(d, op[d])
    BY <1>0, <1>2, <1>3 DEF OpNext, OpOK, Stays
  <2>. QED  BY <2>1, <2>2
<1>4. CASE op[d].call = m
  <2>1. m.from = d  BY <1>0, <1>1, <1>4 DEF OpOK
  <2>2. PICK o : /\ Reply(m, o)
                 /\ \/ o = Idle
                    \/ o = AfterConflict(op[d])
                    \/ /\ o = AfterOK(op[d])
                       /\ m.verb = "PutKeyfile" => keyfile' = m.item
    BY <2>1, HandledAnswers DEF Answers
  <2>3. op'[d] = o  BY <1>0, <1>4, <2>1, <2>2 DEF Reply
  <2>4. op[d].pc = "keyfile" => m.verb = "PutKeyfile" /\ m.item # 0
    BY <1>0, <1>4 DEF OpOK, RequestOK
  <2>5. \/ o = Idle
        \/ o = AfterConflict(op[d])
        \/ o = AfterOK(op[d]) /\ (op[d].pc = "keyfile" => keyfile' # 0)
    BY <2>2, <2>4
  <2>6. /\ OpNext(d, o)
        /\ o.kind = "genesis" => op[d].kind = "genesis"
        /\ o.pc \in {"blob", "publish"} =>
              /\ op[d].pc \in {"blob", "publish"}
              /\ o.row = op[d].row /\ o.made = op[d].made
    BY <1>0, <1>2, <2>5, AfterOpOK
  <2>. QED  BY <1>4, <2>3, <2>6
<1>. QED  BY <1>3, <1>4

\* Handling a request leaves the others as they should be.
LEMMA HandledBasic ==
    ASSUME Basic, NEW m \in net, Handled(m)
    PROVE  BasicNext
<1>1. RowsOK' /\ Stays  BY HandledRows
<1>2. AllRequestsOK'
  <2>. SUFFICES ASSUME NEW r \in net'  PROVE RequestNext(r)
    BY DEF AllRequestsOK, RequestNext
  <2>1. RequestOK(r, Exists("roster"), keyfile)
    BY DEF Handled, Basic, AllRequestsOK
  <2>. QED  BY <1>1, <2>1 DEF RequestNext, RequestOK, Stays
<1>3. AllOpsOK'
  BY HandledOps DEF AllOpsOK, OpNext
<1>. QED  BY <1>1, <1>2, <1>3 DEF BasicNext

\* The rows keep the versions of their contents, and a genesis stays.
LEMMA StepBasic == Basic /\ [Next]_vars => Basic' /\ Stays
<1>. SUFFICES ASSUME Basic, [Next]_vars PROVE Basic' /\ Stays  OBVIOUS
<1>1. TypeOK'  BY StepType DEF Basic
<1>2. ASSUME NEW f \in Founders, BeginPublish(f) \/ CheckRoster(f)
      PROVE  BasicNext /\ UNCHANGED server
  BY <1>2, BeginPublishBasic, CheckRosterBasic DEF BeginPublish, CheckRoster
<1>3. ASSUME NEW c \in Clients, ClientStep(c)
      PROVE  BasicNext /\ UNCHANGED server
  BY <1>3, ClientBasic DEF ClientStep, BeginChange, WrapKeyfile, BeginPush,
     ReadManifest, Publish, DeleteOld, GiveUp
<1>4. CASE Handle
  <2>1. PICK m \in net : Handled(m)  BY <1>4 DEF Handle, Handled
  <2>. QED  BY <1>1, <2>1, HandledBasic, HandledRows DEF Basic, BasicNext
<1>5. CASE UNCHANGED vars
  <2>1. BasicNext
    BY <1>5 DEF vars, server, Basic, BasicNext, AllRequestsOK, AllOpsOK, RowsOK, Exists
  <2>. QED  BY <1>1, <1>5, <2>1 DEF Basic, BasicNext, Stays, vars, server, Exists
<1>6. ASSUME BasicNext, UNCHANGED server  PROVE Basic' /\ Stays
  BY <1>1, <1>6 DEF Basic, BasicNext, Stays, server, Exists
<1>. QED  BY <1>2, <1>3, <1>4, <1>5, <1>6 DEF Next

-----------------------------------------------------------------------------
(* Nothing is written over *)

\* What a step of the engine adds: an operation, and perhaps a request, that
\* publish-genesis has no part in.
EngineAdds(c) ==
    \E o : /\ Become(c, o)
           /\ o.kind # "genesis"
           /\ BasedOp(o)
           /\ \/ net' = net
              \/ /\ net' = net \cup {o.call}
                 /\ o.call.run = 0
                 /\ BasedRequest(o.call)

\* Every step of the engine adds only that.
LEMMA ClientAdds ==
    ASSUME Basic, Based, NEW c \in Clients, ClientStep(c)
    PROVE  EngineAdds(c)
<1>0. /\ op[c] \in Op /\ OpOK(c, op[c], net, Exists("roster"), keyfile)
      /\ BasedOp(op[c]) /\ RowsOK
      /\ rows["roster"] \in Row /\ rows["manifest"] \in Row
      /\ rows["roster"].version \in Nat /\ rows["manifest"].version \in Nat
  BY DEF Basic, TypeOK, AllOpsOK, Based, Pointers, Row
<1>1. CASE BeginChange(c)
  <2>. DEFINE r == rows["roster"]
              made == Successor(r, {})
              q == CASRoster(c, r.version, made, r.version + 1, 0)
              o == [Idle EXCEPT !.kind = "change", !.row = r, !.made = made]
              n == [o EXCEPT !.pc = "change", !.call = q]
  <2>1. /\ q.verb = "PutRoster" /\ q.body = made /\ q.expect = r.version /\ q.run = 0
    BY Fields
  <2>2. made.prev = r.body.id  BY DEF Successor
  <2>3. n.pc = "change" /\ n.kind = "change" /\ n.call = q  BY DEF Idle
  <2>4. Become(c, n) /\ net' = net \cup {q}  BY <1>1 DEF BeginChange, Send
  <2>5. BasedRequest(q)  BY <1>0, <2>1, <2>2 DEF BasedRequest, Base
  <2>6. BasedOp(n)  BY <2>3 DEF BasedOp
  <2>. QED  BY <2>1, <2>3, <2>4, <2>5, <2>6 DEF EngineAdds
<1>2. CASE WrapKeyfile(c)
  <2>. DEFINE q == PutKeyfile(c, op[c].made.id, 0)
              n == [op[c] EXCEPT !.pc = "wrapping", !.call = q]
  <2>1. q.verb = "PutKeyfile" /\ q.run = 0  BY Fields
  <2>2. op[c].kind # "genesis"  BY <1>0, <1>2 DEF WrapKeyfile, At, OpOK, GenesisPCs
  <2>3. n.pc = "wrapping" /\ n.kind = op[c].kind /\ n.call = q  BY <1>0 DEF Op
  <2>4. Become(c, n) /\ net' = net \cup {q}  BY <1>2 DEF WrapKeyfile, Send
  <2>5. BasedRequest(q) /\ BasedOp(n)  BY <2>1, <2>3 DEF BasedRequest, BasedOp
  <2>. QED  BY <2>1, <2>2, <2>3, <2>4, <2>5 DEF EngineAdds
<1>3. CASE BeginPush(c)
  <2>1. PICK k \in {"push", "rekey"} :
           Become(c, [Idle EXCEPT !.kind = k, !.pc = "read"]) /\ UNCHANGED net
    BY <1>3 DEF BeginPush
  <2>. DEFINE n == [Idle EXCEPT !.kind = k, !.pc = "read"]
  <2>2. n.kind = k /\ n.pc = "read"  BY DEF Idle
  <2>3. BasedOp(n)  BY <2>2 DEF BasedOp
  <2>. QED  BY <2>1, <2>2, <2>3 DEF EngineAdds
<1>4. CASE ReadManifest(c)
  <2>. DEFINE r == rows["manifest"]
              kept == IF op[c].kind = "rekey" THEN {} ELSE r.body.packs
              made == Successor(r, kept \cup {lastId + 1})
              o == [op[c] EXCEPT !.row = r, !.made = made]
              q == PutBlob(c, lastId + 1)
              n == [o EXCEPT !.pc = "blob", !.call = q]
  <2>1. q.verb = "PutBlob" /\ q.run = 0  BY Fields
  <2>2. op[c].kind # "genesis"  BY <1>0, <1>4 DEF ReadManifest, At, OpOK, GenesisPCs
  <2>3. n.kind = op[c].kind /\ n.call = q /\ n.row = r /\ n.made = made
    BY <1>0 DEF Op
  <2>4. Become(c, n) /\ net' = net \cup {q}  BY <1>4 DEF ReadManifest, Send
  <2>5. made.prev = r.body.id  BY DEF Successor
  <2>6. BasedOp(n)  BY <1>0, <2>3, <2>5 DEF BasedOp, Base
  <2>7. BasedRequest(q)  BY <2>1 DEF BasedRequest
  <2>. QED  BY <2>1, <2>2, <2>3, <2>4, <2>6, <2>7 DEF EngineAdds
<1>5. CASE Publish(c)
  <2>. DEFINE q == CASManifest(c, op[c].made, op[c].row.version)
              n == [op[c] EXCEPT !.pc = "publishing", !.call = q]
  <2>1. /\ q.verb = "PutManifest" /\ q.body = op[c].made
        /\ q.expect = op[c].row.version /\ q.run = 0
    BY Fields
  <2>2. op[c].pc = "publish" /\ op[c].kind # "genesis"
    BY <1>0, <1>5 DEF Publish, At, OpOK, GenesisPCs
  <2>3. n.pc = "publishing" /\ n.kind = op[c].kind /\ n.call = q  BY <1>0 DEF Op
  <2>4. Become(c, n) /\ net' = net \cup {q}  BY <1>5 DEF Publish, Send
  <2>5. BasedRequest(q)  BY <1>0, <2>1, <2>2 DEF BasedRequest, BasedOp
  <2>6. BasedOp(n)  BY <2>3 DEF BasedOp
  <2>. QED  BY <2>1, <2>2, <2>3, <2>4, <2>5, <2>6 DEF EngineAdds
<1>6. CASE DeleteOld(c)
  <2>1. CASE Become(c, Idle) /\ UNCHANGED net
    BY <2>1 DEF EngineAdds, BasedOp, Idle
  <2>2. ASSUME NEW p \in op[c].row.body.packs,
               Send(c, [op[c] EXCEPT !.row.body.packs = @ \ {p}],
                    "deleting", DeleteBlob(c, p))
        PROVE  EngineAdds(c)
    <3>. DEFINE q == DeleteBlob(c, p)
                o == [op[c] EXCEPT !.row.body.packs = @ \ {p}]
                n == [o EXCEPT !.pc = "deleting", !.call = q]
    <3>1. q.verb = "DeleteBlob" /\ q.run = 0  BY Fields
    <3>2. op[c].kind # "genesis"  BY <1>0, <1>6 DEF DeleteOld, At, OpOK, GenesisPCs
    <3>3. n.pc = "deleting" /\ n.kind = op[c].kind /\ n.call = q  BY <1>0 DEF Op
    <3>4. Become(c, n) /\ net' = net \cup {q}  BY <2>2 DEF Send
    <3>5. BasedRequest(q) /\ BasedOp(n)  BY <3>1, <3>3 DEF BasedRequest, BasedOp
    <3>. QED  BY <3>1, <3>2, <3>3, <3>4, <3>5 DEF EngineAdds
  <2>. QED  BY <1>6, <2>1, <2>2 DEF DeleteOld
<1>7. CASE GiveUp(c)
  BY <1>7 DEF GiveUp, EngineAdds, BasedOp, Idle
<1>. QED
  BY <1>1, <1>2, <1>3, <1>4, <1>5, <1>6, <1>7 DEF ClientStep

\* The engine writes nothing of publish-genesis, and starts from what it read.
LEMMA EngineKeeps ==
    ASSUME Basic, Based, OneRun, NEW c \in Clients, EngineAdds(c), UNCHANGED server
    PROVE  Based' /\ OneRun'
<1>1. PICK o : /\ Become(c, o)
               /\ o.kind # "genesis"
               /\ BasedOp(o)
               /\ \/ net' = net
                  \/ /\ net' = net \cup {o.call}
                     /\ o.call.run = 0
                     /\ BasedRequest(o.call)
  BY DEF EngineAdds
<1>2. /\ op'[c] = o
      /\ \A d \in Clients : d # c => op'[d] = op[d]
  BY <1>1 DEF Become, Basic, TypeOK
<1>3. ASSUME NEW k, NEW x, NEW p  PROVE Base(k, x, p)' <=> Base(k, x, p)
  BY DEF Base, server
<1>4. Based'
  <2>1. \A m \in net' : BasedRequest(m)  BY <1>1 DEF Based
  <2>2. \A d \in Clients : BasedOp(op'[d])  BY <1>1, <1>2 DEF Based
  <2>. QED  BY <2>1, <2>2 DEF Based, BasedRequest, BasedOp, Base, server
<1>5. \A m \in net' : m.run # 0 => m \in net  BY <1>1
<1>6. \A f \in Clients : op'[f].kind = "genesis" => f # c /\ op'[f] = op[f]
  BY <1>1, <1>2
<1>7. OneRun'
  BY <1>5, <1>6 DEF OneRun, Publishing, server, Exists
<1>. QED  BY <1>4, <1>7

\* publish-genesis begins alone, and sends its keyfile while there is none,
LEMMA BeginPublishKeeps ==
    ASSUME Basic, Based, OneRun, NEW f \in Founders, BeginPublish(f), ~overlapped'
    PROVE  Based' /\ OneRun'
<1>. DEFINE o == [Idle EXCEPT !.kind = "genesis", !.run = runs + 1]
            q == PutKeyfile(f, f, runs + 1)
<1>0. f \in Clients /\ UNCHANGED server /\ op \in [Clients -> Op]
  BY HttpStoreAssumption DEF Basic, TypeOK, BeginPublish
<1>1. /\ \A g \in Clients : ~Publishing(g)
      /\ \A m \in net : m.run = 0
  <2>1. \A g \in Clients : Publishing(g) => g \in Founders
    BY DEF Basic, AllOpsOK, OpOK, Publishing
  <2>. QED  BY <2>1 DEF BeginPublish
<1>2. /\ q.verb = "PutKeyfile" /\ q.run = runs + 1  BY Fields
<1>3. \E n : /\ Become(f, n)
             /\ n.pc \notin {"blob", "publish"}
             /\ \/ net' = net
                \/ net' = net \cup {q} /\ keyfile = 0 /\ n.call = q
  <2>1. CASE keyfile = 0 /\ Send(f, o, "keyfile", q)
    <3>. DEFINE n == [o EXCEPT !.pc = "keyfile", !.call = q]
    <3>1. n.pc = "keyfile" /\ n.call = q  BY DEF Idle
    <3>. QED  BY <2>1, <3>1 DEF Send
  <2>2. CASE Become(f, Moves(o, "checkRoster")) /\ UNCHANGED net
    BY <2>2 DEF Moves, Idle
  <2>3. CASE Become(f, [Idle EXCEPT !.told = "refused"]) /\ UNCHANGED net
    BY <2>3 DEF Idle
  <2>. QED  BY <2>1, <2>2, <2>3 DEF BeginPublish
<1>4. PICK n : /\ Become(f, n)
               /\ n.pc \notin {"blob", "publish"}
               /\ \/ net' = net
                  \/ net' = net \cup {q} /\ keyfile = 0 /\ n.call = q
  BY <1>3
<1>5. op'[f] = n /\ \A d \in Clients : d # f => op'[d] = op[d]
  BY <1>0, <1>4 DEF Become
<1>6. Based'
  <2>1. \A m \in net' : BasedRequest(m)
    BY <1>2, <1>4 DEF Based, BasedRequest
  <2>2. \A d \in Clients : BasedOp(op'[d])
    BY <1>4, <1>5 DEF Based, BasedOp
  <2>. QED  BY <1>0, <2>1, <2>2 DEF Based, BasedRequest, BasedOp, Base, server
<1>7. OneRun'
  <2>1. \A m \in net' : m.run # 0 =>
           m = q /\ m = op'[f].call /\ m.verb = "PutKeyfile" /\ keyfile' = 0
    BY <1>0, <1>1, <1>2, <1>4, <1>5 DEF server
  <2>2. \A g \in Clients : op'[g].kind = "genesis" => g = f
    BY <1>1, <1>5 DEF Publishing
  <2>. QED  BY <2>1, <2>2 DEF OneRun, Publishing
<1>. QED  BY <1>6, <1>7

\* and its roster while there is none.
LEMMA CheckRosterKeeps ==
    ASSUME Basic, Based, OneRun, NEW f \in Founders, CheckRoster(f)
    PROVE  Based' /\ OneRun'
<1>. DEFINE q == CASRoster(f, 0, Genesis(f), 0, op[f].run)
<1>0. /\ f \in Clients /\ UNCHANGED server /\ op \in [Clients -> Op]
      /\ op[f] \in Op /\ OpOK(f, op[f], net, Exists("roster"), keyfile)
      /\ op[f].pc = "checkRoster"
  BY HttpStoreAssumption DEF Basic, TypeOK, AllOpsOK, CheckRoster, At
<1>1. /\ \A g \in Clients : Publishing(g) => g = f
      /\ \A m \in net : m.run = 0
  <2>1. Publishing(f)  BY <1>0 DEF OpOK, Publishing, GenesisPCs
  <2>2. op[f].call = NoRequest  BY <1>0 DEF Basic, TypeOK
  <2>3. \A m \in net : m # NoRequest
    BY DEF Basic, AllRequestsOK, RequestOK, NoRequest
  <2>. QED  BY <1>0, <2>1, <2>2, <2>3 DEF OneRun
<1>2. q.verb = "PutRoster" /\ q.run = op[f].run /\ op[f].run # 0
  BY <1>0, Fields DEF OpOK, GenesisPCs
<1>3. \E n : /\ Become(f, n)
             /\ n.pc \notin {"blob", "publish"}
             /\ \/ net' = net
                \/ net' = net \cup {q} /\ ~Exists("roster") /\ n.call = q
  <2>1. CASE ~Exists("roster") /\ Send(f, op[f], "genesis", q)
    <3>. DEFINE n == [op[f] EXCEPT !.pc = "genesis", !.call = q]
    <3>1. n.pc = "genesis" /\ n.call = q  BY <1>0 DEF Op
    <3>. QED  BY <2>1, <3>1 DEF Send
  <2>2. ASSUME NEW t, Become(f, [Idle EXCEPT !.told = t]), UNCHANGED net
        PROVE  \E n : Become(f, n) /\ n.pc \notin {"blob", "publish"} /\ net' = net
    BY <2>2 DEF Idle
  <2>. QED  BY <2>1, <2>2 DEF CheckRoster
<1>4. PICK n : /\ Become(f, n)
               /\ n.pc \notin {"blob", "publish"}
               /\ \/ net' = net
                  \/ net' = net \cup {q} /\ ~Exists("roster") /\ n.call = q
  BY <1>3
<1>5. op'[f] = n /\ \A d \in Clients : d # f => op'[d] = op[d]
  BY <1>0, <1>4 DEF Become
<1>6. Based'
  <2>1. \A m \in net' : BasedRequest(m)
    BY <1>2, <1>4 DEF Based, BasedRequest
  <2>2. \A d \in Clients : BasedOp(op'[d])
    BY <1>4, <1>5 DEF Based, BasedOp
  <2>. QED  BY <1>0, <2>1, <2>2 DEF Based, BasedRequest, BasedOp, Base, server
<1>7. OneRun'
  <2>1. \A m \in net' : m.run # 0 =>
           m = q /\ m = op'[f].call /\ m.verb = "PutRoster" /\ ~Exists("roster")'
    BY <1>0, <1>1, <1>2, <1>4, <1>5 DEF server, Exists
  <2>2. \A g \in Clients : op'[g].kind = "genesis" => g = f
    BY <1>1, <1>5 DEF Publishing
  <2>. QED  BY <2>1, <2>2 DEF OneRun, Publishing
<1>. QED  BY <1>6, <1>7

\* A swap moves its row on, so what was made from the old row is late; the
\* request of publish-genesis writes what is absent.
LEMMA HandledKeeps ==
    ASSUME Basic, Based, OneRun, NEW m \in net, Handled(m)
    PROVE  Based' /\ OneRun'
<1>0. /\ m \in Request /\ RequestOK(m, Exists("roster"), keyfile)
      /\ rows \in [Pointers -> Row] /\ RowsOK
      /\ net' = net \ {m} /\ net \subseteq Request
      /\ "roster" \in Pointers /\ "manifest" \in Pointers
      /\ m.expect \in Nat /\ m.next \in Nat
  BY DEF Basic, TypeOK, AllRequestsOK, Pointers, Handled, Request
<1>1. RowsChange(m) /\ KeyfileChange(m)  BY HandledChanges
<1>2. m.verb = "PutManifest" /\ casManifest(m) =>
         rows' = [rows EXCEPT !["manifest"] = [version |-> m.expect + 1, body |-> m.body]]
  BY DEF casManifest, Store
<1>3. m.verb = "PutRoster" /\ casRoster(m) =>
         rows' = [rows EXCEPT !["roster"] = [version |-> m.next, body |-> m.body]]
  BY DEF casRoster, Store
<1>4. ASSUME NEW x \in Nat, NEW p, Base("manifest", x, p)
      PROVE  Base("manifest", x, p)'
  <2>1. \/ rows'["manifest"] = rows["manifest"]
        \/ /\ rows["manifest"].version = m.expect
           /\ rows'["manifest"].version = m.expect + 1
    BY <1>0, <1>1, <1>2, <1>3 DEF RowsChange, casManifest
  <2>2. rows["manifest"].version \in Nat  BY <1>0 DEF Row
  <2>. QED  BY <1>0, <1>4, <2>1, <2>2 DEF Base
<1>5. ASSUME NEW x \in Nat, NEW p, Base("roster", x, p), Exists("roster")
      PROVE  Base("roster", x, p)'
  <2>1. m.verb = "PutRoster" => m.next = m.expect + 1
    BY <1>0, <1>5 DEF OneRun, RequestOK
  <2>2. \/ rows'["roster"] = rows["roster"]
        \/ /\ rows["roster"].version = m.expect
           /\ rows'["roster"].version = m.expect + 1
    BY <1>0, <1>1, <1>2, <1>3, <2>1 DEF RowsChange, casRoster
  <2>3. rows["roster"].version \in Nat  BY <1>0 DEF Row
  <2>. QED  BY <1>0, <1>5, <2>2, <2>3 DEF Base
<1>6. ASSUME NEW r \in net'  PROVE BasedRequest(r)'
  <2>1. r.expect \in Nat /\ BasedRequest(r) /\ (r.run = 0 => Exists("roster"))
    BY <1>0 DEF Based, Request, Basic, AllRequestsOK, RequestOK
  <2>. QED  BY <1>4, <1>5, <2>1 DEF BasedRequest
<1>7. ASSUME NEW d \in Clients  PROVE BasedOp(op'[d]) /\ BasedOp(op[d])'
  <2>1. op'[d].pc \in {"blob", "publish"} =>
           /\ op[d].pc \in {"blob", "publish"}
           /\ op'[d].row = op[d].row /\ op'[d].made = op[d].made
    BY HandledOps
  <2>2. BasedOp(op[d]) /\ op[d].row.version \in Nat
    BY DEF Based, Basic, TypeOK, Op, Row
  <2>. QED  BY <1>4, <2>1, <2>2 DEF BasedOp
<1>8. Based'  BY <1>6, <1>7 DEF Based
<1>9. OneRun'
  <2>1. \A r, n \in net' : r.run # 0 /\ n.run # 0 => r = n
    BY <1>0 DEF OneRun
  <2>2. ASSUME NEW f \in Clients, Publishing(f)'
        PROVE  /\ \A g \in Clients : Publishing(g)' => f = g
               /\ \A r \in net' : r.run # 0 => r = op'[f].call
    <3>1. \A g \in Clients : Publishing(g)' => Publishing(g)
      BY HandledOps DEF Publishing
    <3>2. op'[f] = op[f] \/ op[f].call = m  BY HandledOps
    <3>. QED  BY <1>0, <2>2, <3>1, <3>2 DEF OneRun
  <2>3. ASSUME NEW r \in net', r.run # 0
        PROVE  /\ r.verb = "PutRoster" => ~Exists("roster")'
               /\ r.verb = "PutKeyfile" => keyfile' = 0
    <3>1. /\ r # m /\ m.run = 0 /\ Exists("roster") /\ keyfile # 0
      BY <1>0, <2>3 DEF OneRun, RequestOK, RowsOK
    <3>2. r.verb # "PutRoster" /\ r.verb # "PutKeyfile"
      BY <1>0, <2>3, <3>1 DEF OneRun
    <3>. QED  BY <3>2
  <2>. QED  BY <2>1, <2>2, <2>3 DEF OneRun
<1>. QED  BY <1>8, <1>9

\* No requests, no operations, no rows.
LEMMA InitIInv == Init => IInv
<1>. SUFFICES ASSUME Init PROVE IInv  OBVIOUS
<1>1. TypeOK  BY InitType
<1>2. RowsOK
  <2>1. \A k \in Pointers : rows[k] = NoRow  BY DEF Init
  <2>. QED  BY <2>1 DEF RowsOK, NoRow, NoContent, Exists, Pointers
<1>3. AllOpsOK  BY DEF Init, AllOpsOK, OpOK, Idle, GenesisPCs
<1>4. AllRequestsOK  BY DEF Init, AllRequestsOK
<1>5. Based  BY DEF Init, Based, BasedOp, Idle
<1>6. OneRun  BY DEF Init, OneRun, Publishing, Idle
<1>. QED  BY <1>1, <1>2, <1>3, <1>4, <1>5, <1>6 DEF IInv, Basic

\* Every step keeps the invariant; an overlap, once there, stays.
LEMMA NextIInv == IInv /\ [Next]_vars => IInv'
<1>. SUFFICES ASSUME IInv, [Next]_vars PROVE IInv'  OBVIOUS
<1>1. Basic /\ Basic'  BY StepBasic DEF IInv
<1>. SUFFICES ASSUME ~overlapped' PROVE Based' /\ OneRun'  BY <1>1 DEF IInv
<1>2. ASSUME NEW f \in Founders, BeginPublish(f)  PROVE Based' /\ OneRun'
  <2>1. ~overlapped  BY <1>2 DEF BeginPublish
  <2>. QED  BY <1>1, <1>2, <2>1, BeginPublishKeeps DEF IInv
<1>3. ASSUME NEW f \in Founders, CheckRoster(f)  PROVE Based' /\ OneRun'
  <2>1. ~overlapped  BY <1>3 DEF CheckRoster, history
  <2>. QED  BY <1>1, <1>3, <2>1, CheckRosterKeeps DEF IInv
<1>4. ASSUME NEW c \in Clients, ClientStep(c)  PROVE Based' /\ OneRun'
  <2>1. ~overlapped /\ UNCHANGED server
    BY <1>4 DEF ClientStep, BeginChange, WrapKeyfile, BeginPush, ReadManifest,
                Publish, DeleteOld, GiveUp, history
  <2>2. EngineAdds(c)  BY <1>1, <1>4, <2>1, ClientAdds DEF IInv
  <2>. QED  BY <1>1, <2>1, <2>2, EngineKeeps DEF IInv
<1>5. CASE Handle
  <2>1. PICK m \in net : Handled(m)  BY <1>5 DEF Handle, Handled
  <2>2. ~overlapped  BY <2>1 DEF Handled
  <2>. QED  BY <1>1, <2>1, <2>2, HandledKeeps DEF IInv
<1>6. CASE UNCHANGED vars
  <2>1. Based /\ OneRun  BY <1>6 DEF IInv, vars, history
  <2>. QED
    BY <1>6, <2>1 DEF vars, server, Based, BasedRequest, BasedOp, Base,
                      OneRun, Publishing, Exists
<1>. QED  BY <1>2, <1>3, <1>4, <1>5, <1>6 DEF Next

\* The invariant that the module's comment explains (the whole module).
THEOREM HttpStoreInvariant == Spec => []IInv
<1>. QED  BY InitIInv, NextIInv, PTL DEF Spec

-----------------------------------------------------------------------------
(* Consequences *)

\* Only the handling of a request changes a row or takes a request away.
LEMMA ServerStep ==
    ASSUME [Next]_vars
    PROVE  \/ UNCHANGED server /\ net \subseteq net'
           \/ \E m \in net : Handled(m)
<1>1. ASSUME NEW f \in Founders, BeginPublish(f) \/ CheckRoster(f)
      PROVE  UNCHANGED server /\ net \subseteq net'
  BY <1>1 DEF BeginPublish, CheckRoster, Send
<1>2. ASSUME NEW c \in Clients, ClientStep(c)
      PROVE  UNCHANGED server /\ net \subseteq net'
  BY <1>2 DEF ClientStep, BeginChange, WrapKeyfile, BeginPush, ReadManifest,
              Publish, DeleteOld, GiveUp, Send
<1>3. Handle => \E m \in net : Handled(m)  BY DEF Handle, Handled
<1>4. UNCHANGED vars => UNCHANGED server /\ net \subseteq net'  BY DEF vars, server
<1>. QED  BY <1>1, <1>2, <1>3, <1>4 DEF Next

\* From the genesis on a row changes by a swap of what it holds.
LEMMA StepFollows ==
    ASSUME IInv, [Next]_vars, ~overlapped', Exists("roster")
    PROVE  Promised!Next \/ UNCHANGED rows
<1>1. CASE UNCHANGED server  BY <1>1 DEF server
<1>2. ASSUME NEW m \in net, Handled(m)  PROVE Promised!Next \/ UNCHANGED rows
  <2>0. /\ m \in Request /\ RequestOK(m, Exists("roster"), keyfile)
        /\ rows \in [Pointers -> Row] /\ RowsOK /\ BasedRequest(m) /\ OneRun
        /\ "roster" \in Pointers /\ "manifest" \in Pointers
        /\ m.body \in Content
    BY <1>2 DEF IInv, Basic, TypeOK, AllRequestsOK, Pointers, Handled, Request, Based
  <2>1. RowsChange(m)  BY <1>2, HandledChanges
  <2>2. ASSUME NEW k \in Pointers, NEW v,
               rows' = [rows EXCEPT ![k] = [version |-> v, body |-> m.body]],
               m.body.version = rows[k].body.version + 1,
               m.body.prev = rows[k].body.id
        PROVE  Promised!Next
    <3>. DEFINE head  == [p \in Pointers |-> rows[p].body]
                headN == [p \in Pointers |-> rows'[p].body]
    <3>1. headN[k] = m.body  BY <2>0, <2>2
    <3>2. headN = [head EXCEPT ![k] = headN[k]]  BY <2>0, <2>2, <3>1
    <3>3. head[k] = rows[k].body  OBVIOUS
    <3>4. Promised!Swap(k)  BY <2>0, <2>2, <3>1, <3>2, <3>3 DEF Promised!Swap
    <3>. QED  BY <3>4 DEF Promised!Next
  <2>3. CASE m.verb = "PutManifest" /\ casManifest(m)
    <3>1. rows' = [rows EXCEPT !["manifest"] = [version |-> m.expect + 1, body |-> m.body]]
      BY <2>3 DEF casManifest, Store
    <3>2. /\ m.body.version = rows["manifest"].body.version + 1
          /\ m.body.prev = rows["manifest"].body.id
      BY <2>0, <2>3 DEF casManifest, RequestOK, RowsOK, BasedRequest, Base
    <3>. QED  BY <2>0, <2>2, <3>1, <3>2
  <2>4. CASE m.verb = "PutRoster" /\ casRoster(m)
    <3>1. rows' = [rows EXCEPT !["roster"] = [version |-> m.next, body |-> m.body]]
      BY <2>4 DEF casRoster, Store
    <3>2. m.run = 0  BY <2>0, <2>4 DEF OneRun
    <3>3. /\ m.body.version = rows["roster"].body.version + 1
          /\ m.body.prev = rows["roster"].body.id
      BY <2>0, <2>4, <3>2 DEF casRoster, RequestOK, RowsOK, BasedRequest, Base
    <3>. QED  BY <2>0, <2>2, <3>1, <3>3
  <2>. QED  BY <2>1, <2>3, <2>4 DEF RowsChange
<1>. QED  BY <1>1, <1>2, ServerStep

\* From the genesis on, every change of a row is a swap of the pointers that the
\* store interface promises, as long as no two runs of publish-genesis overlap
\* (casManifest, casRoster).
THEOREM RowsFollow == Spec => RowsFollowPointers
<1>1. IInv /\ [Next]_vars =>
        [(~overlapped' /\ Exists("roster")) => (Promised!Next \/ UNCHANGED rows)]_vars
  BY StepFollows
<1>. QED  BY <1>1, HttpStoreInvariant, PTL DEF Spec, RowsFollowPointers

\* A request of publish-genesis writes what is absent.
LEMMA StepClobbers ==
    ASSUME IInv, [Next]_vars, NEW m \in net \ net', ~overlapped, m.run # 0
    PROVE  /\ keyfile \in {0, keyfile'}
           /\ Exists("roster") => rows' = rows
<1>1. Handled(m)  BY ServerStep DEF Handled
<1>2. RequestOK(m, Exists("roster"), keyfile) /\ OneRun
  BY DEF IInv, Basic, AllRequestsOK
<1>3. RowsChange(m) /\ KeyfileChange(m)  BY <1>1, HandledChanges
<1>. QED  BY <1>2, <1>3 DEF RequestOK, OneRun, RowsChange, KeyfileChange

\* A run of publish-genesis that had the repo to itself when it began replaces
\* no keyfile and no roster (publishGenesis).
THEOREM GenesisKept == Spec => NoClobber
<1>1. IInv /\ [Next]_vars =>
        [\A m \in net \ net' : (~overlapped /\ m.run # 0) =>
            /\ keyfile \in {0, keyfile'}
            /\ Exists("roster") => rows' = rows]_vars
  BY StepClobbers
<1>. QED  BY <1>1, HttpStoreInvariant, PTL DEF Spec, NoClobber

-----------------------------------------------------------------------------
(* Contents and packs.  Every content is made once, goes out in at most    *)
(* one request, and is committed when that is handled: its maker knows     *)
(* from the answer (AllOpsMade).  A pack to be deleted was committed, and  *)
(* is listed no more; what is still to be published lists only packs of    *)
(* the row it replaces and its own, so a dead pack stays dead.             *)

New(id) == id > NClients /\ id <= lastId
Listed == rows["manifest"].body.packs
Dead(p) == p \in committed /\ p \notin Listed

\* The requests that bring a content of the engine.
Carries(m) == m.verb = "PutManifest" \/ (m.verb = "PutRoster" /\ m.run = 0)

\* The content with this number is on no way to the server, and never was there.
Unsent(id) ==
    /\ id \notin committed
    /\ \A m \in net : Carries(m) => m.body.id # id

RequestMade(m) ==
    /\ Carries(m) => New(m.body.id) /\ m.body.id \notin committed
    /\ (m.verb = "PutRoster" /\ m.run # 0) => m.body = Genesis(m.from)
    /\ (m.verb = "PutKeyfile" /\ m.run = 0) => m.item \in committed \ Clients
    /\ (m.verb = "PutKeyfile" /\ m.run # 0) => m.item = m.from /\ m.from \in Founders
    /\ m.verb = "PutManifest" =>
         /\ m.body.id \in blobs
         /\ m.expect <= rows["manifest"].version
         /\ m.expect = rows["manifest"].version =>
              m.body.packs \subseteq Listed \cup {m.body.id}
    /\ m.verb = "DeleteBlob" => Dead(m.item)

\* What holds of an operation, whatever the server and the others did since,
OpShape(o) ==
    /\ o.pc # "idle" => o.told = "none"
    /\ o.kind = "push" => o.pc \in {"read", "blob", "publish", "publishing"}
    /\ o.pc \in {"blob", "publish"} => o.made.id # 0
    /\ o.pc = "blob" => o.call.verb = "PutBlob" /\ o.call.item = o.made.id
    /\ o.pc = "change" => /\ o.call.verb = "PutRoster" /\ o.call.run = 0
                          /\ o.call.body = o.made
    /\ o.pc = "publishing" => /\ o.call.verb = "PutManifest" /\ o.call.body = o.made
                              /\ o.call.expect = o.row.version
    /\ o.pc = "genesis" => o.call.verb = "PutRoster" /\ o.call.run # 0
    /\ o.pc \in {"blob", "publish", "publishing"} =>
         o.made.packs = (IF o.kind = "rekey" THEN {} ELSE o.row.body.packs)
                        \cup {o.made.id}

\* and how it stands to what they did.
OpMade(o) ==
    /\ OpShape(o)
    /\ o.made.id # 0 => New(o.made.id)
    /\ o.pc \in {"read", "blob", "publish"} => Unsent(o.made.id)
    /\ o.pc = "publish" => o.made.id \in blobs
    /\ o.pc \in {"wrap", "wrapping", "delete", "deleting"} => o.made.id \in committed
    /\ o.pc \in {"blob", "publish", "publishing"} =>
         /\ o.row.version <= rows["manifest"].version
         /\ o.row.version = rows["manifest"].version => o.row = rows["manifest"]
    /\ o.pc \in {"delete", "deleting"} => \A p \in o.row.body.packs : Dead(p)

ServerMade ==
    /\ committed \subseteq 1 .. lastId
    /\ NClients <= lastId
    /\ Listed \subseteq committed
    /\ Listed \subseteq blobs
    /\ Exists("roster") =>
         /\ rows["roster"].body.id \in committed
         /\ rows["roster"].body.id \in Clients =>
              rows["roster"].body = Genesis(rows["roster"].body.id)
    /\ keyfile \in {0} \cup Founders \cup (committed \ Clients)

\* No two clients have made the same content, and no two requests bring it.
OneMaker ==
    \A c, d \in Clients : c # d /\ op[c].made.id # 0 => op[c].made.id # op[d].made.id
OneRequest ==
    \A m, n \in net : Carries(m) /\ Carries(n) /\ m.body.id = n.body.id => m = n

AllRequestsMade == \A m \in net : RequestMade(m)
AllOpsMade == \A c \in Clients : OpMade(op[c])

MadeInv == AllRequestsMade /\ AllOpsMade /\ ServerMade /\ OneMaker /\ OneRequest

\* The same of the next state.
OpMadeNext(o) == OpMade(o)'
RequestMadeNext(m) == RequestMade(m)'

\* A step of client c that becomes o, and perhaps sends o.call.
LEMMA BecomeMade ==
    ASSUME Basic, MadeInv, NEW c \in Clients, NEW o, Become(c, o),
           UNCHANGED <<server, committed>>,
           lastId' \in Nat, lastId <= lastId',
           \/ net' = net
           \/ /\ net' = net \cup {o.call}
              /\ RequestMadeNext(o.call)
              /\ Carries(o.call) =>
                   o.call.body.id = o.made.id /\ o.made.id # 0 /\ Unsent(o.made.id),
           OpMadeNext(o),
           o.made.id \in {0, op[c].made.id, lastId + 1}
    PROVE  MadeInv'
<1>0. /\ lastId \in Nat /\ NClients \in Nat /\ net \subseteq net'
      /\ rows' = rows /\ keyfile' = keyfile /\ blobs' = blobs /\ committed' = committed
      /\ op'[c] = o /\ \A d \in Clients : d # c => op'[d] = op[d]
  BY HttpStoreAssumption DEF Basic, TypeOK, Become, server
<1>1. ASSUME NEW id \in Nat, New(id)  PROVE New(id)'
  BY <1>0, <1>1 DEF New
<1>2. \A d \in Clients : op[d].made.id \in Nat /\ (op[d].made.id # 0 => New(op[d].made.id))
  BY DEF MadeInv, AllOpsMade, OpMade, Basic, TypeOK, Op, Content
<1>3. OneMaker'
  <2>1. ASSUME NEW d \in Clients, d # c, o.made.id # 0
        PROVE  o.made.id # op[d].made.id
    BY <1>0, <1>2, <2>1 DEF MadeInv, OneMaker, New
  <2>. QED  BY <1>0, <2>1 DEF MadeInv, OneMaker
<1>4. AllRequestsMade'
  <2>1. ASSUME NEW m \in net  PROVE RequestMade(m)'
    <3>1. RequestMade(m) /\ m.body.id \in Nat
      BY DEF MadeInv, AllRequestsMade, Basic, TypeOK, Request, Content
    <3>. QED  BY <1>0, <1>1, <3>1 DEF RequestMade, Dead, Listed
  <2>2. RequestMadeNext(o.call) => RequestMade(o.call)'  BY DEF RequestMadeNext
  <2>. QED  BY <2>1, <2>2 DEF AllRequestsMade
<1>5. ASSUME NEW d \in Clients  PROVE OpMade(op[d])' 
  <2>1. CASE d = c
    <3>1. OpMade(o)'  BY DEF OpMadeNext
    <3>. QED  BY <1>0, <2>1, <3>1
  <2>2. CASE d # c
    <3>1. OpMade(op[d]) /\ op'[d] = op[d]  BY <1>0, <2>2 DEF MadeInv, AllOpsMade
    <3>2. ASSUME Unsent(op[d].made.id), NEW m \in net', Carries(m)
          PROVE  m.body.id # op[d].made.id
      <4>1. CASE m \in net  BY <3>2, <4>1 DEF Unsent
      <4>2. CASE m = o.call /\ m \notin net
        <5>1. m.body.id = o.made.id /\ o.made.id # 0  BY <3>2, <4>2
        <5>. QED  BY <1>0, <1>3, <2>2, <5>1 DEF OneMaker
      <4>. QED  BY <4>1, <4>2
    <3>3. Unsent(op[d].made.id) => Unsent(op[d].made.id)'
      BY <1>0, <3>1, <3>2 DEF Unsent
    <3>4. op[d].made.id # 0 => New(op[d].made.id)'
      BY <1>1, <1>2, <3>1
    <3>. QED  BY <1>0, <3>1, <3>3, <3>4 DEF OpMade, Dead, Listed
  <2>. QED  BY <2>1, <2>2
<1>6. ServerMade'
  <2>1. committed' \subseteq 1 .. lastId'  BY <1>0 DEF MadeInv, ServerMade
  <2>2. NClients <= lastId'  BY <1>0 DEF MadeInv, ServerMade
  <2>. QED  BY <1>0, <2>1, <2>2 DEF MadeInv, ServerMade, Listed, Exists
<1>7. OneRequest'
  BY <1>0 DEF MadeInv, OneRequest, Unsent, Carries
<1>. QED  BY <1>3, <1>4, <1>5, <1>6, <1>7 DEF MadeInv, AllOpsMade

\* An operation that is over has made nothing.
LEMMA IdleMade ==
    ASSUME NEW o, o.made.id = 0, o.pc = "idle", o.kind = "none"
    PROVE  OpMadeNext(o)
BY DEF OpMadeNext, OpMade, OpShape

\* Nothing that is still to be made is on its way.
LEMMA NextUnsent ==
    ASSUME Basic, MadeInv
    PROVE  Unsent(0) /\ Unsent(lastId + 1) /\ lastId + 1 > NClients
<1>1. lastId \in Nat /\ NClients \in Nat
  BY HttpStoreAssumption DEF Basic, TypeOK
<1>2. ASSUME NEW m \in net, Carries(m)
      PROVE  m.body.id # 0 /\ m.body.id # lastId + 1
  <2>1. m.body.id \in Nat /\ New(m.body.id)
    BY <1>2 DEF MadeInv, AllRequestsMade, RequestMade, Basic, TypeOK, Request, Content
  <2>. QED  BY <1>1, <2>1 DEF New
<1>3. 0 \notin committed /\ lastId + 1 \notin committed /\ lastId + 1 > NClients
  BY <1>1 DEF MadeInv, ServerMade
<1>. QED  BY <1>2, <1>3 DEF Unsent

\* publish-genesis makes nothing new, and sends what is its client's own,
LEMMA PublishMade ==
    ASSUME Basic, MadeInv, NEW f \in Founders, BeginPublish(f) \/ CheckRoster(f)
    PROVE  MadeInv'
<1>0. /\ f \in Clients /\ f # 0 /\ runs + 1 # 0 /\ lastId' = lastId /\ lastId \in Nat
      /\ UNCHANGED <<server, committed>>
      /\ op[f] \in Op /\ OpOK(f, op[f], net, Exists("roster"), keyfile)
      /\ OpMade(op[f])
  BY HttpStoreAssumption
     DEF Basic, TypeOK, AllOpsOK, Clients, BeginPublish, CheckRoster, history,
         MadeInv, AllOpsMade
<1>1. ASSUME NEW t, Become(f, [Idle EXCEPT !.told = t]), UNCHANGED net
      PROVE  MadeInv'
  <2>. PICK o : o = [Idle EXCEPT !.told = t]  OBVIOUS
  <2>1. o.made.id = 0 /\ o.pc = "idle" /\ o.kind = "none"
    BY DEF Idle, NoContent
  <2>2. OpMadeNext(o)  BY <2>1, IdleMade
  <2>3. o.made.id \in {0, op[f].made.id, lastId + 1}  BY <2>1
  <2>4. UNCHANGED <<server, committed>>  BY <1>0
  <2>5. lastId' \in Nat /\ lastId <= lastId'  BY <1>0
  <2>6. Become(f, o)  BY <1>1
  <2>7. f \in Clients /\ net' = net  BY <1>0, <1>1
  <2>. QED  BY <2>2, <2>3, <2>4, <2>5, <2>6, <2>7, BecomeMade
<1>2. CASE BeginPublish(f)
  <2>. DEFINE b == [Idle EXCEPT !.kind = "genesis", !.run = runs + 1]
  <2>1. CASE Send(f, b, "keyfile", PutKeyfile(f, f, runs + 1))
    <3>. PICK q : q = PutKeyfile(f, f, runs + 1)  OBVIOUS
    <3>. PICK o : o = [b EXCEPT !.pc = "keyfile", !.call = q]  OBVIOUS
    <3>1. q.from = f /\ q.verb = "PutKeyfile" /\ q.item = f /\ q.run = runs + 1
      BY Fields
    <3>2. /\ o.made.id = 0 /\ o.pc = "keyfile" /\ o.kind = "genesis"
          /\ o.told = "none" /\ o.call = q
      BY DEF Idle, NoContent
    <3>3. RequestMadeNext(q) /\ ~Carries(q)
      BY <1>0, <3>1 DEF RequestMadeNext, RequestMade, Carries
    <3>4. OpMadeNext(o)  BY <3>2 DEF OpMadeNext, OpMade, OpShape
    <3>5. Become(f, o) /\ net' = net \cup {q}  BY <2>1 DEF Send
    <3>6. o.made.id \in {0, op[f].made.id, lastId + 1}  BY <3>2
    <3>7. lastId' \in Nat /\ lastId <= lastId'  BY <1>0
    <3>8. UNCHANGED <<server, committed>>  BY <1>0
    <3>. QED  BY <1>0, <3>2, <3>3, <3>4, <3>5, <3>6, <3>7, <3>8, BecomeMade
  <2>2. CASE Become(f, Moves(b, "checkRoster")) /\ UNCHANGED net
    <3>. PICK o : o = Moves(b, "checkRoster")  OBVIOUS
    <3>1. /\ o.made.id = 0 /\ o.pc = "checkRoster" /\ o.kind = "genesis"
          /\ o.told = "none"
      BY DEF Idle, NoContent, Moves
    <3>2. OpMadeNext(o)  BY <3>1 DEF OpMadeNext, OpMade, OpShape
    <3>3. o.made.id \in {0, op[f].made.id, lastId + 1}  BY <3>1
    <3>4. lastId' \in Nat /\ lastId <= lastId'  BY <1>0
    <3>5. UNCHANGED <<server, committed>>  BY <1>0
    <3>. QED  BY <1>0, <2>2, <3>1, <3>2, <3>3, <3>4, <3>5, BecomeMade
  <2>3. CASE Become(f, [Idle EXCEPT !.told = "refused"]) /\ UNCHANGED net
    BY <1>1, <2>3
  <2>. QED  BY <1>2, <2>1, <2>2, <2>3 DEF BeginPublish
<1>3. CASE CheckRoster(f)
  <2>1. CASE Send(f, op[f], "genesis", CASRoster(f, 0, Genesis(f), 0, op[f].run))
    <3>. PICK q : q = CASRoster(f, 0, Genesis(f), 0, op[f].run)  OBVIOUS
    <3>. PICK o : o = [op[f] EXCEPT !.pc = "genesis", !.call = q]  OBVIOUS
    <3>0. op[f].pc = "checkRoster" /\ op[f].kind = "genesis" /\ op[f].run # 0
      BY <1>0, <1>3 DEF CheckRoster, At, OpOK, GenesisPCs
    <3>1. /\ q.from = f /\ q.verb = "PutRoster" /\ q.body = Genesis(f)
          /\ q.run = op[f].run
      BY Fields
    <3>2. /\ o.made = op[f].made /\ o.pc = "genesis" /\ o.kind = "genesis"
          /\ o.told = op[f].told /\ o.call = q
      BY <1>0, <3>0 DEF Op
    <3>3. RequestMadeNext(q) /\ ~Carries(q)
      BY <3>0, <3>1 DEF RequestMadeNext, RequestMade, Carries
    <3>4. o.made.id # 0 => New(o.made.id)'
      BY <1>0, <3>2 DEF OpMade, New
    <3>5. OpMadeNext(o)
      BY <1>0, <3>0, <3>1, <3>2, <3>4 DEF OpMadeNext, OpMade, OpShape
    <3>6. Become(f, o) /\ net' = net \cup {q}  BY <2>1 DEF Send
    <3>7. o.made.id \in {0, op[f].made.id, lastId + 1}  BY <3>2
    <3>8. lastId' \in Nat /\ lastId <= lastId'  BY <1>0
    <3>9. UNCHANGED <<server, committed>>  BY <1>0
    <3>. QED  BY <1>0, <3>2, <3>3, <3>5, <3>6, <3>7, <3>8, <3>9, BecomeMade
  <2>. QED  BY <1>1, <1>3, <2>1 DEF CheckRoster
<1>. QED  BY <1>2, <1>3

\* and the engine sends a new content once, and deletes what is dead.
LEMMA ClientMade ==
    ASSUME Basic, MadeInv, NEW c \in Clients, ClientStep(c)
    PROVE  MadeInv'
<1>0. /\ lastId \in Nat /\ NClients \in Nat /\ UNCHANGED <<server, committed>>
      /\ rows' = rows /\ blobs' = blobs /\ committed' = committed
      /\ rows["roster"] \in Row /\ rows["manifest"] \in Row
      /\ op[c] \in Op /\ OpOK(c, op[c], net, Exists("roster"), keyfile)
      /\ OpMade(op[c]) /\ 0 \notin committed /\ op[c].made.id \in Nat
  BY HttpStoreAssumption
     DEF Basic, TypeOK, AllOpsOK, ClientStep, BeginChange, WrapKeyfile, BeginPush,
         ReadManifest, Publish, DeleteOld, GiveUp, server, history, Pointers,
         MadeInv, AllOpsMade, ServerMade, Op, Content
<1>1. CASE BeginChange(c)
  <2>. PICK made : made = Successor(rows["roster"], {})  OBVIOUS
  <2>. DEFINE r == rows["roster"]
              b == [Idle EXCEPT !.kind = "change", !.row = r, !.made = made]
  <2>. PICK q : q = CASRoster(c, r.version, made, r.version + 1, 0)  OBVIOUS
  <2>. PICK o : o = [b EXCEPT !.pc = "change", !.call = q]  OBVIOUS
  <2>1. q.verb = "PutRoster" /\ q.body = made /\ q.run = 0  BY Fields
  <2>2. made.id = lastId + 1 /\ lastId' = lastId + 1
    BY <1>1 DEF Successor, BeginChange
  <2>3. /\ o.made = made /\ o.pc = "change" /\ o.kind = "change"
        /\ o.told = "none" /\ o.call = q
    BY DEF Idle
  <2>4. New(made.id)' /\ Unsent(made.id) /\ made.id # 0
    BY <1>0, <2>2, NextUnsent DEF New
  <2>5. RequestMadeNext(q)  BY <1>0, <2>1, <2>4 DEF RequestMadeNext, RequestMade, Unsent
  <2>6. OpMadeNext(o)  BY <2>1, <2>3, <2>4 DEF OpMadeNext, OpMade, OpShape
  <2>7. Become(c, o) /\ net' = net \cup {q}  BY <1>1 DEF Send, BeginChange
  <2>8. o.made.id \in {0, op[c].made.id, lastId + 1}  BY <2>2, <2>3
  <2>9. lastId' \in Nat /\ lastId <= lastId'  BY <1>0, <2>2
  <2>10. UNCHANGED <<server, committed>>  BY <1>0
  <2>. QED  BY <1>0, <2>1, <2>2, <2>3, <2>4, <2>5, <2>6, <2>7, <2>8, <2>9, <2>10, BecomeMade
<1>2. CASE WrapKeyfile(c)
  <2>. PICK q : q = PutKeyfile(c, op[c].made.id, 0)  OBVIOUS
  <2>. PICK o : o = [op[c] EXCEPT !.pc = "wrapping", !.call = q]  OBVIOUS
  <2>0. op[c].pc = "wrap" /\ lastId' = lastId  BY <1>2 DEF WrapKeyfile, At
  <2>1. q.verb = "PutKeyfile" /\ q.item = op[c].made.id /\ q.run = 0  BY Fields
  <2>2. /\ o.made = op[c].made /\ o.pc = "wrapping" /\ o.kind = op[c].kind
        /\ o.told = op[c].told
        /\ o.call = q
    BY <1>0 DEF Op
  <2>3. New(op[c].made.id) /\ op[c].made.id \in committed
    BY <1>0, <2>0 DEF OpMade
  <2>4. RequestMadeNext(q) /\ ~Carries(q)
    BY <1>0, <2>1, <2>3 DEF RequestMadeNext, RequestMade, Carries, New, Clients
  <2>5. OpMadeNext(o)
    BY <1>0, <2>0, <2>2, <2>3 DEF OpMadeNext, OpMade, OpShape, New
  <2>6. Become(c, o) /\ net' = net \cup {q}  BY <1>2 DEF Send, WrapKeyfile
  <2>7. o.made.id \in {0, op[c].made.id, lastId + 1}  BY <2>2
  <2>8. lastId' \in Nat /\ lastId <= lastId'  BY <1>0, <2>0
  <2>9. UNCHANGED <<server, committed>>  BY <1>0
  <2>. QED  BY <1>0, <2>0, <2>2, <2>4, <2>5, <2>6, <2>7, <2>8, <2>9, BecomeMade
<1>3. CASE BeginPush(c)
  <2>1. PICK k \in {"push", "rekey"} :
           Become(c, [Idle EXCEPT !.kind = k, !.pc = "read"]) /\ UNCHANGED <<net, lastId>>
    BY <1>3 DEF BeginPush
  <2>. PICK o : o = [Idle EXCEPT !.kind = k, !.pc = "read"]  OBVIOUS
  <2>2. o.kind = k /\ o.pc = "read" /\ o.made.id = 0 /\ o.told = "none"
    BY DEF Idle, NoContent
  <2>3. Unsent(0)'  BY <1>0, <2>1, NextUnsent DEF Unsent
  <2>4. OpMadeNext(o)  BY <2>2, <2>3 DEF OpMadeNext, OpMade, OpShape
  <2>5. o.made.id \in {0, op[c].made.id, lastId + 1}  BY <2>2
  <2>6. lastId' \in Nat /\ lastId <= lastId'  BY <1>0, <2>1
  <2>7. UNCHANGED <<server, committed>>  BY <1>0
  <2>. QED  BY <1>0, <2>1, <2>2, <2>4, <2>5, <2>6, <2>7, BecomeMade
<1>4. CASE ReadManifest(c)
  <2>. DEFINE r == rows["manifest"]
              kept == IF op[c].kind = "rekey" THEN {} ELSE r.body.packs
  <2>. PICK made : made = Successor(r, kept \cup {lastId + 1})  OBVIOUS
  <2>. DEFINE b == [op[c] EXCEPT !.row = r, !.made = made]
  <2>. PICK q : q = PutBlob(c, lastId + 1)  OBVIOUS
  <2>. PICK o : o = [b EXCEPT !.pc = "blob", !.call = q]  OBVIOUS
  <2>0. op[c].pc = "read" /\ lastId' = lastId + 1  BY <1>4 DEF ReadManifest, At
  <2>1. q.verb = "PutBlob" /\ q.item = lastId + 1  BY Fields
  <2>2. /\ o.made = made /\ o.pc = "blob" /\ o.kind = op[c].kind
        /\ o.told = op[c].told /\ o.call = q /\ o.row = r
    BY <1>0 DEF Op
  <2>3. made.id = lastId + 1 /\ made.packs = kept \cup {lastId + 1}
    BY DEF Successor
  <2>4. New(made.id)' /\ Unsent(made.id) /\ made.id # 0
    BY <1>0, <2>0, <2>3, NextUnsent DEF New
  <2>5. RequestMadeNext(q) /\ ~Carries(q)  BY <2>1 DEF RequestMadeNext, RequestMade, Carries
  <2>6. Become(c, o) /\ net' = net \cup {q}  BY <1>4 DEF Send, ReadManifest
  <2>7. Unsent(o.made.id)'  BY <1>0, <2>2, <2>4, <2>5, <2>6 DEF Unsent, Carries
  <2>8. OpShape(o)
    BY <1>0, <2>0, <2>1, <2>2, <2>3, <2>4 DEF OpMadeNext, OpMade, OpShape
  <2>9. /\ r.version \in Nat /\ rows'["manifest"] = r
        /\ New(o.made.id)'
    BY <1>0, <2>2, <2>4 DEF Row, New
  <2>10. /\ o.row.version <= rows'["manifest"].version /\ o.row = rows'["manifest"]
         /\ o.pc = "blob" /\ OpShape(o) /\ Unsent(o.made.id)' /\ New(o.made.id)'
    BY <2>2, <2>7, <2>8, <2>9
  <2>11. OpMadeNext(o)  BY <2>10 DEF OpMadeNext, OpMade
  <2>12. o.made.id \in {0, op[c].made.id, lastId + 1}  BY <2>2, <2>3
  <2>13. lastId' \in Nat /\ lastId <= lastId'  BY <1>0, <2>0
  <2>14. UNCHANGED <<server, committed>>  BY <1>0
  <2>. QED  BY <1>0, <2>0, <2>2, <2>3, <2>5, <2>6, <2>11, <2>12, <2>13, <2>14, BecomeMade
<1>5. CASE Publish(c)
  <2>. PICK q : q = CASManifest(c, op[c].made, op[c].row.version)  OBVIOUS
  <2>. PICK o : o = [op[c] EXCEPT !.pc = "publishing", !.call = q]  OBVIOUS
  <2>0. op[c].pc = "publish" /\ lastId' = lastId  BY <1>5 DEF Publish, At
  <2>1. /\ q.verb = "PutManifest" /\ q.body = op[c].made
        /\ q.expect = op[c].row.version /\ q.run = 0
    BY Fields
  <2>2. /\ o.made = op[c].made /\ o.pc = "publishing" /\ o.kind = op[c].kind
        /\ o.told = op[c].told /\ o.row = op[c].row /\ o.call = q
    BY <1>0 DEF Op
  <2>3. New(op[c].made.id) /\ Unsent(op[c].made.id) /\ op[c].made.id # 0
    BY <1>0, <2>0 DEF OpMadeNext, OpMade, OpShape
  <2>4. op[c].row.version = rows["manifest"].version =>
          op[c].made.packs \subseteq Listed \cup {op[c].made.id}
    BY <1>0, <2>0 DEF OpMadeNext, OpMade, OpShape, Listed
  <2>5. RequestMadeNext(q)
    <3>1. New(q.body.id)' /\ q.body.id \notin committed' /\ q.body.id \in blobs'
      BY <1>0, <2>0, <2>1, <2>3 DEF New, Unsent, OpMade
    <3>2. /\ q.expect <= rows'["manifest"].version
          /\ q.expect = rows'["manifest"].version =>
               q.body.packs \subseteq Listed' \cup {q.body.id}
      BY <1>0, <2>0, <2>1, <2>4 DEF OpMade, Listed
    <3>. QED  BY <2>1, <3>1, <3>2 DEF RequestMadeNext, RequestMade
  <2>6. OpMadeNext(o)
    BY <1>0, <2>0, <2>1, <2>2, <2>3 DEF OpMadeNext, OpMade, OpShape, New
  <2>7. Become(c, o) /\ net' = net \cup {q}  BY <1>5 DEF Send, Publish
  <2>8. o.made.id \in {0, op[c].made.id, lastId + 1}  BY <2>2
  <2>9. lastId' \in Nat /\ lastId <= lastId'  BY <1>0, <2>0
  <2>10. UNCHANGED <<server, committed>>  BY <1>0
  <2>. QED  BY <1>0, <2>0, <2>1, <2>2, <2>3, <2>5, <2>6, <2>7, <2>8, <2>9, <2>10, BecomeMade
<1>6. CASE DeleteOld(c)
  <2>0. op[c].pc = "delete" /\ lastId' = lastId  BY <1>6 DEF DeleteOld, At
  <2>1. CASE Become(c, Idle) /\ UNCHANGED net
    <3>. PICK o : o = Idle  OBVIOUS
    <3>1. o.made.id = 0 /\ o.pc = "idle" /\ o.kind = "none"  BY DEF Idle, NoContent
    <3>2. OpMadeNext(o)  BY <3>1, IdleMade
    <3>3. o.made.id \in {0, op[c].made.id, lastId + 1}  BY <3>1
    <3>4. lastId' \in Nat /\ lastId <= lastId'  BY <1>0, <2>0
    <3>5. UNCHANGED <<server, committed>>  BY <1>0
    <3>. QED  BY <1>0, <2>0, <2>1, <3>1, <3>2, <3>3, <3>4, <3>5, BecomeMade
  <2>2. ASSUME NEW p \in op[c].row.body.packs,
               Send(c, [op[c] EXCEPT !.row.body.packs = @ \ {p}],
                    "deleting", DeleteBlob(c, p))
        PROVE  MadeInv'
    <3>. PICK q : q = DeleteBlob(c, p)  OBVIOUS
    <3>. DEFINE b == [op[c] EXCEPT !.row.body.packs = @ \ {p}]
    <3>. PICK o : o = [b EXCEPT !.pc = "deleting", !.call = q]  OBVIOUS
    <3>1. q.verb = "DeleteBlob" /\ q.item = p  BY Fields
    <3>2. /\ o.made = op[c].made /\ o.pc = "deleting" /\ o.kind = op[c].kind
          /\ o.told = op[c].told /\ o.call = q
          /\ o.row.body.packs \subseteq op[c].row.body.packs
      BY <1>0 DEF Op, Row, Content
    <3>3. /\ op[c].made.id \in committed /\ New(op[c].made.id)
          /\ \A x \in op[c].row.body.packs : Dead(x)
      BY <1>0, <2>0 DEF OpMade
    <3>4. RequestMadeNext(q) /\ ~Carries(q)
      BY <1>0, <3>1, <3>3 DEF RequestMadeNext, RequestMade, Carries, Dead, Listed
    <3>5. \A x \in o.row.body.packs : Dead(x)'
      BY <1>0, <3>2, <3>3 DEF Dead, Listed
    <3>6. OpMadeNext(o)
      BY <1>0, <2>0, <3>2, <3>3, <3>5 DEF OpMadeNext, OpMade, OpShape, New
    <3>7. Become(c, o) /\ net' = net \cup {q}  BY <2>2 DEF Send
    <3>8. o.made.id \in {0, op[c].made.id, lastId + 1}  BY <3>2
    <3>9. lastId' \in Nat /\ lastId <= lastId'  BY <1>0, <2>0
    <3>10. UNCHANGED <<server, committed>>  BY <1>0
    <3>. QED  BY <1>0, <2>0, <3>2, <3>4, <3>6, <3>7, <3>8, <3>9, <3>10, BecomeMade
  <2>. QED  BY <1>6, <2>1, <2>2 DEF DeleteOld
<1>7. CASE GiveUp(c)
  <2>. PICK o : o = Idle  OBVIOUS
  <2>1. o.made.id = 0 /\ o.pc = "idle" /\ o.kind = "none"  BY DEF Idle, NoContent
  <2>3. OpMadeNext(o)  BY <2>1, IdleMade
  <2>2. lastId' = lastId /\ net' = net /\ Become(c, o)  BY <1>7 DEF GiveUp
  <2>4. o.made.id \in {0, op[c].made.id, lastId + 1}  BY <2>1
  <2>5. lastId' \in Nat /\ lastId <= lastId'  BY <1>0, <2>2
  <2>6. UNCHANGED <<server, committed>>  BY <1>0
  <2>. QED  BY <1>0, <2>1, <2>2, <2>3, <2>4, <2>5, <2>6, BecomeMade
<1>. QED
  BY <1>1, <1>2, <1>3, <1>4, <1>5, <1>6, <1>7 DEF ClientStep

\* What the server does with request m, row by row,
ManifestSwapped(m) ==
    /\ m.verb = "PutManifest" /\ m.expect = rows["manifest"].version
    /\ rows' = [rows EXCEPT !["manifest"] = [version |-> m.expect + 1, body |-> m.body]]
    /\ committed' = committed \cup {m.body.id}
    /\ UNCHANGED <<keyfile, blobs>>
RosterSwapped(m) ==
    /\ m.verb = "PutRoster"
    /\ rows' = [rows EXCEPT !["roster"] = [version |-> m.next, body |-> m.body]]
    /\ committed' = committed \cup {m.body.id}
    /\ UNCHANGED <<keyfile, blobs>>
OtherHandled(m) ==
    /\ UNCHANGED <<rows, committed>>
    /\ keyfile' = keyfile \/ (m.verb = "PutKeyfile" /\ keyfile' = m.item)
    /\ \A p \in blobs \ blobs' : m.verb = "DeleteBlob" /\ p = m.item

\* and the client that waits for it, with what the answer says.
AnswersMade(m, o) ==
    \/ o = Idle
    \/ /\ o = AfterConflict(op[m.from])
       /\ m.verb \in {"PutManifest", "PutRoster"} /\ UNCHANGED committed
    \/ /\ o = AfterOK(op[m.from])
       /\ m.verb = "PutManifest" => ManifestSwapped(m)
       /\ m.verb = "PutRoster" => RosterSwapped(m)
       /\ m.verb = "PutKeyfile" => keyfile' = m.item
       /\ m.verb = "PutBlob" => m.item \in blobs'

LEMMA HandledMade ==
    ASSUME NEW m \in net, Handled(m)
    PROVE  /\ \/ ManifestSwapped(m) \/ RosterSwapped(m) \/ OtherHandled(m)
           /\ \E o : Reply(m, o) /\ AnswersMade(m, o)
<1>1. CASE HandlePutManifest(m)
  <2>1. CASE casManifest(m) /\ OK(m)
    <3>1. ManifestSwapped(m)
      BY <1>1, <2>1 DEF HandlePutManifest, casManifest, Store, ManifestSwapped
    <3>2. AnswersMade(m, AfterOK(op[m.from]))
      BY <1>1, <3>1 DEF AnswersMade, HandlePutManifest
    <3>. QED  BY <2>1, <3>1, <3>2 DEF OK
  <2>2. CASE Conflict(m) /\ UNCHANGED <<rows, committed>>
    <3>1. AnswersMade(m, AfterConflict(op[m.from]))
      BY <1>1, <2>2 DEF AnswersMade, HandlePutManifest
    <3>. QED  BY <1>1, <2>2, <3>1 DEF Conflict, OtherHandled, HandlePutManifest
  <2>. QED  BY <1>1, <2>1, <2>2 DEF HandlePutManifest
<1>2. CASE HandlePutRoster(m)
  <2>1. CASE casRoster(m) /\ OK(m)
    <3>1. RosterSwapped(m)
      BY <1>2, <2>1 DEF HandlePutRoster, casRoster, Store, RosterSwapped
    <3>2. AnswersMade(m, AfterOK(op[m.from]))
      BY <1>2, <3>1 DEF AnswersMade, HandlePutRoster
    <3>. QED  BY <2>1, <3>1, <3>2 DEF OK
  <2>2. CASE Conflict(m) /\ UNCHANGED <<rows, committed>>
    <3>1. AnswersMade(m, AfterConflict(op[m.from]))
      BY <1>2, <2>2 DEF AnswersMade, HandlePutRoster
    <3>. QED  BY <1>2, <2>2, <3>1 DEF Conflict, OtherHandled, HandlePutRoster
  <2>. QED  BY <1>2, <2>1, <2>2 DEF HandlePutRoster
<1>3. CASE HandlePutKeyfile(m)
  <2>1. AnswersMade(m, AfterOK(op[m.from]))
    BY <1>3 DEF AnswersMade, HandlePutKeyfile
  <2>. QED  BY <1>3, <2>1 DEF OK, OtherHandled, HandlePutKeyfile
<1>4. CASE HandlePutBlob(m)
  <2>1. AnswersMade(m, AfterOK(op[m.from]))
    BY <1>4 DEF AnswersMade, HandlePutBlob
  <2>. QED  BY <1>4, <2>1 DEF OK, OtherHandled, HandlePutBlob
<1>5. CASE HandleDeleteBlob(m)
  <2>1. AnswersMade(m, AfterOK(op[m.from]))
    BY <1>5 DEF AnswersMade, HandleDeleteBlob
  <2>. QED  BY <1>5, <2>1 DEF OK, OtherHandled, HandleDeleteBlob
<1>6. CASE Fails(m)
  BY <1>6 DEF Fails, OtherHandled, AnswersMade, server
<1>. QED  BY <1>1, <1>2, <1>3, <1>4, <1>5, <1>6 DEF Handled

\* What the types say of the requests and the rows.
LEMMA RequestTypes ==
    ASSUME Basic, NEW m \in net
    PROVE  /\ m.from \in Clients /\ m.body.id \in Nat /\ m.expect \in Nat
           /\ m.item \in Nat /\ m.body \in Content
           /\ rows["manifest"].version \in Nat /\ rows["manifest"] \in Row
           /\ rows \in [Pointers -> Row] /\ lastId \in Nat /\ NClients \in Nat
BY HttpStoreAssumption DEF Basic, TypeOK, Request, Content, Row, Pointers

\* Committed stays committed, and only the content of m is added; dead stays
\* dead, and only a dead pack is deleted; the manifest only advances.
LEMMA HandledStays ==
    ASSUME Basic, MadeInv, NEW m \in net, Handled(m)
    PROVE  /\ committed \subseteq committed'
           /\ \A id : (/\ id \notin committed /\ id \notin Clients
                       /\ Carries(m) => m.body.id # id)
                      => id \notin committed'
           /\ \A p : Dead(p) => p \in committed' /\ p \notin rows'["manifest"].body.packs
           /\ \A p \in blobs : p \notin committed => p \in blobs'
           /\ \A p \in blobs : p \in rows["manifest"].body.packs => p \in blobs'
           /\ rows["manifest"].version <= rows'["manifest"].version
           /\ rows["manifest"].version = rows'["manifest"].version =>
                rows'["manifest"] = rows["manifest"]
<1>0. /\ RequestMade(m) /\ m.from \in Clients
      /\ rows["manifest"].version \in Nat /\ rows \in [Pointers -> Row]
      /\ Pointers = {"manifest", "roster"}
  BY RequestTypes DEF MadeInv, AllRequestsMade, Pointers
<1>1. CASE ManifestSwapped(m)
  <2>1. /\ rows'["manifest"] = [version |-> m.expect + 1, body |-> m.body]
        /\ m.expect = rows["manifest"].version /\ m.verb = "PutManifest"
        /\ committed' = committed \cup {m.body.id} /\ blobs' = blobs /\ Carries(m)
    BY <1>0, <1>1 DEF ManifestSwapped, Carries
  <2>2. m.body.packs \subseteq Listed \cup {m.body.id} /\ m.body.id \notin committed
    BY <1>0, <2>1 DEF RequestMade
  <2>. QED  BY <1>0, <2>1, <2>2 DEF Dead, Listed
<1>2. CASE RosterSwapped(m)
  <2>1. /\ rows'["manifest"] = rows["manifest"] /\ m.verb = "PutRoster"
        /\ committed' = committed \cup {m.body.id} /\ blobs' = blobs
    BY <1>0, <1>2 DEF RosterSwapped
  <2>2. m.run # 0 => m.body.id = m.from
    BY <1>0, <2>1 DEF RequestMade, Genesis, NoContent
  <2>3. m.run = 0 => Carries(m)  BY <2>1 DEF Carries
  <2>. QED  BY <1>0, <2>1, <2>2, <2>3 DEF Dead, Listed
<1>3. CASE OtherHandled(m)
  <2>1. rows' = rows /\ committed' = committed  BY <1>3 DEF OtherHandled
  <2>2. \A p \in blobs : p \notin blobs' => Dead(p)
    BY <1>0, <1>3 DEF OtherHandled, RequestMade
  <2>. QED  BY <1>0, <2>1, <2>2 DEF Dead, Listed
<1>. QED  BY <1>1, <1>2, <1>3, HandledMade

\* The other requests keep what is said of them,
LEMMA HandledRequestsMade ==
    ASSUME Basic, MadeInv, NEW m \in net, Handled(m)
    PROVE  AllRequestsMade' /\ OneRequest'
<1>0. net' = net \ {m} /\ lastId' = lastId  BY DEF Handled
<1>1. ASSUME NEW n \in net, n # m  PROVE RequestMade(n)'
  <2>0. /\ RequestMade(n) /\ n.from \in Clients /\ n.body.id \in Nat /\ n.expect \in Nat
        /\ rows["manifest"].version \in Nat /\ NClients \in Nat
    BY RequestTypes DEF MadeInv, AllRequestsMade
  <2>1. Carries(n) => New(n.body.id)' /\ n.body.id \notin committed'
    <3>. SUFFICES ASSUME Carries(n)  PROVE New(n.body.id)' /\ n.body.id \notin committed'
      OBVIOUS
    <3>1. New(n.body.id) /\ n.body.id \notin committed  BY <2>0 DEF RequestMade
    <3>2. n.body.id \notin Clients  BY <2>0, <3>1 DEF New, Clients
    <3>3. Carries(m) => m.body.id # n.body.id  BY <1>1 DEF MadeInv, OneRequest
    <3>. QED  BY <1>0, <3>1, <3>2, <3>3, HandledStays DEF New
  <2>2. (n.verb = "PutKeyfile" /\ n.run = 0) => n.item \in committed' \ Clients
    BY <2>0, HandledStays DEF RequestMade
  <2>3. n.verb = "PutManifest" =>
          /\ n.body.id \in blobs'
          /\ n.expect <= rows'["manifest"].version
          /\ n.expect = rows'["manifest"].version =>
               n.body.packs \subseteq rows'["manifest"].body.packs \cup {n.body.id}
    <3>. SUFFICES ASSUME n.verb = "PutManifest"
         PROVE  /\ n.body.id \in blobs'
                /\ n.expect <= rows'["manifest"].version
                /\ n.expect = rows'["manifest"].version =>
                     n.body.packs \subseteq rows'["manifest"].body.packs \cup {n.body.id}
      OBVIOUS
    <3>1. n.body.id \in blobs /\ n.body.id \notin committed
      BY <2>0 DEF RequestMade, Carries
    <3>2. n.body.id \in blobs'  BY <3>1, HandledStays
    <3>3. rows'["manifest"].version \in Nat
      <4>1. TypeOK'  BY HandleType DEF Handle, Handled, Basic
      <4>. QED  BY <4>1 DEF TypeOK, Row, Pointers
    <3>4. /\ n.expect <= rows["manifest"].version
          /\ n.expect = rows["manifest"].version =>
               n.body.packs \subseteq rows["manifest"].body.packs \cup {n.body.id}
      BY <2>0 DEF RequestMade, Listed
    <3>. QED  BY <2>0, <3>2, <3>3, <3>4, HandledStays
  <2>4. n.verb = "DeleteBlob" => Dead(n.item)'
    BY <2>0, HandledStays DEF RequestMade, Dead, Listed
  <2>. QED  BY <2>0, <2>1, <2>2, <2>3, <2>4 DEF RequestMade, Listed
<1>. QED  BY <1>0, <1>1 DEF AllRequestsMade, OneRequest, MadeInv, Carries

\* What is not sent yet stays so, unless it is brought by m itself.
LEMMA HandledUnsent ==
    ASSUME Basic, MadeInv, NEW m \in net, Handled(m), NEW id \in Nat,
           id = 0 \/ New(id), id \notin committed,
           \A n \in net : Carries(n) /\ n.body.id = id => n = m,
           Carries(m) /\ m.body.id = id => UNCHANGED committed
    PROVE  Unsent(id)'
<1>1. net' = net \ {m}  BY DEF Handled
<1>2. id \notin Clients  BY HttpStoreAssumption DEF New, Clients
<1>3. id \notin committed'
  <2>1. CASE Carries(m) /\ m.body.id = id  BY <2>1
  <2>2. CASE Carries(m) => m.body.id # id  BY <1>2, <2>2, HandledStays
  <2>. QED  BY <2>1, <2>2
<1>. QED  BY <1>1, <1>3 DEF Unsent, Carries

\* an operation that waits for something else keeps what is said of it,
LEMMA OtherOpMade ==
    ASSUME Basic, MadeInv, NEW m \in net, Handled(m), NEW w \in Op, OpMade(w)
    PROVE  OpMadeNext(w)
<1>0. /\ w.made.id \in Nat /\ w.row.version \in Nat /\ lastId' = lastId
      /\ rows["manifest"].version \in Nat
  BY RequestTypes DEF Op, Content, Row, Handled
<1>1. w.made.id # 0 => New(w.made.id)'
  BY <1>0 DEF OpMade, New
<1>2. w.pc \in {"read", "blob", "publish"} => Unsent(w.made.id)'
  <2>. SUFFICES ASSUME w.pc \in {"read", "blob", "publish"}  PROVE Unsent(w.made.id)'
    OBVIOUS
  <2>1. w.made.id = 0 \/ New(w.made.id)  BY DEF OpMade
  <2>2. w.made.id \notin committed  BY DEF OpMade, Unsent
  <2>3. \A n \in net : Carries(n) => n.body.id # w.made.id  BY DEF OpMade, Unsent
  <2>. QED  BY <1>0, <2>1, <2>2, <2>3, HandledUnsent
<1>3. w.pc = "publish" => w.made.id \in blobs'
  BY HandledStays DEF OpMade, Unsent
<1>4. w.pc \in {"wrap", "wrapping", "delete", "deleting"} => w.made.id \in committed'
  BY HandledStays DEF OpMade
<1>5. w.pc \in {"blob", "publish", "publishing"} =>
        /\ w.row.version <= rows'["manifest"].version
        /\ w.row.version = rows'["manifest"].version => w.row = rows'["manifest"]
  <2>1. rows'["manifest"].version \in Nat
    <3>1. TypeOK'  BY HandleType DEF Handle, Handled, Basic
    <3>. QED  BY <3>1 DEF TypeOK, Row, Pointers
  <2>2. /\ rows["manifest"].version <= rows'["manifest"].version
        /\ rows["manifest"].version = rows'["manifest"].version =>
             rows'["manifest"] = rows["manifest"]
    BY HandledStays
  <2>. QED  BY <1>0, <2>1, <2>2 DEF OpMade
<1>6. w.pc \in {"delete", "deleting"} => \A p \in w.row.body.packs : Dead(p)'
  BY HandledStays DEF OpMade, Dead, Listed
<1>. QED
  BY <1>1, <1>2, <1>3, <1>4, <1>5, <1>6 DEF OpMadeNext, OpMade

\* and so does the one that waited for m.
LEMMA AnsweredMade ==
    ASSUME Basic, MadeInv, NEW m \in net, Handled(m), NEW w \in Op, OpMade(w),
           OpOK(m.from, w, net, Exists("roster"), keyfile), w = op[m.from],
           w.call = m, w.pc \in Waiting,
           NEW s, AnswersMade(m, s)
    PROVE  OpMadeNext(s) /\ s.made.id \in {0, w.made.id}
<1>. DEFINE Goal == OpMadeNext(s) /\ s.made.id \in {0, w.made.id}
<1>0. /\ OpMadeNext(w) /\ RequestMade(m) /\ w.made.id \in Nat
  BY OtherOpMade DEF MadeInv, AllRequestsMade, Op, Content
<1>1. ASSUME s.made.id = 0, s.pc = "idle", s.kind = "none"  PROVE Goal
  BY <1>1, IdleMade DEF OpMadeNext
<1>2. CASE s = Idle \/ s = [Idle EXCEPT !.told = "published"]
  BY <1>1, <1>2 DEF Idle, NoContent
<1>3. ASSUME NEW pc, s = Moves(w, pc)
      PROVE  /\ s.pc = pc /\ s.kind = w.kind /\ s.told = w.told
             /\ s.row = w.row /\ s.made = w.made
  BY <1>3 DEF Moves, Op
<1>4. w.told = "none" /\ (w.kind = "push" => w.pc \in {"blob", "publishing"})
  BY DEF OpMade, OpShape, Waiting
<1>5. w.made.id # 0 => New(w.made.id)'
  BY <1>0 DEF OpMadeNext, OpMade
<1>6. CASE s = AfterConflict(w) /\ m.verb \in {"PutManifest", "PutRoster"}
                /\ UNCHANGED committed
  <2>1. CASE s = [Moves(w, "read") EXCEPT !.tries = @ + 1] /\ w.kind = "push"
    <3>1. /\ s.pc = "read" /\ s.kind = w.kind /\ s.told = w.told /\ s.made = w.made
      BY <2>1 DEF Moves, Op
    <3>2. Carries(m) /\ m.body = s.made
      BY <1>4, <1>6, <2>1, <3>1 DEF OpMade, OpShape, Carries
    <3>3. New(s.made.id) /\ s.made.id \notin committed
      BY <1>0, <3>2 DEF RequestMade
    <3>4. \A n \in net : Carries(n) /\ n.body.id = s.made.id => n = m
      BY <3>2 DEF MadeInv, OneRequest
    <3>5. s.made.id \in Nat  BY <1>0, <3>1
    <3>6. Unsent(s.made.id)'  BY <1>6, <3>3, <3>4, <3>5, HandledUnsent
    <3>7. New(s.made.id)'  BY <3>3 DEF New, Handled
    <3>8. OpMadeNext(s)
      BY <1>4, <2>1, <3>1, <3>6, <3>7 DEF OpMadeNext, OpMade, OpShape
    <3>. QED  BY <3>1, <3>8
  <2>. QED  BY <1>2, <1>6, <2>1 DEF AfterConflict
<1>7. CASE w.pc = "keyfile" /\ s = Moves(w, "checkRoster")
  BY <1>3, <1>4, <1>5, <1>7 DEF OpMadeNext, OpMade, OpShape, OpOK, GenesisPCs
<1>8. CASE w.pc = "change" /\ s = Moves(w, "wrap") /\ RosterSwapped(m)
  <2>1. s.made.id \in committed' /\ w.kind # "push"
    BY <1>3, <1>4, <1>8 DEF OpMade, OpShape, RosterSwapped
  <2>2. s.made = w.made /\ s.pc = "wrap" /\ s.told = "none" /\ s.kind # "push"
    BY <1>3, <1>4, <1>8, <2>1
  <2>3. s.made.id # 0 => New(s.made.id)'
    <3>1. w.made.id # 0 => New(w.made.id)  BY DEF OpMade
    <3>. QED  BY <2>2, <3>1 DEF New, Handled
  <2>. QED  BY <2>1, <2>2, <2>3 DEF OpMadeNext, OpMade, OpShape
<1>9. CASE w.pc = "blob" /\ s = Moves(w, "publish") /\ m.item \in blobs'
  <2>1. /\ s.made = w.made /\ s.row = w.row /\ s.kind = w.kind
        /\ s.pc = "publish" /\ s.told = "none"
    BY <1>3, <1>4, <1>9
  <2>2. OpShape(s) /\ s.made.id \in blobs'
    BY <1>9, <2>1 DEF OpMade, OpShape
  <2>3. OpMade(w)'  BY <1>0 DEF OpMadeNext
  <2>4. /\ Unsent(w.made.id)' /\ New(w.made.id)'
        /\ w.row.version <= rows'["manifest"].version
        /\ w.row.version = rows'["manifest"].version => w.row = rows'["manifest"]
    BY <1>9, <2>3 DEF OpMade, OpShape
  <2>5. Unsent(s.made.id)' /\ New(s.made.id)'
    BY <2>1, <2>4 DEF Unsent, New
  <2>. QED  BY <2>1, <2>2, <2>4, <2>5 DEF OpMadeNext, OpMade
<1>10. CASE w.pc = "publishing" /\ s = Moves(w, "delete") /\ w.kind = "rekey"
             /\ ManifestSwapped(m)
  <2>1. /\ s.made = w.made /\ s.row = w.row /\ s.kind = w.kind
        /\ s.pc = "delete" /\ s.told = "none"
    BY <1>3, <1>4, <1>10
  <2>2. /\ m.body = w.made /\ m.expect = w.row.version /\ w.made.packs = {w.made.id}
        /\ m.verb = "PutManifest" /\ m.expect = rows["manifest"].version
    BY <1>10 DEF OpMade, OpShape, ManifestSwapped
  <2>3. w.row = rows["manifest"]  BY <1>10, <2>2 DEF OpMade
  <2>4. /\ rows'["manifest"].body = w.made
        /\ committed' = committed \cup {w.made.id}
    BY <1>10, <2>2, RequestTypes DEF ManifestSwapped, Pointers
  <2>5. w.made.id \notin committed  BY <1>0, <2>2 DEF RequestMade, Carries
  <2>6. w.row.body.packs \subseteq committed
    BY <2>3 DEF MadeInv, ServerMade, Listed
  <2>7. \A p \in s.row.body.packs : Dead(p)'
    BY <2>1, <2>2, <2>4, <2>5, <2>6 DEF Dead, Listed
  <2>8. s.made.id # 0 => New(s.made.id)'
    <3>1. w.made.id # 0 => New(w.made.id)  BY DEF OpMade
    <3>. QED  BY <2>1, <3>1 DEF New, Handled
  <2>9. s.made.id \in committed' /\ OpShape(s)
    BY <1>10, <2>1, <2>4 DEF OpShape
  <2>. QED  BY <2>1, <2>7, <2>8, <2>9 DEF OpMadeNext, OpMade
<1>11. CASE w.pc = "deleting" /\ s = Moves(w, "delete")
  <2>1. /\ s.made = w.made /\ s.row = w.row /\ s.kind = w.kind
        /\ s.pc = "delete" /\ s.told = "none" /\ w.kind # "push"
    BY <1>3, <1>4, <1>11
  <2>2. OpMade(w)'  BY <1>0 DEF OpMadeNext
  <2>3. w.made.id \in committed' /\ \A p \in w.row.body.packs : Dead(p)'
    BY <1>11, <2>2 DEF OpMade
  <2>4. s.made.id # 0 => New(s.made.id)'
    <3>1. w.made.id # 0 => New(w.made.id)  BY DEF OpMade
    <3>. QED  BY <2>1, <3>1 DEF New, Handled
  <2>5. OpShape(s)  BY <2>1 DEF OpShape
  <2>. QED  BY <2>1, <2>3, <2>4, <2>5 DEF OpMadeNext, OpMade
<1>12. ASSUME s = AfterOK(w),
               m.verb = "PutManifest" => ManifestSwapped(m),
               m.verb = "PutRoster" => RosterSwapped(m),
               m.verb = "PutBlob" => m.item \in blobs'
        PROVE  Goal
  <2>1. w.pc = "change" => RosterSwapped(m)
    BY <1>12 DEF OpMade, OpShape
  <2>2. w.pc = "publishing" => ManifestSwapped(m)
    BY <1>12 DEF OpMade, OpShape
  <2>3. w.pc = "blob" => m.item \in blobs'
    BY <1>12 DEF OpMade, OpShape
  <2>. QED
    BY <1>2, <1>7, <1>8, <1>9, <1>10, <1>11, <1>12, <2>1, <2>2, <2>3 DEF AfterOK
<1>. QED  BY <1>2, <1>6, <1>12 DEF AnswersMade

\* So the operations keep what is said of them, and make nothing.
LEMMA HandledOpsMade ==
    ASSUME Basic, MadeInv, NEW m \in net, Handled(m), NEW d \in Clients
    PROVE  OpMade(op[d])' /\ op'[d].made.id \in {0, op[d].made.id}
<1>0. /\ op \in [Clients -> Op] /\ op[d] \in Op /\ OpMade(op[d]) /\ m # NoRequest
      /\ OpOK(d, op[d], net, Exists("roster"), keyfile) /\ m.from \in Clients
      /\ (op[d].call # NoRequest <=> op[d].pc \in Waiting)
  BY RequestTypes DEF Basic, TypeOK, MadeInv, AllOpsMade, AllOpsOK, AllRequestsOK,
                      RequestOK, NoRequest, Waiting
<1>. PICK w : w = op[d]  OBVIOUS
<1>1. PICK o : Reply(m, o) /\ AnswersMade(m, o)  BY HandledMade
<1>2. CASE w.call # m
  <2>1. op'[d] = w  BY <1>0, <1>1, <1>2 DEF Reply
  <2>2. OpMadeNext(w)  BY <1>0, OtherOpMade
  <2>3. OpMade(w)'  BY <2>2 DEF OpMadeNext
  <2>. QED  BY <2>1, <2>3
<1>3. CASE w.call = m
  <2>1. d = m.from  BY <1>0, <1>3 DEF OpOK
  <2>2. op'[d] = o  BY <1>0, <1>1, <1>3, <2>1 DEF Reply
  <2>3. OpMadeNext(o) /\ o.made.id \in {0, w.made.id}
    BY <1>0, <1>1, <1>3, <2>1, AnsweredMade
  <2>4. OpMade(o)'  BY <2>3 DEF OpMadeNext
  <2>. QED  BY <2>2, <2>3, <2>4
<1>. QED  BY <1>2, <1>3

\* What the server holds is committed, and its packs are there.
LEMMA HandledServerMade ==
    ASSUME Basic, MadeInv, NEW m \in net, Handled(m)
    PROVE  ServerMade'
<1>0. /\ RequestMade(m) /\ lastId' = lastId /\ ServerMade
      /\ RequestOK(m, Exists("roster"), keyfile)
      /\ Pointers = {"manifest", "roster"}
  BY DEF MadeInv, AllRequestsMade, Basic, AllRequestsOK, Handled, Pointers
<1>t. /\ m.from \in Clients /\ m.body.id \in Nat /\ rows \in [Pointers -> Row]
      /\ lastId \in Nat /\ NClients \in Nat
  BY RequestTypes
<1>1. CASE ManifestSwapped(m)
  <2>1. /\ rows'["manifest"].body = m.body /\ rows'["roster"] = rows["roster"]
        /\ committed' = committed \cup {m.body.id}
        /\ blobs' = blobs /\ keyfile' = keyfile
    BY <1>0, <1>t, <1>1 DEF ManifestSwapped
  <2>2. New(m.body.id) /\ m.body.id \in blobs
        /\ m.body.packs \subseteq Listed \cup {m.body.id}
    BY <1>0, <1>1 DEF RequestMade, Carries, ManifestSwapped
  <2>3. committed' \subseteq 1 .. lastId'
    <3>1. m.body.id \in 1 .. lastId  BY <1>t, <2>2 DEF New
    <3>2. committed \subseteq 1 .. lastId  BY <1>0 DEF ServerMade
    <3>. QED  BY <1>0, <2>1, <3>1, <3>2
  <2>4. Listed' \subseteq committed' /\ Listed' \subseteq blobs'
    BY <1>0, <2>1, <2>2 DEF ServerMade, Listed
  <2>. QED  BY <1>0, <2>1, <2>3, <2>4 DEF ServerMade, Exists
<1>2. CASE RosterSwapped(m)
  <2>1. /\ rows'["roster"].body = m.body /\ rows'["manifest"] = rows["manifest"]
        /\ committed' = committed \cup {m.body.id}
        /\ blobs' = blobs /\ keyfile' = keyfile /\ m.verb = "PutRoster"
    BY <1>0, <1>t, <1>2 DEF RosterSwapped
  <2>2. m.run = 0 => New(m.body.id) /\ m.body.id \notin Clients
    BY <1>0, <1>t, <2>1 DEF RequestMade, Carries, New, Clients
  <2>3. m.run # 0 => m.body = Genesis(m.from) /\ m.body.id = m.from
    BY <1>0, <2>1 DEF RequestMade, Genesis, NoContent
  <2>4. committed' \subseteq 1 .. lastId'
    <3>1. m.body.id \in 1 .. lastId
      <4>1. CASE m.run = 0
        <5>1. New(m.body.id)  BY <2>2, <4>1
        <5>. QED  BY <1>t, <5>1 DEF New
      <4>2. CASE m.run # 0
        <5>1. m.body.id \in 1 .. NClients  BY <1>t, <2>3, <4>2 DEF Clients
        <5>. QED  BY <1>0, <1>t, <5>1 DEF ServerMade
      <4>. QED  BY <4>1, <4>2
    <3>2. committed \subseteq 1 .. lastId  BY <1>0 DEF ServerMade
    <3>. QED  BY <1>0, <2>1, <3>1, <3>2
  <2>5. rows'["roster"].body.id \in committed' /\
        (rows'["roster"].body.id \in Clients =>
            rows'["roster"].body = Genesis(rows'["roster"].body.id))
    BY <2>1, <2>2, <2>3
  <2>6. Listed' \subseteq committed' /\ Listed' \subseteq blobs'
    BY <1>0, <2>1 DEF ServerMade, Listed
  <2>. QED  BY <1>0, <2>1, <2>4, <2>5, <2>6 DEF ServerMade
<1>3. CASE OtherHandled(m)
  <2>1. rows' = rows /\ committed' = committed  BY <1>3 DEF OtherHandled
  <2>2. keyfile' \in {0} \cup Founders \cup (committed' \ Clients)
    BY <1>0, <1>3, <2>1 DEF OtherHandled, RequestMade, ServerMade
  <2>3. Listed' \subseteq blobs'
    BY <1>0, <2>1, HandledStays DEF ServerMade, Listed
  <2>. QED  BY <1>0, <2>1, <2>2, <2>3 DEF ServerMade, Listed, Exists
<1>. QED  BY <1>1, <1>2, <1>3, HandledMade

\* Every step keeps the invariant.
LEMMA StepMade ==
    ASSUME Basic, MadeInv, [Next]_vars
    PROVE  MadeInv'
<1>1. ASSUME NEW f \in Founders, BeginPublish(f) \/ CheckRoster(f)  PROVE MadeInv'
  BY <1>1, PublishMade
<1>2. ASSUME NEW c \in Clients, ClientStep(c)  PROVE MadeInv'
  BY <1>2, ClientMade
<1>3. CASE Handle
  <2>1. PICK m \in net : Handled(m)  BY <1>3 DEF Handle, Handled
  <2>2. OneMaker'
    <3>1. \A d \in Clients : op'[d].made.id \in {0, op[d].made.id}
      BY <2>1, HandledOpsMade
    <3>. QED  BY <3>1 DEF MadeInv, OneMaker
  <2>3. AllOpsMade'  BY <2>1, HandledOpsMade DEF AllOpsMade
  <2>. QED
    BY <2>1, <2>2, <2>3, HandledRequestsMade, HandledServerMade DEF MadeInv
<1>4. CASE UNCHANGED vars
  <2>1. AllRequestsMade' /\ AllOpsMade'
    BY <1>4 DEF vars, server, history, MadeInv, AllRequestsMade, AllOpsMade,
       RequestMade, OpMade, Unsent, New, Dead, Listed
  <2>2. ServerMade' /\ OneMaker' /\ OneRequest'
    BY <1>4 DEF vars, server, history, MadeInv, ServerMade, OneMaker, OneRequest,
       Listed, Exists
  <2>. QED  BY <2>1, <2>2 DEF MadeInv
<1>. QED  BY <1>1, <1>2, <1>3, <1>4 DEF Next

\* Nothing has been made yet.
LEMMA InitMade == Init => MadeInv
<1>. SUFFICES ASSUME Init  PROVE MadeInv  OBVIOUS
<1>1. \A c \in Clients : op[c] = Idle  BY DEF Init
<1>2. \A k \in Pointers : rows[k] = NoRow  BY DEF Init
<1>3. AllOpsMade
  BY <1>1 DEF AllOpsMade, OpMade, OpShape, Idle, NoContent
<1>4. AllRequestsMade /\ OneRequest /\ OneMaker
  BY <1>1 DEF Init, AllRequestsMade, OneRequest, OneMaker, Idle, NoContent
<1>5. ServerMade
  BY <1>2, HttpStoreAssumption
     DEF Init, ServerMade, Listed, Exists, NoRow, NoContent, Pointers
<1>. QED  BY <1>3, <1>4, <1>5 DEF MadeInv

\* The invariant of contents and packs (the engine's part of the module).
THEOREM ContentsInvariant == Spec => []MadeInv
<1>1. IInv /\ MadeInv /\ [Next]_vars => MadeInv'  BY StepMade DEF IInv
<1>. QED  BY <1>1, InitMade, HttpStoreInvariant, PTL DEF Spec

\* A pack that the current manifest lists is on the server, for any number of
\* clients, pushes and rekeys, and whichever requests are late or lost
\* (handleDeleteBlob, FullRekey).
THEOREM ListedAreStored == Spec => []ListedPacksStored
<1>1. MadeInv => ListedPacksStored
  BY DEF MadeInv, ServerMade, Listed, ListedPacksStored
<1>. QED  BY <1>1, ContentsInvariant, PTL

\* A conflict means that the offer was not committed, and going on after a swap
\* that it was (casManifest, casRoster, and the 412 mapping of httpstore).
THEOREM AnswersAreTrue == Spec => []AnswersTrue
<1>1. MadeInv => AnswersTrue
  BY DEF MadeInv, AllOpsMade, OpMade, Unsent, AnswersTrue, At
<1>. QED  BY <1>1, ContentsInvariant, PTL

-----------------------------------------------------------------------------
(* Reports.  A run of publish-genesis goes on only with a keyfile that no  *)
(* other founder put, and as long as runs do not overlap nobody puts one   *)
(* meanwhile.                                                              *)

KeyfileNotOfOthers(c) == keyfile \notin Founders \ {c}

RunKeyfile ==
    \A c \in Clients : op[c].pc \in {"checkRoster", "genesis"} => KeyfileNotOfOthers(c)

\* A step that sends no answer leaves the keyfile, and enters such a run only
\* with the founder's own.
LEMMA StepRunKeyfile ==
    ASSUME IInv, MadeInv, RunKeyfile, [Next]_vars, ~overlapped'
    PROVE  RunKeyfile'
<1>0. /\ op \in [Clients -> Op] /\ Founders \subseteq Clients
      /\ \A c \in Clients : op[c] \in Op
      /\ \A c \in Clients : OpOK(c, op[c], net, Exists("roster"), keyfile)
  BY HttpStoreAssumption DEF IInv, Basic, TypeOK, AllOpsOK
<1>1. ASSUME NEW c \in Clients, NEW o, Become(c, o), keyfile' = keyfile,
             o.pc \in {"checkRoster", "genesis"} => KeyfileNotOfOthers(c)
      PROVE  RunKeyfile'
  BY <1>0, <1>1 DEF RunKeyfile, KeyfileNotOfOthers, Become
<1>2. ASSUME NEW f \in Founders, BeginPublish(f)  PROVE RunKeyfile'
  <2>. DEFINE b == [Idle EXCEPT !.kind = "genesis", !.run = runs + 1]
              q == PutKeyfile(f, f, runs + 1)
  <2>0. keyfile' = keyfile  BY <1>2 DEF BeginPublish, server
  <2>1. CASE Send(f, b, "keyfile", q)
    <3>1. [b EXCEPT !.pc = "keyfile", !.call = q].pc = "keyfile"  BY DEF Idle
    <3>. QED  BY <1>0, <1>1, <2>0, <2>1, <3>1 DEF Send
  <2>2. CASE keyfile = f /\ Become(f, Moves(b, "checkRoster"))
    <3>1. KeyfileNotOfOthers(f)  BY <2>2 DEF KeyfileNotOfOthers
    <3>. QED  BY <1>0, <1>1, <2>0, <2>2, <3>1
  <2>3. CASE Become(f, [Idle EXCEPT !.told = "refused"])
    <3>1. [Idle EXCEPT !.told = "refused"].pc = "idle"  BY DEF Idle
    <3>. QED  BY <1>0, <1>1, <2>0, <2>3, <3>1
  <2>. QED  BY <1>2, <2>1, <2>2, <2>3 DEF BeginPublish
<1>3. ASSUME NEW f \in Founders, CheckRoster(f)  PROVE RunKeyfile'
  <2>1. keyfile' = keyfile /\ KeyfileNotOfOthers(f) /\ f \in Clients
    BY <1>0, <1>3 DEF CheckRoster, server, RunKeyfile, At
  <2>2. \E o : Become(f, o)  BY <1>3 DEF CheckRoster, Send
  <2>. QED  BY <1>1, <2>1, <2>2
<1>4. ASSUME NEW c \in Clients, ClientStep(c)  PROVE RunKeyfile'
  <2>1. keyfile' = keyfile
    BY <1>4 DEF ClientStep, BeginChange, WrapKeyfile, BeginPush, ReadManifest,
                Publish, DeleteOld, GiveUp, server
  <2>2. UNCHANGED overlapped /\ UNCHANGED server
    BY <1>4 DEF ClientStep, BeginChange, WrapKeyfile, BeginPush, ReadManifest,
                Publish, DeleteOld, GiveUp, history
  <2>3. EngineAdds(c)  BY <1>4, <2>2, ClientAdds DEF IInv
  <2>4. PICK o : Become(c, o) /\ o.kind # "genesis"  BY <2>3 DEF EngineAdds
  <2>5. BasicNext  BY <1>4, ClientBasic DEF IInv
  <2>6. op'[c] = o  BY <1>0, <2>4 DEF Become
  <2>7. o.pc \notin GenesisPCs
    BY <2>4, <2>5, <2>6 DEF BasicNext, AllOpsOK, OpOK
  <2>. QED  BY <1>1, <2>1, <2>4, <2>7 DEF GenesisPCs
<1>5. CASE Handle
  <2>1. PICK m \in net : Handled(m)  BY <1>5 DEF Handle, Handled
  <2>. SUFFICES ASSUME NEW c \in Clients, op'[c].pc \in {"checkRoster", "genesis"}
       PROVE  keyfile' \notin Founders \ {c}
    BY DEF RunKeyfile, KeyfileNotOfOthers
  <2>2. /\ OneRun /\ RequestMade(m) /\ m # NoRequest /\ OpMade(op[c])
        /\ (op[c].call # NoRequest <=> op[c].pc \in Waiting)
        /\ OpOK(c, op[c], net, Exists("roster"), keyfile)
    BY <1>0, <2>1 DEF Handled, IInv, Basic, TypeOK, AllRequestsOK, RequestOK, NoRequest,
       MadeInv, AllRequestsMade, AllOpsMade, Waiting
  <2>3. op[c].kind = "genesis"
    <3>1. OpNext(c, op'[c]) /\ (op'[c].kind = "genesis" => op[c].kind = "genesis")
      BY <2>1, HandledOps DEF IInv
    <3>. QED  BY <3>1 DEF OpNext, OpOK, GenesisPCs
  <2>4. op[c].pc \in GenesisPCs  BY <2>2, <2>3 DEF OpOK
  <2>5. KeyfileChange(m)  BY <2>1, HandledChanges
  <2>6. CASE op[c].call # m
    <3>1. op'[c] = op[c]  BY <2>1, <2>6, HandledOps DEF IInv
    <3>2. KeyfileNotOfOthers(c)  BY <3>1 DEF RunKeyfile
    <3>3. CASE m.verb = "PutKeyfile" /\ keyfile' = m.item
      <4>1. m.run = 0  BY <2>1, <2>2, <2>3, <2>6 DEF OneRun, Publishing
      <4>. QED  BY <1>0, <2>2, <3>3, <4>1 DEF RequestMade
    <3>. QED  BY <2>5, <3>2, <3>3 DEF KeyfileChange, KeyfileNotOfOthers
  <2>7. CASE op[c].call = m
    <3>0. m.from = c  BY <2>2, <2>7 DEF OpOK
    <3>1. op[c].pc \in {"keyfile", "genesis"}
      BY <2>2, <2>4, <2>7 DEF GenesisPCs, Waiting
    <3>2. CASE op[c].pc = "genesis"
      <4>1. m.verb = "PutRoster"  BY <2>2, <2>7, <3>2 DEF OpMade, OpShape
      <4>2. KeyfileNotOfOthers(c)  BY <3>2 DEF RunKeyfile
      <4>. QED  BY <2>5, <4>1, <4>2 DEF KeyfileChange, KeyfileNotOfOthers
    <3>3. CASE op[c].pc = "keyfile"
      <4>1. m.verb = "PutKeyfile"  BY <2>2, <2>7, <3>3 DEF OpOK
      <4>2. PICK o : Reply(m, o) /\ AnswersMade(m, o)  BY <2>1, HandledMade
      <4>3. op'[c] = o  BY <1>0, <2>7, <3>0, <4>2 DEF Reply
      <4>4. o # Idle  BY <4>3 DEF Idle
      <4>5. keyfile' = m.item  BY <4>1, <4>2, <4>4 DEF AnswersMade
      <4>6. m.item \in Clients => m.item = c
        BY <2>2, <3>0, <4>1 DEF RequestMade
      <4>. QED  BY <1>0, <4>5, <4>6
    <3>. QED  BY <3>1, <3>2, <3>3
  <2>. QED  BY <2>6, <2>7
<1>6. CASE UNCHANGED vars
  BY <1>6 DEF vars, server, RunKeyfile, KeyfileNotOfOthers
<1>. QED  BY <1>2, <1>3, <1>4, <1>5, <1>6 DEF Next

RunInv == ~overlapped => RunKeyfile

\* Such a run goes on only with a keyfile of no other founder (publishGenesis).
LEMMA RunInvariant == Spec => []RunInv
<1>1. Init => RunInv
  BY DEF Init, RunInv, RunKeyfile, Idle
<1>2. IInv /\ MadeInv /\ RunInv /\ [Next]_vars => RunInv'
  <2>. SUFFICES ASSUME IInv, MadeInv, RunInv, [Next]_vars, ~overlapped'
       PROVE  RunKeyfile'
    BY DEF RunInv
  <2>1. ~overlapped
    BY DEF IInv, Basic, TypeOK, Next, BeginPublish, CheckRoster, ClientStep,
           BeginChange, WrapKeyfile, BeginPush, ReadManifest, Publish, DeleteOld,
           GiveUp, Handle, history, vars
  <2>. QED  BY <2>1, StepRunKeyfile DEF RunInv
<1>. QED  BY <1>1, <1>2, HttpStoreInvariant, ContentsInvariant, PTL DEF Spec

\* What a client reports is what the step of publish-genesis, or the answer to
\* its last request, lets it say.
ReportIsTrue(f) ==
    /\ op'[f].told = "published" =>
         /\ keyfile' # 0 /\ rows'["roster"].body # NoContent
         /\ {keyfile', rows'["roster"].body.id} \cap (Founders \ {f}) = {}
    /\ op'[f].told = "refused" =>
         committed \ {f} # {} \/ keyfile \in Founders \ {f}

LEMMA StepReports ==
    ASSUME IInv, MadeInv, RunInv, [Next]_vars, ~overlapped',
           NEW f \in Founders, op'[f] # op[f]
    PROVE  ReportIsTrue(f)
<1>0. /\ op \in [Clients -> Op] /\ f \in Clients /\ Founders \subseteq Clients
      /\ op[f] \in Op /\ OpMade(op[f]) /\ RowsOK /\ ServerMade
      /\ OpOK(f, op[f], net, Exists("roster"), keyfile)
      /\ (op[f].call # NoRequest <=> op[f].pc \in Waiting)
  BY HttpStoreAssumption
     DEF IInv, Basic, TypeOK, AllOpsOK, MadeInv, AllOpsMade, Waiting
<1>1. op'[f].told = "none" => ReportIsTrue(f)  BY DEF ReportIsTrue
<1>2. ASSUME NEW g \in Clients, NEW o, Become(g, o), o.told = "none"
      PROVE  ReportIsTrue(f)
  BY <1>0, <1>1, <1>2 DEF Become
<1>3. ASSUME NEW g \in Founders, BeginPublish(g)  PROVE ReportIsTrue(f)
  <2>. DEFINE b == [Idle EXCEPT !.kind = "genesis", !.run = runs + 1]
              q == PutKeyfile(g, g, runs + 1)
  <2>1. CASE Send(g, b, "keyfile", q)
    <3>1. [b EXCEPT !.pc = "keyfile", !.call = q].told = "none"  BY DEF Idle
    <3>. QED  BY <1>0, <1>2, <2>1, <3>1 DEF Send
  <2>2. CASE Become(g, Moves(b, "checkRoster"))
    <3>1. Moves(b, "checkRoster").told = "none"  BY DEF Idle, Moves
    <3>. QED  BY <1>0, <1>2, <2>2, <3>1
  <2>3. CASE keyfile \notin {0, g} /\ Become(g, [Idle EXCEPT !.told = "refused"])
    <3>1. g = f /\ op'[f].told = "refused"
      BY <1>0, <2>3 DEF Become, Idle
    <3>2. committed \ {f} # {} \/ keyfile \in Founders \ {f}
      BY <1>0, <2>3, <3>1 DEF ServerMade
    <3>. QED  BY <3>1, <3>2 DEF ReportIsTrue
  <2>. QED  BY <1>3, <2>1, <2>2, <2>3 DEF BeginPublish
<1>4. ASSUME NEW g \in Founders, CheckRoster(g)  PROVE ReportIsTrue(f)
  <2>0. g = f /\ op[f].pc = "checkRoster" /\ UNCHANGED server /\ ~overlapped
    <3>1. \E o : Become(g, o)  BY <1>4 DEF CheckRoster, Send
    <3>. QED  BY <1>0, <1>4, <3>1 DEF CheckRoster, At, Become, history
  <2>1. CASE Send(f, op[f], "genesis", CASRoster(f, 0, Genesis(f), 0, op[f].run))
    <3>1. op'[f].told = op[f].told  BY <1>0, <2>1 DEF Send, Become, Op
    <3>2. op[f].told = "none"  BY <1>0, <2>0 DEF OpMade, OpShape
    <3>. QED  BY <1>1, <3>1, <3>2
  <2>2. CASE /\ rows["roster"] = [version |-> 0, body |-> Genesis(f)]
             /\ Become(f, [Idle EXCEPT !.told = "published"])
    <3>1. op'[f].told = "published"  BY <1>0, <2>2 DEF Become, Idle
    <3>2. Genesis(f).id = f /\ Genesis(f) # NoContent
      BY HttpStoreAssumption, <1>0 DEF Genesis, NoContent, Clients
    <3>3. keyfile # 0 /\ KeyfileNotOfOthers(f)
      BY <1>0, <2>0, <2>2, <3>2 DEF RowsOK, Exists, RunInv, RunKeyfile
    <3>. QED
      BY <2>0, <2>2, <3>1, <3>2, <3>3 DEF ReportIsTrue, server, KeyfileNotOfOthers
  <2>3. CASE /\ Exists("roster")
             /\ rows["roster"] # [version |-> 0, body |-> Genesis(f)]
             /\ Become(f, [Idle EXCEPT !.told = "refused"])
    <3>1. op'[f].told = "refused"  BY <1>0, <2>3 DEF Become, Idle
    <3>2. rows["roster"].body.id \in committed  BY <1>0, <2>3 DEF ServerMade
    <3>3. rows["roster"].body.id # f
      <4>. SUFFICES ASSUME rows["roster"].body.id = f  PROVE FALSE  OBVIOUS
      <4>1. rows["roster"].body = Genesis(f)  BY <1>0, <2>3 DEF ServerMade
      <4>2. rows["roster"].version = 0
        BY <1>0, <4>1 DEF RowsOK, Pointers, Genesis, NoContent
      <4>3. rows["roster"] \in Row
        BY DEF IInv, Basic, TypeOK, Pointers
      <4>. QED  BY <2>3, <4>1, <4>2, <4>3 DEF Row
    <3>. QED  BY <3>1, <3>2, <3>3 DEF ReportIsTrue
  <2>. QED  BY <1>4, <2>0, <2>1, <2>2, <2>3 DEF CheckRoster
<1>5. ASSUME NEW c \in Clients, ClientStep(c)  PROVE ReportIsTrue(f)
  <2>0. /\ op[c] \in Op /\ op[c].row \in Row /\ op[c].row.body \in Content
        /\ op[c].pc # "idle" => op[c].told = "none"
    BY DEF IInv, Basic, TypeOK, Op, Row, MadeInv, AllOpsMade, OpMade, OpShape
  <2>1. CASE BeginChange(c)
    <3>. DEFINE b == [Idle EXCEPT !.kind = "change", !.row = rows["roster"],
                                  !.made = Successor(rows["roster"], {})]
                q == CASRoster(c, rows["roster"].version, Successor(rows["roster"], {}),
                               rows["roster"].version + 1, 0)
    <3>1. [b EXCEPT !.pc = "change", !.call = q].told = "none"  BY DEF Idle
    <3>2. Become(c, [b EXCEPT !.pc = "change", !.call = q])
      BY <2>1 DEF BeginChange, Send
    <3>. QED  BY <1>2, <3>1, <3>2
  <2>2. ASSUME NEW pc, NEW q, Become(c, [op[c] EXCEPT !.pc = pc, !.call = q]),
               op[c].pc # "idle"
        PROVE  ReportIsTrue(f)
    <3>1. [op[c] EXCEPT !.pc = pc, !.call = q].told = "none"  BY <2>0, <2>2 DEF Op
    <3>. QED  BY <1>2, <2>2, <3>1
  <2>3. CASE WrapKeyfile(c) \/ Publish(c)
    BY <2>2, <2>3 DEF WrapKeyfile, Publish, Send, At
  <2>4. CASE BeginPush(c)
    <3>1. PICK k \in {"push", "rekey"} : Become(c, [Idle EXCEPT !.kind = k, !.pc = "read"])
      BY <2>4 DEF BeginPush
    <3>2. [Idle EXCEPT !.kind = k, !.pc = "read"].told = "none"  BY DEF Idle
    <3>. QED  BY <1>2, <3>1, <3>2
  <2>5. CASE ReadManifest(c)
    <3>1. PICK row, made, q :
             Become(c, [[op[c] EXCEPT !.row = row, !.made = made]
                          EXCEPT !.pc = "blob", !.call = q])
      BY <2>5 DEF ReadManifest, Send
    <3>2. [[op[c] EXCEPT !.row = row, !.made = made]
             EXCEPT !.pc = "blob", !.call = q].told = "none"
      BY <2>0, <2>5 DEF Op, ReadManifest, At
    <3>. QED  BY <1>2, <3>1, <3>2
  <2>6. Idle.told = "none"  BY DEF Idle
  <2>7. CASE DeleteOld(c)
    <3>1. CASE Become(c, Idle)  BY <1>2, <2>6, <3>1
    <3>2. ASSUME NEW p \in op[c].row.body.packs,
                 Send(c, [op[c] EXCEPT !.row.body.packs = @ \ {p}],
                      "deleting", DeleteBlob(c, p))
          PROVE  ReportIsTrue(f)
      <4>. DEFINE b == [op[c] EXCEPT !.row.body.packs = @ \ {p}]
      <4>1. [b EXCEPT !.pc = "deleting", !.call = DeleteBlob(c, p)].told = "none"
        BY <2>0, <2>7 DEF Op, DeleteOld, At
      <4>. QED  BY <1>2, <3>2, <4>1 DEF Send
    <3>. QED  BY <2>7, <3>1, <3>2 DEF DeleteOld
  <2>8. CASE GiveUp(c)  BY <1>2, <2>6, <2>8 DEF GiveUp
  <2>. QED  BY <1>5, <2>1, <2>3, <2>4, <2>5, <2>7, <2>8 DEF ClientStep
<1>6. ASSUME NEW m \in net, Handled(m)  PROVE ReportIsTrue(f)
  <2>1. op[f].call = m  BY <1>0, <1>6, HandledOps DEF IInv
  <2>2. /\ RequestOK(m, Exists("roster"), keyfile) /\ RequestMade(m)
        /\ m # NoRequest /\ ~overlapped
    BY <1>6 DEF IInv, Basic, AllRequestsOK, RequestOK, NoRequest, MadeInv,
                AllRequestsMade, Handled
  <2>3. m.from = f /\ op[f].pc \in Waiting /\ op[f].told = "none"
    BY <1>0, <2>1, <2>2 DEF OpOK, OpMade, OpShape, Waiting
  <2>4. PICK o : Reply(m, o) /\ AnswersMade(m, o)  BY <1>6, HandledMade
  <2>5. op'[f] = o  BY <1>0, <2>1, <2>3, <2>4 DEF Reply
  <2>6. CASE o.told = "none"  BY <1>1, <2>5, <2>6
  <2>7. Idle.told = "none"  BY DEF Idle
  <2>8. \A pc : Moves(op[f], pc).told = "none"  BY <1>0, <2>3 DEF Moves, Op
  <2>9. [Moves(op[f], "read") EXCEPT !.tries = @ + 1].told = "none"
    BY <1>0, <2>3 DEF Moves, Op
  <2>10. CASE o = AfterConflict(op[f])
    BY <2>6, <2>7, <2>9, <2>10 DEF AfterConflict
  <2>11. CASE /\ o = AfterOK(op[f])
              /\ m.verb = "PutRoster" => RosterSwapped(m)
    <3>1. CASE op[f].pc = "genesis" /\ o = [Idle EXCEPT !.told = "published"]
      <4>1. m.verb = "PutRoster" /\ m.run # 0
        BY <1>0, <2>1, <3>1 DEF OpMade, OpShape
      <4>2. RosterSwapped(m) /\ m.body = Genesis(f) /\ keyfile # 0 /\ f # 0
        BY <1>0, <2>2, <2>3, <2>11, <4>1, HttpStoreAssumption
           DEF RequestMade, RequestOK, Clients
      <4>3. rows'["roster"].body = Genesis(f) /\ keyfile' = keyfile
        BY <4>2, RequestTypes DEF RosterSwapped, IInv, Basic, TypeOK, Pointers
      <4>4. Genesis(f).id = f /\ Genesis(f) # NoContent
        BY <4>2 DEF Genesis, NoContent
      <4>5. KeyfileNotOfOthers(f)  BY <1>0, <2>2, <3>1 DEF RunInv, RunKeyfile
      <4>6. op'[f].told = "published"  BY <2>5, <3>1 DEF Idle
      <4>. QED
        BY <4>2, <4>3, <4>4, <4>5, <4>6 DEF ReportIsTrue, KeyfileNotOfOthers
    <3>. QED  BY <2>6, <2>7, <2>8, <2>11, <3>1 DEF AfterOK
  <2>. QED
    BY <2>3, <2>4, <2>6, <2>7, <2>10, <2>11 DEF AnswersMade
<1>7. ~UNCHANGED vars  BY DEF vars
<1>8. Handle => \E m \in net : Handled(m)  BY DEF Handle, Handled
<1>. QED  BY <1>3, <1>4, <1>5, <1>6, <1>7, <1>8 DEF Next

\* What publish-genesis reports is so, however its run was cut off before and
\* whatever changed since (publishGenesis).
THEOREM ReportsAreTrue == Spec => ReportsTrue
<1>1. IInv /\ MadeInv /\ RunInv /\ [Next]_vars =>
        [\A f \in Founders : (~overlapped' /\ op'[f] # op[f]) => ReportIsTrue(f)]_vars
  BY StepReports
<1>2. [\A f \in Founders : (~overlapped' /\ op'[f] # op[f]) => ReportIsTrue(f)]_vars =>
      [\A f \in Founders : (~overlapped' /\ op'[f] # op[f]) =>
          /\ op'[f].told = "published" =>
                /\ keyfile' # 0 /\ rows'["roster"].body # NoContent
                /\ {keyfile', rows'["roster"].body.id} \cap (Founders \ {f}) = {}
          /\ op'[f].told = "refused" =>
                committed \ {f} # {} \/ keyfile \in Founders \ {f}]_vars
  BY DEF ReportIsTrue
<1>. QED
  BY <1>1, <1>2, HttpStoreInvariant, ContentsInvariant, RunInvariant, PTL
     DEF Spec, ReportsTrue
=============================================================================
