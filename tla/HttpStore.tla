----------------------------- MODULE HttpStore -----------------------------
(***************************************************************************)
(* One repo on the server, as clients reach it over HTTP: the client side  *)
(* (internal/store/httpstore), the data endpoints (internal/server), and   *)
(* publish-genesis (cmd/encgit), which provisions the repo.                *)
(*                                                                         *)
(* A read is one statement or one file, so it is a step of its client.  A  *)
(* write is a request in flight: the server handles it at some later time, *)
(* also when the client that sent it is gone, since no handler looks at    *)
(* the request's context.  Authorization is the module Accounts; here      *)
(* every request is admitted or fails without effect.                      *)
(*                                                                         *)
(* Contents are numbered.  The genesis roster and keyfile of founder f     *)
(* have the number f; a later keyfile has the number of the roster it was  *)
(* wrapped for, and a pack the number of the manifest it was made for.     *)
(***************************************************************************)
EXTENDS Naturals

CONSTANTS
    NClients,    \* programs that talk to the server
    Founders,    \* those that hold a genesis of their own for this repo
    MaxWrites,   \* bound: rosters and manifests made after the geneses
    MaxRuns,     \* bound: runs of publish-genesis
    MaxRetries   \* maxPushRetries of the engine

Clients == 1 .. NClients

ASSUME HttpStoreAssumption ==
    /\ NClients \in Nat
    /\ Founders \subseteq Clients
    /\ MaxWrites \in Nat
    /\ MaxRuns \in Nat
    /\ MaxRetries \in Nat \ {0}

VARIABLES
    rows,       \* server: version and content of manifest_state, roster_state
    keyfile,    \* server: the keyfile (0: none)
    blobs,      \* server: packs
    net,        \* requests sent and not handled
    op,         \* client: what it is doing, and the request it waits for
    lastId,     \* newest content made
    runs,       \* runs of publish-genesis so far
    committed,  \* history: contents that ever were in a row
    overlapped  \* history: a publish-genesis began while a request or a run
                \* of another one was under way

server  == <<rows, keyfile, blobs>>
history == <<committed, overlapped>>
vars == <<server, net, op, lastId, runs, history>>

-----------------------------------------------------------------------------
(* Data *)

Pointers == {"manifest", "roster"}
Content == [id : Nat, version : Nat, prev : Nat, packs : SUBSET Nat]
NoContent == [id |-> 0, version |-> 0, prev |-> 0, packs |-> {}]
Genesis(f) == [NoContent EXCEPT !.id = f]

\* An absent row reads as version 0.
Row == [version : Nat, body : Content]
NoRow == [version |-> 0, body |-> NoContent]
Exists(k) == rows[k].body # NoContent

\* expect is the If-Match header, next the Encgit-New-Version header; run is
\* not 0 when publish-genesis sent the request.
Verbs == {"none", "PutManifest", "PutRoster", "PutKeyfile", "PutBlob", "DeleteBlob"}
Request == [from : Clients, verb : Verbs, body : Content, expect : Nat,
            next : Nat, item : Nat, run : Nat]
NoRequest == [from |-> 1, verb |-> "none", body |-> NoContent, expect |-> 0,
              next |-> 0, item |-> 0, run |-> 0]

PCs == {"idle", "keyfile", "checkRoster", "genesis",
        "change", "wrap", "wrapping",
        "read", "blob", "publish", "publishing", "delete", "deleting"}
Kinds == {"none", "genesis", "change", "push", "rekey"}
Outcomes == {"none", "published", "refused"}

\* told is what the last publish-genesis of this client reported.
Op == [pc : PCs, kind : Kinds, row : Row, made : Content,
       call : Request, tries : Nat, run : Nat, told : Outcomes]
Idle == [pc |-> "idle", kind |-> "none", row |-> NoRow, made |-> NoContent,
         call |-> NoRequest, tries |-> 0, run |-> 0, told |-> "none"]

At(c, pc) == op[c].pc = pc
Become(c, o) == op' = [op EXCEPT ![c] = o]

\* Bug variant: the request that was answered stays the one waited for.
MovesKeepsCall(o, pc) == [o EXCEPT !.pc = pc]

Moves(o, pc) == [o EXCEPT !.pc = pc, !.call = NoRequest]

Init ==
    /\ rows = [k \in Pointers |-> NoRow]
    /\ keyfile = 0
    /\ blobs = {}
    /\ net = {}
    /\ op = [c \in Clients |-> Idle]
    /\ lastId = NClients
    /\ runs = 0
    /\ committed = {}
    /\ overlapped = FALSE

-----------------------------------------------------------------------------
(* The client side: requests                                               *)

CASManifest(c, made, expect) ==
    [NoRequest EXCEPT !.from = c, !.verb = "PutManifest", !.body = made,
                      !.expect = expect]

CASRoster(c, expect, made, next, run) ==
    [NoRequest EXCEPT !.from = c, !.verb = "PutRoster", !.body = made,
                      !.expect = expect, !.next = next, !.run = run]

PutKeyfile(c, id, run) ==
    [NoRequest EXCEPT !.from = c, !.verb = "PutKeyfile", !.item = id, !.run = run]

PutBlob(c, id) ==
    [NoRequest EXCEPT !.from = c, !.verb = "PutBlob", !.item = id]

DeleteBlob(c, id) ==
    [NoRequest EXCEPT !.from = c, !.verb = "DeleteBlob", !.item = id]

Send(c, o, pc, request) ==
    /\ net' = net \cup {request}
    /\ Become(c, [o EXCEPT !.pc = pc, !.call = request])

\* Bug variant: an error of the transport counts as a conflict.
GiveUpAsConflict(c) ==
    /\ op[c].pc # "idle"
    /\ Become(c, IF op[c].kind = "push" THEN Moves(op[c], "read") ELSE Idle)
    /\ UNCHANGED <<server, net, lastId, runs, history>>

\* The process is killed, or its connection breaks: the request stays behind.
GiveUp(c) ==
    /\ op[c].pc # "idle"
    /\ Become(c, Idle)
    /\ UNCHANGED <<server, net, lastId, runs, history>>

-----------------------------------------------------------------------------
(* publishGenesis                                                          *)

Publishing(f) == op[f].kind = "genesis"

\* Bug variant: the keyfile is put whatever is there.
BeginPublishUnchecked(f) ==
    /\ At(f, "idle")
    /\ runs < MaxRuns
    /\ runs' = runs + 1
    /\ overlapped' = (overlapped \/ (\E g \in Founders : Publishing(g))
                                 \/ (\E m \in net : m.run # 0))
    /\ Send(f, [Idle EXCEPT !.kind = "genesis", !.run = runs + 1], "keyfile",
            PutKeyfile(f, f, runs + 1))
    /\ UNCHANGED <<server, lastId, committed>>

\* GetKeyfile: absent, the same, or another one.
BeginPublish(f) ==
    LET o == [Idle EXCEPT !.kind = "genesis", !.run = runs + 1]
    IN  /\ At(f, "idle")
        /\ runs < MaxRuns
        /\ runs' = runs + 1
        /\ overlapped' = (overlapped \/ (\E g \in Founders : Publishing(g))
                                     \/ (\E m \in net : m.run # 0))
        /\ \/ /\ keyfile = 0
              /\ Send(f, o, "keyfile", PutKeyfile(f, f, runs + 1))
           \/ /\ keyfile = f
              /\ Become(f, Moves(o, "checkRoster"))
              /\ UNCHANGED net
           \/ /\ keyfile \notin {0, f}
              /\ Become(f, [Idle EXCEPT !.told = "refused"])
              /\ UNCHANGED net
        /\ UNCHANGED <<server, lastId, committed>>

\* Bug variant: version 0 is taken for a genesis that is there.
CheckRosterByVersion(f) ==
    /\ At(f, "checkRoster")
    /\ Become(f, [Idle EXCEPT !.told = IF rows["roster"].version = 0
                                       THEN "published" ELSE "refused"])
    /\ UNCHANGED <<server, net, lastId, runs, history>>

\* GetRoster: absent, the same at version 0, or another one.
CheckRoster(f) ==
    /\ At(f, "checkRoster")
    /\ \/ /\ ~Exists("roster")
          /\ Send(f, op[f], "genesis", CASRoster(f, 0, Genesis(f), 0, op[f].run))
       \/ /\ rows["roster"] = [version |-> 0, body |-> Genesis(f)]
          /\ Become(f, [Idle EXCEPT !.told = "published"])
          /\ UNCHANGED net
       \/ /\ Exists("roster")
          /\ rows["roster"] # [version |-> 0, body |-> Genesis(f)]
          /\ Become(f, [Idle EXCEPT !.told = "refused"])
          /\ UNCHANGED net
    /\ UNCHANGED <<server, lastId, runs, history>>

-----------------------------------------------------------------------------
(* What the engine does with this store: a roster change with the keyfile  *)
(* that follows it, a push with its bounded retry, a full rekey that       *)
(* deletes the packs it replaced.                                          *)

\* The content that follows row r.
Successor(r, packs) == [id |-> lastId + 1, version |-> r.version + 1,
                        prev |-> r.body.id, packs |-> packs]

BeginChange(c) ==
    LET r == rows["roster"]
        made == Successor(r, {})
    IN  /\ At(c, "idle")
        /\ Exists("roster")
        /\ lastId < NClients + MaxWrites
        /\ lastId' = lastId + 1
        /\ Send(c, [Idle EXCEPT !.kind = "change", !.row = r, !.made = made],
                "change", CASRoster(c, r.version, made, r.version + 1, 0))
        /\ UNCHANGED <<server, runs, history>>

WrapKeyfile(c) ==
    /\ At(c, "wrap")
    /\ Send(c, op[c], "wrapping", PutKeyfile(c, op[c].made.id, 0))
    /\ UNCHANGED <<server, lastId, runs, history>>

BeginPush(c) ==
    \E k \in {"push", "rekey"} :
        /\ At(c, "idle")
        /\ Exists("roster")
        /\ Become(c, [Idle EXCEPT !.kind = k, !.pc = "read"])
        /\ UNCHANGED <<server, net, lastId, runs, history>>

\* GetManifest; the pack of the new manifest goes up first.
ReadManifest(c) ==
    LET r == rows["manifest"]
        id == lastId + 1
        kept == IF op[c].kind = "rekey" THEN {} ELSE r.body.packs
    IN  /\ At(c, "read")
        /\ lastId < NClients + MaxWrites
        /\ lastId' = id
        /\ Send(c, [op[c] EXCEPT !.row = r, !.made = Successor(r, kept \cup {id})],
                "blob", PutBlob(c, id))
        /\ UNCHANGED <<server, runs, history>>

Publish(c) ==
    /\ At(c, "publish")
    /\ Send(c, op[c], "publishing",
            CASManifest(c, op[c].made, op[c].row.version))
    /\ UNCHANGED <<server, lastId, runs, history>>

DeleteOld(c) ==
    /\ At(c, "delete")
    /\ \/ \E p \in op[c].row.body.packs :
             Send(c, [op[c] EXCEPT !.row.body.packs = @ \ {p}],
                  "deleting", DeleteBlob(c, p))
       \/ /\ op[c].row.body.packs = {}
          /\ Become(c, Idle)
          /\ UNCHANGED net
    /\ UNCHANGED <<server, lastId, runs, history>>

-----------------------------------------------------------------------------
(* The client side: answers.  A 2xx goes on, a 412 is ErrVersionConflict,  *)
(* which only the push retries, and everything else ends the operation.    *)

AfterOK(o) ==
    CASE o.pc = "keyfile"  -> Moves(o, "checkRoster")
      [] o.pc = "genesis"  -> [Idle EXCEPT !.told = "published"]
      [] o.pc = "change"   -> Moves(o, "wrap")
      [] o.pc = "blob"     -> Moves(o, "publish")
      [] o.pc = "publishing" -> IF o.kind = "rekey" THEN Moves(o, "delete")
                                                    ELSE Idle
      [] o.pc = "deleting" -> Moves(o, "delete")
      [] OTHER -> Idle

\* Bug variant: a rekey that was beaten goes on to delete.
AfterConflictDeletes(o) ==
    IF o.kind = "push" /\ o.tries + 1 < MaxRetries
    THEN [Moves(o, "read") EXCEPT !.tries = @ + 1]
    ELSE IF o.kind = "rekey" THEN Moves(o, "delete") ELSE Idle

AfterConflict(o) ==
    IF o.kind = "push" /\ o.tries + 1 < MaxRetries
    THEN [Moves(o, "read") EXCEPT !.tries = @ + 1]
    ELSE Idle

\* The answer to request m reaches its sender if that still waits for it.
Reply(m, o) == op' = IF op[m.from].call = m THEN [op EXCEPT ![m.from] = o] ELSE op
OK(m)       == Reply(m, AfterOK(op[m.from]))
Conflict(m) == Reply(m, AfterConflict(op[m.from]))

-----------------------------------------------------------------------------
(* The server side                                                         *)

\* One row, replaced in one transaction.
Store(k, v, body) ==
    /\ rows' = [rows EXCEPT ![k] = [version |-> v, body |-> body]]
    /\ committed' = committed \cup {body.id}

casManifest(m) ==
    /\ rows["manifest"].version = m.expect
    /\ Store("manifest", m.expect + 1, m.body)

\* Bug variant: no comparison with the stored version.
casRosterUnguarded(m) == m.verb = "PutRoster" /\ Store("roster", m.next, m.body)

casRoster(m) ==
    /\ rows["roster"].version = m.expect
    /\ Store("roster", m.next, m.body)

HandlePutManifest(m) ==
    /\ m.verb = "PutManifest"
    /\ \/ /\ casManifest(m)
          /\ OK(m)
       \/ /\ rows["manifest"].version # m.expect
          /\ Conflict(m)
          /\ UNCHANGED <<rows, committed>>
    /\ UNCHANGED <<keyfile, blobs>>

HandlePutRoster(m) ==
    /\ m.verb = "PutRoster"
    /\ \/ /\ casRoster(m)
          /\ OK(m)
       \/ /\ rows["roster"].version # m.expect
          /\ Conflict(m)
          /\ UNCHANGED <<rows, committed>>
    /\ UNCHANGED <<keyfile, blobs>>

HandlePutKeyfile(m) ==
    /\ m.verb = "PutKeyfile"
    /\ keyfile' = m.item
    /\ OK(m)
    /\ UNCHANGED <<rows, blobs, committed>>

HandlePutBlob(m) ==
    /\ m.verb = "PutBlob"
    /\ blobs' = blobs \cup {m.item}
    /\ OK(m)
    /\ UNCHANGED <<rows, keyfile, committed>>

HandleDeleteBlob(m) ==
    /\ m.verb = "DeleteBlob"
    /\ blobs' = blobs \ {m.item}
    /\ OK(m)
    /\ UNCHANGED <<rows, keyfile, committed>>

\* The request is lost on its way, or refused, or the server fails before its
\* effect: the sender gets an error that is no conflict.
Fails(m) ==
    /\ Reply(m, Idle)
    /\ UNCHANGED <<server, committed>>

Handle ==
    \E m \in net :
        /\ net' = net \ {m}
        /\ \/ HandlePutManifest(m) \/ HandlePutRoster(m) \/ HandlePutKeyfile(m)
           \/ HandlePutBlob(m) \/ HandleDeleteBlob(m) \/ Fails(m)
        /\ UNCHANGED <<lastId, runs, overlapped>>

-----------------------------------------------------------------------------
ClientStep(c) ==
    \/ BeginChange(c) \/ WrapKeyfile(c)
    \/ BeginPush(c) \/ ReadManifest(c) \/ Publish(c) \/ DeleteOld(c)
    \/ GiveUp(c)

Next ==
    \/ \E f \in Founders : BeginPublish(f) \/ CheckRoster(f)
    \/ \E c \in Clients : ClientStep(c)
    \/ Handle

Spec == Init /\ [][Next]_vars

-----------------------------------------------------------------------------
(* Properties                                                              *)

\* The type of every variable; a client waits for a request exactly while it
\* is in a call (do).
TypeOK ==
    /\ rows \in [Pointers -> Row]
    /\ keyfile \in Nat
    /\ blobs \in SUBSET Nat
    /\ net \in SUBSET Request
    /\ op \in [Clients -> Op]
    /\ lastId \in Nat
    /\ runs \in Nat
    /\ committed \in SUBSET Nat
    /\ overlapped \in BOOLEAN
    /\ \A c \in Clients :
         op[c].call # NoRequest <=> op[c].pc \in
             {"keyfile", "genesis", "change", "wrapping",
              "blob", "publishing", "deleting"}

Promised == INSTANCE PointerStore
                WITH Contents <- Content, First <- [k \in Pointers |-> NoContent],
                     head <- [k \in Pointers |-> rows[k].body]

\* From the genesis on, the rows of the server behave as the pointers of the
\* store interface, whichever requests are lost, late, or repeated by a new run
\* (casManifest, casRoster).
RowsFollowPointers ==
    [][(~overlapped' /\ Exists("roster")) => (Promised!Next \/ UNCHANGED rows)]_vars

\* A pack that the current manifest lists is on the server: a rekey deletes only
\* after its swap was confirmed, and no late request takes a listed pack away
\* (handleDeleteBlob, FullRekey).
ListedPacksStored == rows["manifest"].body.packs \subseteq blobs

\* "it never blindly overwrites an existing remote genesis" (transport.go): a
\* run that began with no other run or request of one under way replaces no
\* keyfile and no roster, however late its own requests are handled.
NoClobber ==
    [][\A m \in net \ net' : (~overlapped /\ m.run # 0) =>
          /\ keyfile \in {0, keyfile'}
          /\ Exists("roster") => rows' = rows]_vars

\* What publish-genesis reports is so (same runs): after a success keyfile and
\* roster are both there, and neither is another founder's; a refusal comes from
\* another founder's genesis or from a later roster, never from what an earlier
\* run of its own left half done.
ReportsTrue ==
    [][\A f \in Founders : (~overlapped' /\ op'[f] # op[f]) =>
          /\ op'[f].told = "published" =>
                /\ keyfile' # 0 /\ rows'["roster"].body # NoContent
                /\ {keyfile', rows'["roster"].body.id} \cap (Founders \ {f}) = {}
          /\ op'[f].told = "refused" =>
                committed \ {f} # {} \/ keyfile \in Founders \ {f}]_vars

\* A client that was told of a conflict did not commit what it offered, and one
\* that goes on after a swap did: the 412 mapping tells them apart, and a lost
\* answer is neither.
AnswersTrue ==
    \A c \in Clients :
        /\ At(c, "read") => op[c].made.id \notin committed \ {0}
        /\ op[c].pc \in {"wrap", "wrapping", "delete", "deleting"} =>
               op[c].made.id \in committed
=============================================================================
