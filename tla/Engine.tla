------------------------------- MODULE Engine -------------------------------
(***************************************************************************)
(* The push/fetch/membership engine of internal/helper, run by several     *)
(* clients against one store.                                              *)
(*                                                                         *)
(* The store (internal/store, over HTTP or localfs) answers one call at a  *)
(* time; a client interleaves with the others between two of its calls,    *)
(* so every call that reads or changes the store is an action.  What a     *)
(* client computes between two calls belongs to the call before it.        *)
(*                                                                         *)
(* Hashes.  Every committed manifest is an element of mlog, and its        *)
(* manifest_hash is its position there (0: no manifest).  A roster carries *)
(* its hash as the field id (0: none), allocated when the roster is built, *)
(* because FullRekey publishes a manifest bound to a roster that is not    *)
(* committed yet.  A repo key is named by the id of the roster whose       *)
(* construction generated it.  A pack is what its ciphertext determines:   *)
(* the commits inside and the key it is sealed under.                      *)
(*                                                                         *)
(* Commits are opaque and independent: git's object graph is reduced to    *)
(* "the objects of this commit".                                           *)
(***************************************************************************)
EXTENDS Naturals, Sequences, FiniteSets

CONSTANTS
    Clients,         \* identities, each with one clone and one state file
    Joined,          \* the founder, then the members added before we start
    Refs,            \* branch names
    MaxPushRetries,  \* maxPushRetries of engine.go
    Budget,          \* bound: operations of each kind that may start
    CrashesAllowed   \* whether a client process may die inside an operation

Kinds == {"commit", "push", "fetch", "add", "remove", "rekey"}

ASSUME EngineAssumption ==
    /\ Joined \in Seq(Clients)
    /\ Len(Joined) > 0
    /\ MaxPushRetries \in Nat \ {0}
    /\ Budget \in [Kinds -> Nat]
    /\ CrashesAllowed \in BOOLEAN

VARIABLES
    rlog,     \* store: every roster the roster pointer ever held, newest last
    mlog,     \* store: every manifest the manifest pointer ever held
    keyfile,  \* store: generation, repo key, and whom it is wrapped to
    blobs,    \* store: pack blobs present
    pinR,     \* client: TrustedRoster of the state file (NoRoster: unpinned)
    pinM,     \* client: ManifestHash of the state file (0: none)
    keys,     \* client: RepoKeys of the state file
    got,      \* client: ImportedPacks of the state file
    local,    \* client: commits whose objects are in the git object store
    refs,     \* client: local branch heads (0: no such branch)
    op,       \* client: the operation in progress, lost in a crash
    lastId,   \* newest roster id handed out
    budget    \* operations of each kind that may still start

storeVars == <<rlog, mlog, keyfile, blobs>>
stateFile == <<pinR, pinM, keys, got>>
gitVars   == <<local, refs>>
vars == <<storeVars, stateFile, gitVars, op, lastId, budget>>

-----------------------------------------------------------------------------
(* Data *)

Commits == 0 .. Budget["commit"]         \* 0 stands for "no commit"
NoRefs  == [r \in Refs |-> 0]
Pack    == [data : SUBSET Commits, key : Nat]

Roster == [id : Nat, version : Nat, prev : Nat, members : SUBSET Clients,
           author : Clients, gen : Nat, key : Nat]

Manifest == [version : Nat, prev : Nat, refs : [Refs -> Commits],
             packs : SUBSET Pack, signer : Clients, roster : Nat, key : Nat]

Founder  == Joined[1]
NoRoster == [id |-> 0, version |-> 0, prev |-> 0, members |-> {},
             author |-> Founder, gen |-> 0, key |-> 0]

PCs == {"idle", "roster", "read", "objects", "import", "repack", "cas",
        "keyfile", "casRoster", "delete", "save"}

\* One client's operation: the variables of Engine and of the running method.
Op == [pc : PCs, kind : Kinds \cup {"none"},
       arg : Clients,                 \* whom to add or remove
       want : [Refs -> Commits],      \* wantRefs
       key : Nat, gen : Nat,          \* e.repoKey, e.kfGeneration
       trusted : Roster,              \* the roster loadTrustedRoster returned
       next : Roster,                 \* newR (trusted itself for push and fetch)
       cur : Nat,                     \* version and hash of loadCurrent's manifest
       packs : SUBSET Pack,           \* packs of the manifest to publish
       imp : SUBSET Pack,             \* st.ImportedPacks, not saved yet
       wrote : Nat,                   \* manifest to pin at the end (0: none)
       tries : Nat]                   \* conflicts met so far

Idle == [pc |-> "idle", kind |-> "none", arg |-> Founder, want |-> NoRefs,
         key |-> 0, gen |-> 0, trusted |-> NoRoster, next |-> NoRoster,
         cur |-> 0, packs |-> {}, imp |-> {}, wrote |-> 0, tries |-> 0]

RosterHead == rlog[Len(rlog)]
RefsAt(n)  == IF n = 0 THEN NoRefs ELSE mlog[n].refs
PacksAt(n) == IF n = 0 THEN {} ELSE mlog[n].packs
Tips(f)    == {f[r] : r \in Refs} \ {0}
DataOf(ps) == UNION {p.data : p \in ps}

Finish(c)   == op' = [op EXCEPT ![c] = Idle]
Become(c, o) == op' = [op EXCEPT ![c] = o]

-----------------------------------------------------------------------------
(* The repository after Init and one AddMember per later name in Joined,   *)
(* before the first push; only the founder has run the client.             *)

Init ==
    LET n == Len(Joined)
        Upto(i) == {Joined[j] : j \in 1 .. i}
        genesis(i) == [id |-> i, version |-> i - 1, prev |-> i - 1,
                       members |-> Upto(i), author |-> Founder,
                       gen |-> 1, key |-> 1]
    IN  /\ rlog = [i \in 1 .. n |-> genesis(i)]
        /\ mlog = << >>
        /\ keyfile = [gen |-> 1, key |-> 1, to |-> Upto(n)]
        /\ blobs = {}
        /\ pinR = [c \in Clients |->
                     IF c = Founder /\ n > 1 THEN genesis(n) ELSE NoRoster]
        /\ pinM = [c \in Clients |-> 0]
        /\ keys = [c \in Clients |-> IF c = Founder /\ n > 1 THEN {1} ELSE {}]
        /\ got = [c \in Clients |-> {}]
        /\ local = [c \in Clients |-> {}]
        /\ refs = [c \in Clients |-> NoRefs]
        /\ op = [c \in Clients |-> Idle]
        /\ lastId = n
        /\ budget = Budget

-----------------------------------------------------------------------------
(* git commit, outside the engine: a new commit on branch r.               *)

Commit(c, r) ==
    LET new == Budget["commit"] - budget["commit"] + 1
    IN  /\ op[c].pc = "idle"
        /\ budget["commit"] > 0
        /\ budget' = [budget EXCEPT !["commit"] = @ - 1]
        /\ local' = [local EXCEPT ![c] = @ \cup {new}]
        /\ refs' = [refs EXCEPT ![c][r] = new]
        /\ UNCHANGED <<storeVars, stateFile, op, lastId>>

(* refreshPackKeys, the first call of every operation.  A client the       *)
(* keyfile is not wrapped to gets an error and has changed nothing.        *)

RefreshPackKeys(c, k, who, want) ==
    /\ op[c].pc = "idle"
    /\ budget[k] > 0
    /\ c \in keyfile.to
    /\ budget' = [budget EXCEPT ![k] = @ - 1]
    /\ keys' = [keys EXCEPT ![c] = @ \cup {keyfile.key}]
    /\ Become(c, [Idle EXCEPT !.pc = "roster", !.kind = k, !.arg = who,
                              !.want = want, !.key = keyfile.key,
                              !.gen = keyfile.gen])
    /\ UNCHANGED <<storeVars, pinR, pinM, got, gitVars, lastId>>

BeginPush(c) ==
    \E S \in SUBSET {r \in Refs : refs[c][r] # 0} :
        /\ S # {}
        /\ RefreshPackKeys(c, "push", c,
                           [r \in Refs |-> IF r \in S THEN refs[c][r] ELSE 0])

BeginOther(c) ==
    \/ \E k \in {"fetch", "rekey"} : RefreshPackKeys(c, k, c, NoRefs)
    \/ \E k \in {"add", "remove"}, b \in Clients : RefreshPackKeys(c, k, b, NoRefs)

Begin(c) == BeginPush(c) \/ BeginOther(c)

-----------------------------------------------------------------------------
(* loadTrustedRoster, then the checks every operation makes on the result. *)

\* Bug variant: any later roster signed by a pinned member, linked or not.
TrustsRosterSkips(c, r) ==
    /\ r.key \in keys[c]
    /\ \/ pinR[c] = NoRoster
       \/ r.version = pinR[c].version /\ r.id = pinR[c].id
       \/ r.version > pinR[c].version /\ r.author \in pinR[c].members

\* The roster decrypts under a held key, and is the first one seen, the pinned
\* one, or the direct successor of the pinned one signed by one of its members.
TrustsRoster(c, r) ==
    /\ r.key \in keys[c]
    /\ \/ pinR[c] = NoRoster
       \/ r.version = pinR[c].version /\ r.id = pinR[c].id
       \/ /\ r.version > pinR[c].version
          /\ r.prev = pinR[c].id
          /\ r.author \in pinR[c].members

\* checkKeyfileGeneration, selfIsMember and the operation's own refusals.
\* Bug variant: RemoveMember without its refusal to remove oneself.
PermittedSelfRemoval(c, r) ==
    LET o == op[c] IN
    /\ o.gen # 0 /\ r.gen # 0 /\ o.gen = r.gen
    /\ o.kind # "fetch" => c \in r.members
    /\ o.kind = "add" => o.arg \notin r.members
    /\ o.kind = "remove" => o.arg \in r.members

Permitted(c, r) ==
    LET o == op[c] IN
    /\ o.gen # 0 /\ r.gen # 0
    /\ o.gen = r.gen
    /\ o.kind # "fetch" => c \in r.members
    /\ o.kind = "add" => o.arg \notin r.members
    /\ o.kind = "remove" => o.arg # c /\ o.arg \in r.members

Rotates(k) == k \in {"remove", "rekey"}

\* Bug variant: a removal that keeps the generation of the key it replaces.
SuccessorSameGeneration(c, r) ==
    LET o == op[c] IN
    [id |-> lastId + 1, version |-> r.version + 1, prev |-> r.id,
     members |-> CASE o.kind = "add" -> r.members \cup {o.arg}
                   [] o.kind = "remove" -> r.members \ {o.arg}
                   [] OTHER -> r.members,
     author |-> c, gen |-> r.gen,
     key |-> IF Rotates(o.kind) THEN lastId + 1 ELSE o.key]

\* newR of AddMember, RemoveMember and FullRekey.
Successor(c, r) ==
    LET o == op[c] IN
    [id      |-> lastId + 1,
     version |-> r.version + 1,
     prev    |-> r.id,
     members |-> CASE o.kind = "add" -> r.members \cup {o.arg}
                   [] o.kind = "remove" -> r.members \ {o.arg}
                   [] OTHER -> r.members,
     author  |-> c,
     gen     |-> IF Rotates(o.kind) THEN r.gen + 1 ELSE r.gen,
     key     |-> IF Rotates(o.kind) THEN lastId + 1 ELSE o.key]

ChangesRoster(k) == k \in {"add", "remove", "rekey"}

LoadTrustedRoster(c) ==
    LET r == RosterHead
        o == op[c]
        loaded == [o EXCEPT
            !.trusted = r,
            !.next = IF ChangesRoster(o.kind) THEN Successor(c, r) ELSE r,
            !.imp = got[c],
            !.pc = IF o.kind \in {"add", "remove"} THEN "casRoster" ELSE "read"]
    IN  /\ o.pc = "roster"
        /\ TrustsRoster(c, r)
        /\ pinR' = [pinR EXCEPT ![c] = r]
        /\ Become(c, IF Permitted(c, r) THEN loaded ELSE Idle)
        /\ lastId' = IF Permitted(c, r) /\ ChangesRoster(o.kind)
                     THEN lastId + 1 ELSE lastId
        /\ UNCHANGED <<storeVars, pinM, keys, got, gitVars, budget>>

RefuseRoster(c) ==
    /\ op[c].pc = "roster"
    /\ ~TrustsRoster(c, RosterHead)
    /\ Finish(c)
    /\ UNCHANGED <<storeVars, stateFile, gitVars, lastId, budget>>

-----------------------------------------------------------------------------
(* loadCurrent: the manifest decrypts under the current key only, and is   *)
(* bound to, and signed by a member of, the roster the operation trusts.   *)

Accepts(c, n) ==
    LET o == op[c] IN
    /\ mlog[n].key = o.key
    /\ mlog[n].roster = o.trusted.id
    /\ mlog[n].signer \in o.trusted.members

AfterRead(k, n) ==
    CASE k = "push" -> "objects"
      [] k = "rekey" -> IF n = 0 THEN "keyfile" ELSE "repack"
      [] OTHER -> IF n = 0 THEN "save" ELSE "cas"

LoadCurrent(c) ==
    LET o == op[c]
        n == Len(mlog)
    IN  /\ o.pc = "read"
        /\ o.kind # "fetch"
        /\ Become(c, IF n = 0 \/ Accepts(c, n)
                     THEN [o EXCEPT !.cur = n, !.packs = PacksAt(n),
                                    !.pc = AfterRead(o.kind, n)]
                     ELSE Idle)
        /\ UNCHANGED <<storeVars, stateFile, gitVars, lastId, budget>>

\* Packs not marked imported, and importPack's success on all of them.
Missing(c, ps)    == ps \ op[c].imp
Importable(c, p)  == p \in blobs /\ p.key \in keys[c]
CanImport(c, ps)  == \A p \in Missing(c, ps) : Importable(c, p)

\* An import fails because of a pack, or because a call fails or the process
\* dies on the way: some packs were indexed, none was recorded.
ImportFails(c, ps) ==
    /\ CrashesAllowed \/ ~CanImport(c, ps)
    /\ \E done \in SUBSET {p \in Missing(c, ps) : Importable(c, p)} :
           local' = [local EXCEPT ![c] = @ \cup DataOf(done)]
    /\ Finish(c)
    /\ UNCHANGED <<storeVars, stateFile, refs, lastId, budget>>

(* Push: ensureLocalObjects, generatePack and PutBlob.  Reading the missing *)
(* packs one by one succeeds exactly when all are there at the first read,  *)
(* since a listed pack that is deleted never comes back.                    *)

\* Bug variant: the new manifest lists only the new pack.
PreparePackDropsPacks(c) ==
    LET o    == op[c]
        have == Tips(RefsAt(o.cur))
        new  == Tips(o.want) \ have
        pack == IF new = {} THEN {} ELSE {[data |-> new, key |-> o.key]}
    IN  /\ o.pc = "objects"
        /\ CanImport(c, o.packs)
        /\ local' = [local EXCEPT ![c] = @ \cup DataOf(Missing(c, o.packs))]
        /\ blobs' = blobs \cup pack
        /\ Become(c, [o EXCEPT !.imp = @ \cup o.packs \cup pack,
                               !.packs = pack, !.pc = "cas"])
        /\ UNCHANGED <<rlog, mlog, keyfile, stateFile, refs, lastId, budget>>

\* Bug variant: no ensureLocalObjects before the rebase.
PreparePackNoImport(c) ==
    LET o    == op[c]
        new  == Tips(o.want) \ Tips(RefsAt(o.cur))
        pack == IF new = {} THEN {} ELSE {[data |-> new, key |-> o.key]}
    IN  /\ o.pc = "objects"
        /\ blobs' = blobs \cup pack
        /\ Become(c, [o EXCEPT !.imp = @ \cup pack, !.packs = @ \cup pack,
                               !.pc = "cas"])
        /\ UNCHANGED <<rlog, mlog, keyfile, stateFile, gitVars, lastId, budget>>

PreparePack(c) ==
    LET o    == op[c]
        have == Tips(RefsAt(o.cur))
        new  == Tips(o.want) \ have
        pack == IF new = {} THEN {} ELSE {[data |-> new, key |-> o.key]}
        seen == local[c] \cup DataOf(Missing(c, o.packs))
    IN  /\ o.pc = "objects"
        /\ CanImport(c, o.packs)
        /\ local' = [local EXCEPT ![c] = seen]
        /\ IF have \subseteq seen
           THEN /\ blobs' = blobs \cup pack
                /\ Become(c, [o EXCEPT !.imp = @ \cup o.packs \cup pack,
                                       !.packs = @ \cup pack, !.pc = "cas"])
           ELSE /\ Finish(c)           \* git rev-list: unknown object
                /\ UNCHANGED blobs
        /\ UNCHANGED <<rlog, mlog, keyfile, stateFile, refs, lastId, budget>>

PreparePackFails(c) == op[c].pc = "objects" /\ ImportFails(c, op[c].packs)

(* FullRekey: every pack of the manifest re-encrypted under the new key.   *)

Resealed(c, ps) == {[p EXCEPT !.key = op[c].next.key] : p \in ps}

\* Bug variant: packs this client never imported are left out.
RepackImportedOnly(c) ==
    LET o   == op[c]
        new == Resealed(c, o.packs \cap o.imp)
    IN  /\ o.pc = "repack"
        /\ blobs' = blobs \cup new
        /\ Become(c, [o EXCEPT !.packs = new, !.imp = @ \cup new, !.pc = "cas"])
        /\ UNCHANGED <<rlog, mlog, keyfile, stateFile, gitVars, lastId, budget>>

Repack(c) ==
    LET o   == op[c]
        new == Resealed(c, o.packs)
    IN  /\ o.pc = "repack"
        /\ \/ /\ \A p \in o.packs : Importable(c, p)
              /\ blobs' = blobs \cup new
              /\ Become(c, [o EXCEPT !.packs = new, !.imp = @ \cup new,
                                     !.pc = "cas"])
           \/ /\ \E p \in o.packs : ~Importable(c, p)
              /\ \E orphans \in SUBSET new : blobs' = blobs \cup orphans
              /\ Finish(c)
        /\ UNCHANGED <<rlog, mlog, keyfile, stateFile, gitVars, lastId, budget>>

-----------------------------------------------------------------------------
(* CASManifest, by Push, republishManifest and FullRekey.                  *)

\* Bug variant: wantRefs published without the refs of the current manifest.
PublishedWithoutMerge(c) ==
    LET o == op[c] IN
    [version |-> o.cur + 1, prev |-> o.cur, refs |-> o.want, packs |-> o.packs,
     signer |-> c, roster |-> o.next.id,
     key |-> IF Rotates(o.kind) THEN o.next.key ELSE o.key]

\* Bug variant: prev names the predecessor of the manifest it replaces.
PublishedSkipsParent(c) ==
    LET o == op[c] IN
    [version |-> o.cur + 1, prev |-> o.cur - 1, refs |-> RefsAt(o.cur),
     packs |-> o.packs, signer |-> c, roster |-> o.next.id,
     key |-> IF Rotates(o.kind) THEN o.next.key ELSE o.key]

Published(c) ==
    LET o == op[c] IN
    [version |-> o.cur + 1,
     prev    |-> o.cur,
     refs    |-> [r \in Refs |-> IF o.want[r] # 0 THEN o.want[r]
                                 ELSE RefsAt(o.cur)[r]],
     packs   |-> o.packs,
     signer  |-> c,
     roster  |-> o.next.id,
     key     |-> IF Rotates(o.kind) THEN o.next.key ELSE o.key]

\* Bug variant: an unconditional write of the manifest pointer.
CASManifestUnguarded(c) ==
    LET o == op[c] IN
    /\ o.pc = "cas"
    /\ mlog' = Append(mlog, Published(c))
    /\ Become(c, [o EXCEPT !.wrote = o.cur + 1,
                           !.pc = IF o.kind = "rekey" THEN "keyfile"
                                  ELSE "save"])
    /\ UNCHANGED <<rlog, keyfile, blobs, stateFile, gitVars, lastId, budget>>

CASManifest(c) ==
    LET o == op[c] IN
    /\ o.pc = "cas"
    /\ o.cur = Len(mlog)
    /\ mlog' = Append(mlog, Published(c))
    /\ Become(c, [o EXCEPT !.wrote = o.cur + 1,
                           !.pc = IF o.kind = "rekey" THEN "keyfile"
                                  ELSE "save"])
    /\ UNCHANGED <<rlog, keyfile, blobs, stateFile, gitVars, lastId, budget>>

\* Bug variant: the retry publishes the stale snapshot again.
ManifestConflictNoReread(c) ==
    LET o == op[c] IN
    /\ o.pc = "cas"
    /\ o.cur # Len(mlog)
    /\ got' = IF o.kind = "push" THEN [got EXCEPT ![c] = o.imp] ELSE got
    /\ Become(c, IF o.kind = "push" /\ o.tries + 1 < MaxPushRetries
                 THEN [o EXCEPT !.tries = @ + 1] ELSE Idle)
    /\ UNCHANGED <<storeVars, pinR, pinM, keys, gitVars, lastId, budget>>

\* Bug variant: retries of the stale snapshot, never counted.
ManifestConflictUncounted(c) ==
    /\ op[c].pc = "cas"
    /\ op[c].cur # Len(mlog)
    /\ got' = [got EXCEPT ![c] = op[c].imp]
    /\ UNCHANGED <<storeVars, pinR, pinM, keys, gitVars, op, lastId, budget>>

\* Bug variant: FullRekey ignores the conflict and goes on to delete.
ManifestConflictIgnored(c) ==
    LET o == op[c] IN
    /\ o.pc = "cas"
    /\ o.cur # Len(mlog)
    /\ Become(c, IF o.kind = "rekey" THEN [o EXCEPT !.pc = "delete"] ELSE Idle)
    /\ UNCHANGED <<storeVars, stateFile, gitVars, lastId, budget>>

\* Push saves the imported packs and starts over, a bounded number of times;
\* republishManifest and FullRekey give up at once.
ManifestConflict(c) ==
    LET o == op[c] IN
    /\ o.pc = "cas"
    /\ o.cur # Len(mlog)
    /\ got' = IF o.kind = "push" THEN [got EXCEPT ![c] = o.imp] ELSE got
    /\ Become(c, IF o.kind = "push" /\ o.tries + 1 < MaxPushRetries
                 THEN [o EXCEPT !.pc = "read", !.tries = @ + 1, !.packs = {},
                                !.cur = 0]
                 ELSE Idle)
    /\ UNCHANGED <<storeVars, pinR, pinM, keys, gitVars, lastId, budget>>

(* PutKeyfile: unconditional, no version.                                  *)

\* Bug variant: the new key wrapped to the members before the change.
PutKeyfileOldMembers(c) ==
    LET o == op[c] IN
    /\ o.pc = "keyfile"
    /\ keyfile' = [gen |-> o.next.gen, key |-> o.next.key,
                    to |-> o.trusted.members]
    /\ Become(c, [o EXCEPT !.pc = IF o.kind = "rekey" THEN "casRoster"
                                  ELSE "read"])
    /\ UNCHANGED <<rlog, mlog, blobs, stateFile, gitVars, lastId, budget>>

PutKeyfile(c) ==
    LET o == op[c] IN
    /\ o.pc = "keyfile"
    /\ keyfile' = [gen |-> o.next.gen, key |-> o.next.key,
                    to |-> o.next.members]
    /\ Become(c, [o EXCEPT !.pc = IF o.kind = "rekey" THEN "casRoster"
                                  ELSE "read"])
    /\ UNCHANGED <<rlog, mlog, blobs, stateFile, gitVars, lastId, budget>>

(* CASRoster: the store counts roster versions from 0 at genesis.          *)

\* Bug variant: an unconditional write of the roster pointer.
CASRosterUnguarded(c) ==
    LET o == op[c] IN
    /\ o.pc = "casRoster"
    /\ rlog' = Append(rlog, o.next)
    /\ Become(c, [o EXCEPT !.pc = IF o.kind # "rekey" THEN "keyfile" ELSE "save"])
    /\ UNCHANGED <<mlog, keyfile, blobs, stateFile, gitVars, lastId, budget>>

CASRoster(c) ==
    LET o == op[c] IN
    /\ o.pc = "casRoster"
    /\ o.trusted.version = Len(rlog) - 1
    /\ rlog' = Append(rlog, o.next)
    /\ Become(c, [o EXCEPT !.pc = IF o.kind # "rekey" THEN "keyfile"
                                  ELSE IF PacksAt(o.cur) = {} THEN "save"
                                  ELSE "delete"])
    /\ UNCHANGED <<mlog, keyfile, blobs, stateFile, gitVars, lastId, budget>>

\* Bug variant: the conflict is ignored and the beaten roster pinned.
RosterConflictIgnored(c) ==
    /\ op[c].pc = "casRoster"
    /\ op[c].trusted.version # Len(rlog) - 1
    /\ Become(c, [op[c] EXCEPT !.pc = "save"])
    /\ UNCHANGED <<storeVars, stateFile, gitVars, lastId, budget>>

RosterConflict(c) ==
    /\ op[c].pc = "casRoster"
    /\ op[c].trusted.version # Len(rlog) - 1
    /\ Finish(c)
    /\ UNCHANGED <<storeVars, stateFile, gitVars, lastId, budget>>

(* FullRekey: DeleteBlob on the packs of the manifest it replaced.         *)

DeleteOldPack(c) ==
    LET o   == op[c]
        old == PacksAt(o.cur) \cap blobs
    IN  /\ o.pc = "delete"
        /\ \E p \in old : blobs' = blobs \ {p}
        /\ UNCHANGED <<rlog, mlog, keyfile, stateFile, gitVars, op, lastId, budget>>

OldPacksDeleted(c) ==
    /\ op[c].pc = "delete"
    /\ PacksAt(op[c].cur) \cap blobs = {}
    /\ Become(c, [op[c] EXCEPT !.pc = "save"])
    /\ UNCHANGED <<storeVars, stateFile, gitVars, lastId, budget>>

-----------------------------------------------------------------------------
(* Fetch: GetManifest, the acceptance rule and the pin.                    *)

\* Nothing pinned yet, or the direct successor of the pinned manifest.  The
\* pinned manifest itself is a no-op; anything else is rollback/equivocation.
Fresh(c, n) ==
    \/ pinM[c] = 0
    \/ /\ mlog[n].version > mlog[pinM[c]].version
       /\ mlog[n].prev = pinM[c]

FetchManifest(c) ==
    LET o == op[c]
        n == Len(mlog)
    IN  /\ o.pc = "read"
        /\ o.kind = "fetch"
        /\ Become(c, IF n # 0 /\ Accepts(c, n) /\ Fresh(c, n)
                     THEN [o EXCEPT !.cur = n, !.packs = PacksAt(n),
                                    !.pc = "import"]
                     ELSE Idle)
        /\ UNCHANGED <<storeVars, stateFile, gitVars, lastId, budget>>

\* Bug variant: the packs are downloaded and recorded but never indexed.
ImportUnindexed(c) ==
    LET o   == op[c]
        new == RefsAt(o.cur)
    IN  /\ o.pc = "import"
        /\ CanImport(c, o.packs)
        /\ refs' = [refs EXCEPT ![c] = [r \in Refs |-> IF new[r] # 0 THEN new[r]
                                                       ELSE refs[c][r]]]
        /\ Become(c, [o EXCEPT !.imp = @ \cup o.packs, !.wrote = o.cur,
                               !.pc = "save"])
        /\ UNCHANGED <<storeVars, stateFile, local, lastId, budget>>

\* Import the missing packs, then update-ref every ref.  update-ref refuses a
\* commit that is not in the object store, or fails; the refs done before stay.
ImportAndUpdateRefs(c) ==
    LET o    == op[c]
        new  == RefsAt(o.cur)
        seen == local[c] \cup DataOf(Missing(c, o.packs))
        good == {r \in Refs : new[r] # 0 /\ new[r] \in seen}
        Updated(S) == [r \in Refs |-> IF r \in S THEN new[r] ELSE refs[c][r]]
    IN  /\ o.pc = "import"
        /\ CanImport(c, o.packs)
        /\ local' = [local EXCEPT ![c] = seen]
        /\ \/ /\ Tips(new) \subseteq seen
              /\ refs' = [refs EXCEPT ![c] = Updated(good)]
              /\ Become(c, [o EXCEPT !.imp = @ \cup o.packs, !.wrote = o.cur,
                                     !.pc = "save"])
           \/ /\ CrashesAllowed \/ ~(Tips(new) \subseteq seen)
              /\ \E S \in SUBSET good : refs' = [refs EXCEPT ![c] = Updated(S)]
              /\ Finish(c)
        /\ UNCHANGED <<storeVars, stateFile, lastId, budget>>

ImportFailsInFetch(c) == op[c].pc = "import" /\ ImportFails(c, op[c].packs)

(* The state file is written once, at the end of a successful operation.   *)

Save(c) ==
    LET o == op[c] IN
    /\ o.pc = "save"
    /\ got' = [got EXCEPT ![c] = o.imp]
    /\ pinM' = IF o.wrote = 0 THEN pinM ELSE [pinM EXCEPT ![c] = o.wrote]
    /\ pinR' = IF ChangesRoster(o.kind) THEN [pinR EXCEPT ![c] = o.next] ELSE pinR
    /\ keys' = IF Rotates(o.kind) THEN [keys EXCEPT ![c] = @ \cup {o.next.key}]
               ELSE keys
    /\ Finish(c)
    /\ UNCHANGED <<storeVars, gitVars, lastId, budget>>

(* The process dies, or a call fails or loses its answer: the operation    *)
(* returns an error and what it held in memory is gone.                    *)

Crash(c) ==
    /\ CrashesAllowed
    /\ op[c].pc # "idle"
    /\ Finish(c)
    /\ UNCHANGED <<storeVars, stateFile, gitVars, lastId, budget>>

-----------------------------------------------------------------------------

Step(c) ==
    \/ LoadTrustedRoster(c) \/ RefuseRoster(c)
    \/ LoadCurrent(c) \/ PreparePack(c) \/ PreparePackFails(c) \/ Repack(c)
    \/ CASManifest(c) \/ ManifestConflict(c)
    \/ PutKeyfile(c)
    \/ CASRoster(c) \/ RosterConflict(c)
    \/ DeleteOldPack(c) \/ OldPacksDeleted(c)
    \/ FetchManifest(c) \/ ImportAndUpdateRefs(c) \/ ImportFailsInFetch(c)
    \/ Save(c)

Next ==
    \E c \in Clients :
        \/ \E r \in Refs : Commit(c, r)
        \/ Begin(c)
        \/ Step(c)
        \/ Crash(c)

Spec == Init /\ [][Next]_vars
=============================================================================
