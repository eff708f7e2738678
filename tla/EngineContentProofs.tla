------------------------- MODULE EngineContentProofs -------------------------
(***************************************************************************)
(* What manifests list: a commit a ref names is in a listed pack, a listed *)
(* pack is in the store, and what a client has recorded as imported is in  *)
(* its object store, for any set of clients and any bounds.                *)
(***************************************************************************)
EXTENDS EngineRosterProofs

\* RefsAt and PacksAt in a manifest log m.
RefsIn(m, n)  == IF n = 0 THEN NoRefs ELSE m[n].refs
PacksIn(m, n) == IF n = 0 THEN {} ELSE m[n].packs

\* What an operation is about to publish covers the refs it will publish: the
\* packs it took from manifest cur, then those it made of them.
CoverOp(m, o) ==
    /\ o.kind # "push" => o.want = NoRefs
    /\ o.pc \in {"objects", "repack"} => o.packs = PacksIn(m, o.cur)
    /\ o.pc = "cas" =>
         Tips(o.want) \cup Tips(RefsIn(m, o.cur)) \subseteq DataOf(o.packs)

CoverInv == RefsCovered /\ \A c \in Clients : CoverOp(mlog, op[c])

-----------------------------------------------------------------------------

LEMMA InLog == \A n : RefsAt(n) = RefsIn(mlog, n) /\ PacksAt(n) = PacksIn(mlog, n)
  BY DEF RefsAt, PacksAt, RefsIn, PacksIn

\* What a log says of manifests it has does not change.
LEMMA InLogKept ==
  ASSUME TypeInv, [Next]_vars, NEW n \in Nat, n <= Len(mlog)
  PROVE  RefsIn(mlog', n) = RefsIn(mlog, n) /\ PacksIn(mlog', n) = PacksIn(mlog, n)
  <1>1. CASE n = 0
    BY <1>1 DEF RefsIn, PacksIn
  <1>2. CASE n # 0
    <2>1. n \in 1 .. Len(mlog)
      BY <1>2, OpFacts DEF TypeInv, TypeOK
    <2>2. mlog'[n] = mlog[n]
      BY <2>1, LogGrows
    <2>3. QED
      BY <1>2, <2>2 DEF RefsIn, PacksIn
  <1>3. QED
    BY <1>1, <1>2

LEMMA NoTips == Tips(NoRefs) = {}
  BY DEF Tips, NoRefs

LEMMA DataUnion ==
  ASSUME NEW ps, NEW qs PROVE DataOf(ps \cup qs) = DataOf(ps) \cup DataOf(qs)
  BY DEF DataOf

\* Resealing keeps what is inside.
LEMMA DataResealed ==
  ASSUME NEW c \in Clients, NEW ps \in SUBSET Pack
  PROVE  DataOf(Resealed(c, ps)) = DataOf(ps)
  <1> DEFINE new(p) == [p EXCEPT !.key = op[c].next.key]
  <1>1. \A p \in Pack : new(p).data = p.data
    BY DEF Pack
  <1>2. Resealed(c, ps) = {new(p) : p \in ps}
    BY DEF Resealed
  <1> HIDE DEF new
  <1>3. {q.data : q \in {new(p) : p \in ps}} = {p.data : p \in ps}
    BY <1>1
  <1>4. QED
    BY <1>2, <1>3 DEF DataOf

\* The new pack holds every pushed commit the manifest does not have.
LEMMA DataNewPack ==
  ASSUME NEW c \in Clients
  PROVE  DataOf(NewPack(c)) = Tips(op[c].want) \ Tips(RefsAt(op[c].cur))
  <1> DEFINE new == Tips(op[c].want) \ Tips(RefsAt(op[c].cur))
             pack == [data |-> new, key |-> op[c].key]
  <1>1. NewPack(c) = IF new = {} THEN {} ELSE {pack}
    BY DEF NewPack
  <1>2. pack.data = new
    OBVIOUS
  <1> HIDE DEF new, pack
  <1>3. DataOf(NewPack(c)) = new
    BY <1>1, <1>2 DEF DataOf
  <1>4. QED
    BY <1>3 DEF new

\* The refs a client publishes are those it wants and those it read.
LEMMA PublishedTips ==
  ASSUME NEW c \in Clients
  PROVE  Tips(Published(c).refs)
           \subseteq Tips(op[c].want) \cup Tips(RefsAt(op[c].cur))
  BY DEF Published, Tips

-----------------------------------------------------------------------------
(* RefsCovered *)

LEMMA CoverInit == Init => CoverInv
  <1> SUFFICES ASSUME Init PROVE CoverInv
    OBVIOUS
  <1>1. Len(mlog) = 0 /\ \A c \in Clients : op[c] = Idle
    BY DEF Init
  <1>2. QED
    BY <1>1 DEF CoverInv, RefsCovered, CoverOp, Idle

\* The operation a step leaves client c with.
LEMMA CoverMoves ==
  ASSUME TypeInv, RosterInv, CoverInv, [Next]_vars,
         NEW c \in Clients, Begin(c) \/ Step(c) \/ Crash(c)
  PROVE  CoverOp(mlog', op'[c])
  <1> DEFINE o == op[c]
             p == op'[c]
  <1> SUFFICES CoverOp(mlog', p)
    OBVIOUS
  <1>1. /\ CoverOp(mlog, o) /\ KindAt(o)
        /\ o.cur \in Nat /\ o.cur <= Len(mlog) /\ Len(mlog) \in Nat
        /\ o.packs \in SUBSET Pack
    BY OpFacts, OpInvHolds DEF CoverInv, OpInv
  <1>2. /\ RefsIn(mlog', o.cur) = RefsAt(o.cur)
        /\ PacksIn(mlog', o.cur) = PacksAt(o.cur)
        /\ RefsIn(mlog', Len(mlog)) = RefsAt(Len(mlog))
        /\ PacksIn(mlog', Len(mlog)) = PacksAt(Len(mlog))
    BY <1>1, InLog, InLogKept
  <1>3. ASSUME p = Idle PROVE CoverOp(mlog', p)
    BY <1>3 DEF CoverOp, Idle
  <1>4. ASSUME p.kind = o.kind, p.want = o.want,
               p.pc \notin {"objects", "repack", "cas"}
        PROVE  CoverOp(mlog', p)
    BY <1>1, <1>4 DEF CoverOp
  <1>5. CASE Begin(c)
    <2>1. PICK k, who, want : /\ RefreshPackKeys(c, k, who, want)
                              /\ k # "push" => want = NoRefs
      BY <1>5 DEF Begin, BeginPush, BeginOther
    <2>2. QED
      BY <2>1, RefreshFields DEF CoverOp
  <1>6. CASE LoadTrustedRoster(c)
    <2>1. \/ p = Idle
          \/ /\ p.kind = o.kind /\ p.want = o.want
             /\ p.pc \in {"casRoster", "read"}
      BY <1>6, LoadFields
    <2> HIDE DEF p, o
    <2>2. QED
      BY <1>3, <1>4, <2>1
  <1>7. CASE LoadCurrent(c)
    <2> DEFINE n == Len(mlog)
    <2>1. /\ o.kind # "fetch"
          /\ \/ p = Idle
             \/ /\ p.kind = o.kind /\ p.want = o.want
                /\ p.cur = n /\ p.packs = PacksAt(n) /\ p.pc = AfterRead(o.kind, n)
      BY <1>7, LoadCurrentFields DEF SameRun
    <2>2. Tips(RefsAt(n)) \subseteq DataOf(PacksAt(n))
      <3>1. CASE n = 0
        BY <3>1, NoTips DEF RefsAt
      <3>2. CASE n # 0
        <4>1. n \in 1 .. n
          BY <1>1, <3>2
        <4>2. QED
          BY <3>2, <4>1 DEF CoverInv, RefsCovered, RefsAt, PacksAt
      <3>3. QED
        BY <3>1, <3>2
    <2>3. p.pc = "cas" /\ p # Idle => Tips(p.want) = {}
      BY <1>1, <2>1, NoTips DEF CoverOp, AfterRead
    <2> HIDE DEF p, o, n
    <2>4. CASE p # Idle
      BY <1>1, <1>2, <2>1, <2>2, <2>3, <2>4 DEF CoverOp, n
    <2>5. QED
      BY <1>3, <2>4
  <1>8. CASE PreparePack(c)
    <2>1. /\ o.pc = "objects"
          /\ \/ p = Idle
             \/ /\ p.kind = o.kind /\ p.want = o.want /\ p.cur = o.cur
                /\ p.pc = "cas" /\ p.packs = o.packs \cup NewPack(c)
      BY <1>8, PreparePackFields DEF SameRun
    <2>2. Tips(RefsAt(o.cur)) \subseteq DataOf(o.packs)
      <3>1. o.packs = PacksAt(o.cur)
        BY <1>1, <2>1, InLog DEF CoverOp
      <3>2. CASE o.cur = 0
        BY <3>2, NoTips DEF RefsAt
      <3>3. CASE o.cur # 0
        <4>1. o.cur \in 1 .. Len(mlog)
          BY <1>1, <3>3
        <4>2. QED
          BY <3>1, <3>3, <4>1 DEF CoverInv, RefsCovered, RefsAt, PacksAt
      <3>4. QED
        BY <3>2, <3>3
    <2>3. Tips(o.want) \cup Tips(RefsAt(o.cur)) \subseteq DataOf(o.packs \cup NewPack(c))
      BY <2>2, DataNewPack, DataUnion
    <2> HIDE DEF p, o
    <2>4. QED
      BY <1>1, <1>2, <1>3, <2>1, <2>3 DEF CoverOp
  <1>9. CASE Repack(c)
    <2>1. /\ o.pc = "repack"
          /\ \/ p = Idle
             \/ /\ p.kind = o.kind /\ p.want = o.want /\ p.cur = o.cur
                /\ p.pc = "cas" /\ p.packs = Resealed(c, o.packs)
      BY <1>9, RepackFields DEF SameRun
    <2>2. Tips(RefsAt(o.cur)) \subseteq DataOf(o.packs)
      <3>1. o.packs = PacksAt(o.cur)
        BY <1>1, <2>1, InLog DEF CoverOp
      <3>2. CASE o.cur = 0
        BY <3>2, NoTips DEF RefsAt
      <3>3. CASE o.cur # 0
        <4>1. o.cur \in 1 .. Len(mlog)
          BY <1>1, <3>3
        <4>2. QED
          BY <3>1, <3>3, <4>1 DEF CoverInv, RefsCovered, RefsAt, PacksAt
      <3>4. QED
        BY <3>2, <3>3
    <2>3. Tips(o.want) = {} /\ o.kind # "push"
      BY <1>1, <2>1, NoTips DEF CoverOp, KindAt
    <2>4. DataOf(Resealed(c, o.packs)) = DataOf(o.packs)
      BY <1>1, DataResealed
    <2> HIDE DEF p, o
    <2>5. QED
      BY <1>1, <1>2, <1>3, <2>1, <2>2, <2>3, <2>4 DEF CoverOp
  <1>10. CASE CASManifest(c) \/ ManifestConflict(c) \/ PutKeyfile(c)
    <2>1. \/ p = Idle
          \/ /\ p.kind = o.kind /\ p.want = o.want
             /\ p.pc \notin {"objects", "repack", "cas"}
      BY <1>10, CASManifestFields, ConflictFields, PutKeyfileFields DEF SameRun
    <2> HIDE DEF p, o
    <2>2. QED
      BY <1>3, <1>4, <2>1
  <1>11. CASE \/ CASRoster(c) \/ OldPacksDeleted(c) \/ FetchManifest(c)
              \/ ImportAndUpdateRefs(c)
    <2>1. \/ p = Idle
          \/ /\ p.kind = o.kind /\ p.want = o.want
             /\ p.pc \notin {"objects", "repack", "cas"}
      BY <1>11, CASRosterFields, OldPacksDeletedFields, FetchFields, ImportFields
      DEF SameRun
    <2> HIDE DEF p, o
    <2>2. QED
      BY <1>3, <1>4, <2>1
  <1>12. CASE DeleteOldPack(c)
    BY <1>1, <1>12 DEF DeleteOldPack, CoverOp
  <1>13. CASE Finish(c)
    BY <1>3, <1>13, FinishStep
  <1>14. QED
    BY <1>5, <1>6, <1>7, <1>8, <1>9, <1>10, <1>11, <1>12, <1>13 DEF Step, Crash,
       RefuseRoster, RosterConflict, PreparePackFails, ImportFailsInFetch,
       ImportFails, Save

LEMMA CoverInductive ==
  ASSUME TypeInv, RosterInv, CoverInv, [Next]_vars PROVE CoverInv'
  <1>1. \A d \in Clients : CoverOp(mlog', op[d])
    <2> TAKE d \in Clients
    <2>1. op[d].cur \in Nat /\ op[d].cur <= Len(mlog) /\ CoverOp(mlog, op[d])
      BY OpFacts DEF CoverInv
    <2>2. QED
      BY <2>1, InLogKept DEF CoverOp
  <1>2. \A d \in Clients : CoverOp(mlog', op'[d])
    <2>1. CASE op' = op
      BY <1>1, <2>1
    <2>2. ASSUME NEW c \in Clients, Begin(c) \/ Step(c) \/ Crash(c)
          PROVE  \A d \in Clients : CoverOp(mlog', op'[d])
      <3>1. OnlyOp(c)
        BY <2>2, RunSteps
      <3>2. CoverOp(mlog', op'[c])
        BY <2>2, CoverMoves
      <3>3. QED
        BY <1>1, <3>1, <3>2 DEF OnlyOp
    <2>3. QED
      BY <2>1, <2>2 DEF Next, Commit, vars
  <1>3. RefsCovered'
    <2>1. CASE mlog' = mlog
      BY <2>1 DEF CoverInv, RefsCovered
    <2>2. ASSUME NEW c \in Clients, CASManifest(c) PROVE RefsCovered'
      <3>1. Tips(Published(c).refs) \subseteq DataOf(op[c].packs)
        <4>1. op[c].pc = "cas" /\ CoverOp(mlog, op[c])
          BY <2>2 DEF CASManifest, CoverInv
        <4>2. QED
          BY <4>1, InLog, PublishedTips DEF CoverOp
      <3>2. Published(c).packs = op[c].packs
        BY DEF Published
      <3>3. Len(mlog) \in Nat
        BY DEF TypeInv, TypeOK
      <3>4. \A i \in 1 .. Len(mlog') : i \in 1 .. Len(mlog) \/ i = Len(mlog) + 1
        BY <2>2, <3>3, CASManifestFields
      <3>5. ASSUME NEW i \in 1 .. Len(mlog')
            PROVE  Tips(mlog'[i].refs) \subseteq DataOf(mlog'[i].packs)
        <4>1. CASE i \in 1 .. Len(mlog)
          <5>1. mlog'[i] = mlog[i]
            BY <2>2, <4>1, CASManifestFields
          <5>2. QED
            BY <4>1, <5>1 DEF CoverInv, RefsCovered
        <4>2. CASE i = Len(mlog) + 1
          BY <2>2, <3>1, <3>2, <4>2, CASManifestFields
        <4>3. QED
          BY <3>4, <4>1, <4>2
      <3>6. QED
        BY <3>5 DEF RefsCovered, Tips, DataOf
    <2>3. QED
      BY <2>1, <2>2, ManifestsStep
  <1>4. QED
    BY <1>2, <1>3 DEF CoverInv, CoverOp, RefsIn, PacksIn, Tips, DataOf

LEMMA CoverInvCorrect == Spec => [](TypeInv /\ RosterInv /\ CoverInv)
  <1>1. Init => CoverInv
    BY CoverInit
  <1>2. TypeInv /\ RosterInv /\ CoverInv /\ [Next]_vars => CoverInv'
    BY CoverInductive
  <1>3. QED
    BY <1>1, <1>2, RosterInvCorrect, PTL DEF Spec

\* No commit a ref names is ever left out of the packs its manifest lists,
\* however pushes rebase on each other and membership changes re-issue or
\* re-encrypt the manifest.
THEOREM RefsAreCovered == Spec => []RefsCovered
  <1>1. CoverInv => RefsCovered
    BY DEF CoverInv
  <1>2. QED
    BY <1>1, CoverInvCorrect, PTL

-----------------------------------------------------------------------------
(* HeadPacksStored.  A blob is deleted long after the decision to, and the  *)
(* packs listed meanwhile must not be among the deleted.  Keys tell them    *)
(* apart: a new repo key is greater than those before it, and what a rekey  *)
(* deletes is sealed under a key below that of the manifest it published.   *)

\* Keys are handed out in order; a rotating operation has the newer one.
KeyBound(last, o) ==
    /\ o.key <= last /\ o.next.key <= last
    /\ Past(o) /\ Rotates(o.kind) => o.key < o.next.key

IssuedInv ==
    /\ keyfile.key <= lastId
    /\ \A i \in 1 .. Len(rlog) : rlog[i].key <= lastId
    /\ \A c \in Clients : KeyBound(lastId, op[c])

\* Along the log keys do not go down, and no pack is above its manifest.
LogKeys(m) ==
    \A i \in 1 .. Len(m) :
        /\ \A j \in i .. Len(m) : m[i].key <= m[j].key
        /\ \A p \in m[i].packs : p.key <= m[i].key

\* A rekey that has published: every later manifest lists newer packs only.
Replaced(m, o) ==
    (o.kind = "rekey" /\ o.pc \in {"keyfile", "casRoster", "delete"} /\ o.cur # 0)
      => /\ o.cur < Len(m) /\ m[o.cur].key < m[o.cur + 1].key
         /\ \A j \in o.cur + 1 .. Len(m) :
              \A p \in m[j].packs : m[o.cur + 1].key <= p.key

\* The keys of what an operation read and of the packs it will publish.
KeyOp(m, o) ==
    /\ (o.pc \in {"objects", "repack", "cas"} /\ o.cur # 0) => m[o.cur].key = o.key
    /\ o.pc = "cas" =>
         \A p \in o.packs : IF o.kind = "rekey" THEN p.key = o.next.key
                            ELSE p \in PacksIn(m, o.cur) \/ p.key = o.key
    /\ o.pc = "delete" => o.cur # 0
    /\ Replaced(m, o)

OrderInv == LogKeys(mlog) /\ \A c \in Clients : KeyOp(mlog, op[c])

StoredInv ==
    /\ HeadPacksStored
    /\ \A c \in Clients :
         op[c].pc = "cas" /\ op[c].cur = Len(mlog) => op[c].packs \subseteq blobs

-----------------------------------------------------------------------------

LEMMA IssuedInit == Init => IssuedInv
  <1> SUFFICES ASSUME Init PROVE IssuedInv
    OBVIOUS
  <1>1. lastId = Len(Joined) /\ Len(Joined) \in Nat /\ Len(Joined) > 0
    BY EngineAssumption DEF Init
  <1>2. keyfile.key = 1 /\ \A i \in 1 .. Len(rlog) : rlog[i].key = 1
    BY InitRosters DEF Init
  <1>3. \A c \in Clients : op[c] = Idle
    BY DEF Init
  <1>4. KeyBound(lastId, Idle)
    BY <1>1 DEF KeyBound, Idle, Past, NoRoster
  <1>5. QED
    BY <1>1, <1>2, <1>3, <1>4 DEF IssuedInv

\* The natural numbers the key order compares.
LEMMA KeysNat ==
  ASSUME TypeInv
  PROVE  /\ lastId \in Nat /\ keyfile.key \in Nat /\ RosterHead.key \in Nat
         /\ \A i \in 1 .. Len(rlog) : rlog[i].key \in Nat
         /\ \A i \in 1 .. Len(mlog) :
              mlog[i].key \in Nat /\ \A p \in mlog[i].packs : p.key \in Nat
         /\ \A c \in Clients : /\ op[c].key \in Nat /\ op[c].next.key \in Nat
                               /\ \A p \in op[c].packs : p.key \in Nat
  <1>1. lastId \in Nat /\ keyfile.key \in Nat
    BY DEF TypeInv, TypeOK
  <1>2. \A i \in 1 .. Len(rlog) : rlog[i].key \in Nat
    <2>1. \A i \in 1 .. Len(rlog) : rlog[i] \in Roster
      BY DEF TypeInv, TypeOK
    <2>2. QED
      BY <2>1 DEF Roster
  <1>3. \A i \in 1 .. Len(mlog) : mlog[i] \in Manifest
    BY DEF TypeInv, TypeOK
  <1>4. \A i \in 1 .. Len(mlog) :
          mlog[i].key \in Nat /\ \A p \in mlog[i].packs : p.key \in Nat
    BY <1>3 DEF Manifest, Pack
  <1>5. RosterHead.key \in Nat
    BY RosterHeadType DEF TypeInv, Roster
  <1>6. \A c \in Clients : /\ op[c].key \in Nat /\ op[c].next.key \in Nat
                           /\ \A p \in op[c].packs : p.key \in Nat
    <2> TAKE c \in Clients
    <2>1. op[c] \in Op /\ op[c].next \in Roster /\ op[c].packs \in SUBSET Pack
      BY OpFacts
    <2>2. op[c].key \in Nat
      BY <2>1 DEF Op
    <2>3. op[c].next.key \in Nat
      BY <2>1 DEF Roster
    <2>4. QED
      BY <2>1, <2>2, <2>3 DEF Pack
  <1>7. QED
    BY <1>1, <1>2, <1>4, <1>5, <1>6

LEMMA LastIdStep ==
  ASSUME TypeInv, [Next]_vars
  PROVE  lastId' \in Nat /\ lastId <= lastId'
  <1>1. lastId \in Nat
    BY DEF TypeInv, TypeOK
  <1>2. ASSUME NEW c \in Clients, LoadTrustedRoster(c)
        PROVE  lastId' = lastId \/ lastId' = lastId + 1
    BY <1>2 DEF LoadTrustedRoster
  <1>3. QED
    BY <1>1, <1>2, Writers

LEMMA KeyBoundKept ==
  ASSUME NEW o, o.key \in Nat, o.next.key \in Nat,
         NEW x \in Nat, NEW y \in Nat, x <= y, KeyBound(x, o)
  PROVE  KeyBound(y, o)
  BY DEF KeyBound

LEMMA IssuedInductive ==
  ASSUME TypeInv, RosterInv, IssuedInv, [Next]_vars PROVE IssuedInv'
  <1>1. lastId' \in Nat /\ lastId \in Nat /\ lastId <= lastId'
    BY LastIdStep, KeysNat
  <1>2. \A d \in Clients : KeyBound(lastId', op[d])
    BY <1>1, KeysNat, KeyBoundKept DEF IssuedInv
  <1>3. \A d \in Clients : KeyBound(lastId', op'[d])
    <2>1. CASE op' = op
      BY <1>2, <2>1
    <2>2. ASSUME NEW c \in Clients, Begin(c) \/ Step(c) \/ Crash(c)
          PROVE  \A d \in Clients : KeyBound(lastId', op'[d])
      <3>1. OnlyOp(c)
        BY <2>2, RunSteps
      <3>2. KeyBound(lastId', op'[c])
        <4>1. CASE Finish(c)
          <5>1. op'[c] = Idle
            BY <4>1, FinishStep
          <5>2. KeyBound(lastId', Idle)
            BY <1>1 DEF KeyBound, Past, Idle, NoRoster
          <5>3. QED
            BY <5>1, <5>2
        <4>2. CASE Begin(c)
          <5>1. PICK k, who, want : RefreshPackKeys(c, k, who, want)
            BY <4>2 DEF Begin, BeginPush, BeginOther
          <5>2. /\ op'[c].key = keyfile.key /\ op'[c].next = NoRoster
                /\ op'[c].pc = "roster"
            BY <5>1, RefreshFields
          <5>3. keyfile.key <= lastId /\ keyfile.key \in Nat
            BY KeysNat DEF IssuedInv
          <5>4. NoRoster.key = 0
            BY DEF NoRoster
          <5>5. QED
            BY <1>1, <5>2, <5>3, <5>4 DEF KeyBound, Past
        <4>3. CASE LoadTrustedRoster(c) /\ op'[c] # Idle
          <5>1. /\ Permitted(c, RosterHead)
                /\ op'[c].key = op[c].key /\ op'[c].kind = op[c].kind
                /\ op'[c].next = IF ChangesRoster(op[c].kind)
                                 THEN Successor(c, RosterHead) ELSE RosterHead
            BY <4>3, LoadFields
          <5>2. /\ op[c].key <= lastId /\ op[c].key \in Nat
                /\ RosterHead.key <= lastId /\ RosterHead.key \in Nat
            <6>1. Len(rlog) \in 1 .. Len(rlog)
              BY DEF TypeInv, TypeOK
            <6>2. QED
              BY <6>1, KeysNat DEF IssuedInv, KeyBound, RosterHead
          <5>3. Successor(c, RosterHead).key = IF Rotates(op[c].kind) THEN lastId + 1
                                               ELSE op[c].key
            BY DEF Successor
          <5>4. ChangesRoster(op[c].kind) => lastId' = lastId + 1
            BY <4>3, <5>1 DEF LoadTrustedRoster
          <5>5. Rotates(op[c].kind) => ChangesRoster(op[c].kind)
            BY DEF Rotates, ChangesRoster
          <5>6. CASE ChangesRoster(op[c].kind)
            BY <1>1, <5>1, <5>2, <5>3, <5>4, <5>6 DEF KeyBound
          <5>7. CASE ~ChangesRoster(op[c].kind)
            BY <1>1, <5>1, <5>2, <5>5, <5>7 DEF KeyBound
          <5>8. QED
            BY <5>6, <5>7
        <4>4. CASE LoadTrustedRoster(c) /\ op'[c] = Idle
          <5>1. KeyBound(lastId', Idle)
            BY <1>1 DEF KeyBound, Past, Idle, NoRoster
          <5>2. QED
            BY <4>4, <5>1
        <4>5. CASE Past(op[c]) /\ SameRun(op[c], op'[c])
          BY <1>2, <4>5 DEF SameRun, KeyBound
        <4>6. CASE ~Past(op'[c]) /\ ~Begin(c) /\ ~LoadTrustedRoster(c)
          <5>1. op'[c] = Idle
            BY <2>2, <4>6, EndsIdle
          <5>2. KeyBound(lastId', Idle)
            BY <1>1 DEF KeyBound, Past, Idle, NoRoster
          <5>3. QED
            BY <5>1, <5>2
        <4>7. QED
          BY <2>2, <4>2, <4>3, <4>4, <4>5, <4>6, RunSteps
      <3>3. QED
        BY <1>2, <3>1, <3>2 DEF OnlyOp
    <2>3. QED
      BY <2>1, <2>2 DEF Next, Commit, vars
  <1>4. keyfile'.key <= lastId'
    <2>1. CASE keyfile' = keyfile
      BY <1>1, <2>1, KeysNat DEF IssuedInv
    <2>2. ASSUME NEW c \in Clients, PutKeyfile(c) PROVE keyfile'.key <= lastId'
      <3>1. keyfile'.key = op[c].next.key
        BY <2>2 DEF PutKeyfile
      <3>2. QED
        BY <1>2, <3>1 DEF KeyBound
    <2>3. QED
      BY <2>1, <2>2, Writers
  <1>5. \A i \in 1 .. Len(rlog') : rlog'[i].key <= lastId'
    <2>1. CASE rlog' = rlog
      BY <1>1, <2>1, KeysNat DEF IssuedInv
    <2>2. ASSUME NEW c \in Clients, CASRoster(c)
          PROVE  \A i \in 1 .. Len(rlog') : rlog'[i].key <= lastId'
      <3>1. Len(rlog) \in Nat
        BY DEF TypeInv, TypeOK
      <3>2. \A i \in 1 .. Len(rlog') : i \in 1 .. Len(rlog) \/ i = Len(rlog) + 1
        BY <2>2, <3>1, CASRosterFields
      <3>3. op[c].next.key <= lastId'
        BY <1>2 DEF KeyBound
      <3>4. \A i \in 1 .. Len(rlog) : rlog[i].key <= lastId'
        BY <1>1, KeysNat DEF IssuedInv
      <3>5. QED
        BY <2>2, <3>2, <3>3, <3>4, CASRosterFields
    <2>3. QED
      BY <2>1, <2>2, Writers
  <1>6. QED
    BY <1>3, <1>4, <1>5 DEF IssuedInv, KeyBound

\* A rekey that has published and not finished deleting.
Replacing(o) ==
    o.kind = "rekey" /\ o.pc \in {"keyfile", "casRoster", "delete"} /\ o.cur # 0

LEMMA OrderInit == Init => OrderInv
  <1> SUFFICES ASSUME Init PROVE OrderInv
    OBVIOUS
  <1>1. Len(mlog) = 0 /\ \A c \in Clients : op[c] = Idle
    BY DEF Init
  <1>2. QED
    BY <1>1 DEF OrderInv, LogKeys, KeyOp, Replaced, Idle

\* What a client is about to publish on top of the current manifest is sealed
\* under no older key than the manifest of a rekey that is still deleting.
LEMMA CasAbove ==
  ASSUME TypeInv, RosterInv, CoverInv, IssuedInv, OrderInv,
         NEW c \in Clients, op[c].pc = "cas", op[c].cur = Len(mlog),
         NEW d \in Clients, Replacing(op[d])
  PROVE  /\ op[d].cur + 1 \in 1 .. Len(mlog) /\ op[d].cur \in 1 .. Len(mlog)
         /\ \A q \in op[c].packs : mlog[op[d].cur + 1].key <= q.key
  <1> DEFINE n == Len(mlog)
             k == op[d].cur + 1
  <1>1. n \in Nat /\ op[d].cur \in Nat
    BY OpFacts
  <1>2. /\ op[d].cur < n /\ op[d].cur # 0
        /\ \A j \in k .. n : \A p \in mlog[j].packs : mlog[k].key <= p.key
    BY DEF OrderInv, KeyOp, Replaced, Replacing
  <1>3. k \in 1 .. n /\ op[d].cur \in 1 .. n /\ n \in k .. n /\ n # 0 /\ n \in 1 .. n
    BY <1>1, <1>2
  <1>4. mlog[k].key <= mlog[n].key
    BY <1>3 DEF OrderInv, LogKeys
  <1>5. mlog[n].key = op[c].key
    BY <1>3 DEF OrderInv, KeyOp
  <1>6. Past(op[c]) /\ KeyBound(lastId, op[c])
    BY DEF Past, IssuedInv
  <1>7. /\ mlog[k].key \in Nat /\ op[c].key \in Nat /\ op[c].next.key \in Nat
        /\ mlog[n].key \in Nat
    BY <1>3, KeysNat
  <1>8. \A q \in op[c].packs : q.key \in Nat
    BY KeysNat
  <1>9. ASSUME NEW q \in op[c].packs PROVE mlog[k].key <= q.key
    <2>1. CASE op[c].kind = "rekey"
      <3>1. q.key = op[c].next.key /\ op[c].key < op[c].next.key
        BY <1>6, <2>1 DEF OrderInv, KeyOp, KeyBound, Rotates
      <3>2. QED
        BY <1>4, <1>5, <1>7, <3>1
    <2>2. CASE op[c].kind # "rekey"
      <3>1. q \in PacksIn(mlog, n) \/ q.key = op[c].key
        BY <2>2 DEF OrderInv, KeyOp
      <3>2. CASE q.key = op[c].key
        BY <1>4, <1>5, <3>2
      <3>3. CASE q \in PacksIn(mlog, n)
        BY <1>2, <1>3, <3>3 DEF PacksIn
      <3>4. QED
        BY <3>1, <3>2, <3>3
    <2>3. QED
      BY <2>1, <2>2
  <1>10. QED
    BY <1>3, <1>9

\* The key and the packs of a new manifest are no older than the current one's.
LEMMA PublishedKeys ==
  ASSUME TypeInv, RosterInv, IssuedInv, OrderInv,
         NEW c \in Clients, op[c].pc = "cas", op[c].cur = Len(mlog)
  PROVE  /\ Published(c).key \in Nat
         /\ Len(mlog) # 0 => mlog[Len(mlog)].key <= Published(c).key
         /\ \A p \in Published(c).packs : p.key \in Nat /\ p.key <= Published(c).key
  <1> DEFINE n == Len(mlog)
             o == op[c]
  <1>1. n \in Nat /\ o.key \in Nat /\ o.next.key \in Nat
        /\ \A p \in o.packs : p.key \in Nat
    BY OpFacts, KeysNat
  <1>2. Rotates(o.kind) => o.key < o.next.key
    BY DEF IssuedInv, KeyBound, Past
  <1>3. Published(c).packs = o.packs
        /\ Published(c).key = IF Rotates(o.kind) THEN o.next.key ELSE o.key
    BY DEF Published
  <1>4. o.key <= Published(c).key /\ Published(c).key \in Nat
    BY <1>1, <1>2, <1>3
  <1>5. n # 0 => mlog[n].key = o.key
    BY DEF OrderInv, KeyOp
  <1>6. ASSUME NEW p \in o.packs PROVE p.key <= Published(c).key
    <2>1. CASE o.kind = "rekey"
      BY <1>1, <1>3, <2>1 DEF OrderInv, KeyOp, Rotates
    <2>2. CASE o.kind # "rekey"
      <3>1. p \in PacksIn(mlog, n) \/ p.key = o.key
        BY <2>2 DEF OrderInv, KeyOp
      <3>2. CASE p.key = o.key
        BY <1>4, <3>2
      <3>3. CASE p \in PacksIn(mlog, n)
        <4>1. n # 0 /\ n \in 1 .. n /\ p \in mlog[n].packs
          BY <1>1, <3>3 DEF PacksIn
        <4>2. p.key <= mlog[n].key
          BY <4>1 DEF OrderInv, LogKeys
        <4>3. QED
          BY <1>1, <1>4, <1>5, <4>1, <4>2
      <3>4. QED
        BY <3>1, <3>2, <3>3
    <2>3. QED
      BY <2>1, <2>2
  <1>7. QED
    BY <1>1, <1>3, <1>4, <1>5, <1>6

LEMMA LogKeysStep ==
  ASSUME TypeInv, RosterInv, IssuedInv, OrderInv, [Next]_vars
  PROVE  LogKeys(mlog')
  <1>1. LogKeys(mlog)
    BY DEF OrderInv
  <1>2. ASSUME NEW c \in Clients, CASManifest(c) PROVE LogKeys(mlog')
    <2> DEFINE n == Len(mlog)
               x == Published(c)
    <2>1. /\ n \in Nat /\ Len(mlog') = n + 1 /\ mlog'[n + 1] = x
          /\ \A i \in 1 .. n : mlog'[i] = mlog[i]
          /\ op[c].pc = "cas" /\ op[c].cur = n
      BY <1>2, OpFacts, CASManifestFields
    <2>2. /\ x.key \in Nat
          /\ n # 0 => mlog[n].key <= x.key
          /\ \A p \in x.packs : p.key <= x.key
      BY <2>1, PublishedKeys
    <2>3. /\ \A i \in 1 .. n : mlog[i].key \in Nat
          /\ \A i \in 1 .. n : \A j \in i .. n : mlog[i].key <= mlog[j].key
          /\ \A i \in 1 .. n : \A p \in mlog[i].packs : p.key <= mlog[i].key
      BY <1>1, KeysNat DEF LogKeys
    <2> HIDE DEF n, x
    <2>4. \A i \in 1 .. n : mlog[i].key <= x.key
      <3> TAKE i \in 1 .. n
      <3>1. n \in i .. n /\ n # 0 /\ n \in 1 .. n
        BY <2>1
      <3>2. mlog[i].key <= mlog[n].key /\ mlog[n].key <= x.key
        BY <2>2, <2>3, <3>1
      <3>3. QED
        BY <2>2, <2>3, <3>1, <3>2
    <2>5. ASSUME NEW i \in 1 .. Len(mlog')
          PROVE  /\ \A j \in i .. Len(mlog') : mlog'[i].key <= mlog'[j].key
                 /\ \A p \in mlog'[i].packs : p.key <= mlog'[i].key
      <3>1. CASE i = n + 1
        <4>1. \A j \in i .. Len(mlog') : j = n + 1
          BY <2>1, <3>1
        <4>2. QED
          BY <2>1, <2>2, <3>1, <4>1
      <3>2. CASE i # n + 1
        <4>1. i \in 1 .. n
          BY <2>1, <3>2
        <4>2. \A j \in i .. Len(mlog') :
                (j \in i .. n /\ j \in 1 .. n) \/ j = n + 1
          BY <2>1, <4>1
        <4>3. QED
          BY <2>1, <2>3, <2>4, <4>1, <4>2
      <3>3. QED
        BY <3>1, <3>2
    <2>6. QED
      BY <2>5 DEF LogKeys
  <1>3. QED
    BY <1>1, <1>2, ManifestsStep

\* Every operation keeps its place in the order when the log grows.
LEMMA KeyOpKept ==
  ASSUME TypeInv, RosterInv, CoverInv, IssuedInv, OrderInv, [Next]_vars,
         NEW d \in Clients
  PROVE  KeyOp(mlog', op[d])
  <1> DEFINE o == op[d]
  <1>1. /\ KeyOp(mlog, o) /\ o.cur \in Nat /\ o.cur <= Len(mlog)
        /\ Len(mlog) \in Nat
    BY OpFacts DEF OrderInv
  <1>2. PacksIn(mlog', o.cur) = PacksIn(mlog, o.cur)
    BY <1>1, InLogKept
  <1>3. o.cur # 0 => mlog'[o.cur] = mlog[o.cur]
    BY <1>1, LogGrows
  <1>4. Replaced(mlog', o)
    <2>1. CASE mlog' = mlog
      BY <1>1, <2>1 DEF KeyOp
    <2>2. ASSUME NEW c \in Clients, CASManifest(c), Replacing(o)
          PROVE  /\ o.cur < Len(mlog') /\ mlog'[o.cur].key < mlog'[o.cur + 1].key
                 /\ \A j \in o.cur + 1 .. Len(mlog') :
                      \A p \in mlog'[j].packs : mlog'[o.cur + 1].key <= p.key
      <3> DEFINE n == Len(mlog)
      <3>1. /\ n \in Nat /\ Len(mlog') = n + 1 /\ mlog'[n + 1] = Published(c)
            /\ \A i \in 1 .. n : mlog'[i] = mlog[i]
            /\ op[c].pc = "cas" /\ op[c].cur = n
        BY <2>2, OpFacts, CASManifestFields
      <3>2. /\ o.cur + 1 \in 1 .. n /\ o.cur \in 1 .. n
            /\ \A q \in op[c].packs : mlog[o.cur + 1].key <= q.key
        BY <2>2, <3>1, CasAbove
      <3>3. Published(c).packs = op[c].packs
        BY DEF Published
      <3>4. /\ mlog[o.cur].key < mlog[o.cur + 1].key
            /\ \A j \in o.cur + 1 .. n :
                 \A p \in mlog[j].packs : mlog[o.cur + 1].key <= p.key
        BY <1>1, <2>2 DEF KeyOp, Replaced, Replacing
      <3> HIDE DEF n, o
      <3>5. \A j \in o.cur + 1 .. Len(mlog') :
              (j \in o.cur + 1 .. n /\ j \in 1 .. n) \/ j = n + 1
        BY <1>1, <3>1
      <3>6. \A j \in o.cur + 1 .. Len(mlog') :
              \A p \in mlog'[j].packs : mlog[o.cur + 1].key <= p.key
        BY <3>1, <3>2, <3>3, <3>4, <3>5
      <3>7. o.cur < Len(mlog')
        BY <3>1, <3>2
      <3>8. QED
        BY <3>1, <3>2, <3>4, <3>6, <3>7
    <2>3. QED
      BY <2>1, <2>2, ManifestsStep DEF Replaced, Replacing
  <1> HIDE DEF o
  <1>5. KeyOp(mlog', o)
    BY <1>1, <1>2, <1>3, <1>4 DEF KeyOp
  <1>6. QED
    BY <1>5 DEF o

\* The operation a step leaves client c with keeps to the order as well.
LEMMA KeyOpMoves ==
  ASSUME TypeInv, RosterInv, CoverInv, IssuedInv, OrderInv, [Next]_vars,
         NEW c \in Clients, Begin(c) \/ Step(c) \/ Crash(c)
  PROVE  KeyOp(mlog', op'[c])
  <1> DEFINE o == op[c]
             p == op'[c]
             n == Len(mlog)
  <1> SUFFICES KeyOp(mlog', p)
    OBVIOUS
  <1>1. /\ KeyOp(mlog', o) /\ KeyOp(mlog, o) /\ KindAt(o) /\ CoverOp(mlog, o)
        /\ o.cur \in Nat /\ o.cur <= n /\ n \in Nat
        /\ o.packs \in SUBSET Pack
    BY KeyOpKept, OpFacts, OpInvHolds DEF OrderInv, OpInv, CoverInv
  <1>2. /\ \A i \in 1 .. n : mlog'[i] = mlog[i]
        /\ PacksIn(mlog', n) = PacksAt(n)
        /\ PacksIn(mlog', o.cur) = PacksAt(o.cur)
    BY <1>1, LogGrows, InLog, InLogKept
  <1>3. ASSUME p = Idle PROVE KeyOp(mlog', p)
    BY <1>3 DEF KeyOp, Replaced, Idle
  <1>4. ASSUME p.pc \notin {"objects", "repack", "cas", "delete"},
               p.kind = "rekey" => p.pc \notin {"keyfile", "casRoster"}
        PROVE  KeyOp(mlog', p)
    BY <1>4 DEF KeyOp, Replaced
  <1>5. CASE Begin(c)
    <2>1. PICK k, who, want : RefreshPackKeys(c, k, who, want)
      BY <1>5 DEF Begin, BeginPush, BeginOther
    <2>2. p.pc = "roster"
      BY <2>1, RefreshFields
    <2>3. QED
      BY <1>4, <2>2
  <1>6. CASE LoadTrustedRoster(c)
    <2>1. \/ p = Idle
          \/ /\ p.kind = o.kind
             /\ p.pc = IF o.kind \in {"add", "remove"} THEN "casRoster" ELSE "read"
      BY <1>6, LoadFields
    <2> HIDE DEF p, o
    <2>2. QED
      BY <1>3, <1>4, <2>1
  <1>7. CASE LoadCurrent(c)
    <2>1. /\ o.kind # "fetch"
          /\ \/ p = Idle
             \/ /\ p.kind = o.kind /\ p.key = o.key
                /\ n = 0 \/ mlog[n].key = o.key
                /\ p.cur = n /\ p.packs = PacksAt(n) /\ p.pc = AfterRead(o.kind, n)
      BY <1>7, LoadCurrentFields DEF SameRun, Accepts
    <2>2. CASE p # Idle /\ n = 0
      <3>1. p.pc # "delete" /\ (p.pc = "cas" => p.packs = {})
        BY <2>1, <2>2 DEF AfterRead
      <3> HIDE DEF p, o, n
      <3>2. QED
        BY <2>1, <2>2, <3>1 DEF KeyOp, Replaced
    <2>3. CASE p # Idle /\ n # 0
      <3>1. n \in 1 .. n
        BY <1>1, <2>3
      <3>2. mlog'[n] = mlog[n]
        BY <1>2, <3>1
      <3>3. /\ p.kind = o.kind /\ p.key = o.key /\ mlog'[n].key = o.key
            /\ p.cur = n /\ p.packs = PacksIn(mlog', n)
            /\ p.pc = AfterRead(o.kind, n)
        BY <1>2, <2>1, <2>3, <3>2
      <3>4. /\ p.pc \notin {"delete", "casRoster", "keyfile"}
            /\ p.pc = "cas" => p.kind # "rekey"
        BY <2>3, <3>3 DEF AfterRead
      <3> HIDE DEF p, o, n
      <3>5. QED
        BY <3>3, <3>4 DEF KeyOp, Replaced
    <2> HIDE DEF p, o, n
    <2>4. QED
      BY <1>3, <2>2, <2>3
  <1>8. CASE PreparePack(c)
    <2>1. /\ o.pc = "objects"
          /\ \/ p = Idle
             \/ /\ p.kind = o.kind /\ p.cur = o.cur /\ p.key = o.key
                /\ p.pc = "cas" /\ p.packs = o.packs \cup NewPack(c)
      BY <1>8, PreparePackFields DEF SameRun
    <2>2. o.packs = PacksIn(mlog', o.cur) /\ o.kind = "push"
      BY <1>1, <1>2, <2>1, InLog DEF CoverOp, KindAt
    <2>3. \A q \in NewPack(c) : q.key = o.key
      BY DEF NewPack
    <2>4. o.cur # 0 => mlog'[o.cur].key = o.key
      BY <1>1, <2>1 DEF KeyOp
    <2> HIDE DEF p, o
    <2>5. QED
      BY <1>3, <2>1, <2>2, <2>3, <2>4 DEF KeyOp, Replaced
  <1>9. CASE Repack(c)
    <2>1. /\ o.pc = "repack"
          /\ \/ p = Idle
             \/ /\ p.kind = o.kind /\ p.cur = o.cur /\ p.key = o.key
                /\ p.next = o.next
                /\ p.pc = "cas" /\ p.packs = Resealed(c, o.packs)
      BY <1>9, RepackFields DEF SameRun
    <2>2. o.kind = "rekey"
      BY <1>1, <2>1 DEF KindAt
    <2>3. \A q \in Resealed(c, o.packs) : q.key = o.next.key
      BY <1>1 DEF Resealed, Pack
    <2>4. o.cur # 0 => mlog'[o.cur].key = o.key
      BY <1>1, <2>1 DEF KeyOp
    <2> HIDE DEF p, o
    <2>5. QED
      BY <1>3, <2>1, <2>2, <2>3, <2>4 DEF KeyOp, Replaced
  <1>10. CASE CASManifest(c)
    <2>1. /\ o.pc = "cas" /\ o.cur = n
          /\ Len(mlog') = n + 1 /\ mlog'[n + 1] = Published(c)
          /\ p.kind = o.kind /\ p.cur = n
          /\ p.pc = IF o.kind = "rekey" THEN "keyfile" ELSE "save"
      BY <1>10, CASManifestFields DEF SameRun
    <2>2. CASE o.kind # "rekey"
      BY <1>4, <2>1, <2>2
    <2>3. CASE o.kind = "rekey" /\ n # 0
      <3>1. o.key < o.next.key /\ mlog[n].key = o.key
        BY <1>1, <2>1, <2>3 DEF IssuedInv, KeyBound, Past, Rotates, KeyOp
      <3>2. /\ Published(c).key = o.next.key
            /\ \A q \in Published(c).packs : q.key = o.next.key
        BY <1>1, <2>1, <2>3 DEF Published, KeyOp, Rotates
      <3>3. mlog'[n] = mlog[n] /\ \A j \in n + 1 .. Len(mlog') : j = n + 1
        BY <1>1, <1>2, <2>1, <2>3
      <3>4. o.next.key \in Nat /\ n < n + 1
        BY <1>1, KeysNat
      <3> HIDE DEF p, o, n
      <3>5. Replaced(mlog', p)
        BY <2>1, <3>1, <3>2, <3>3, <3>4 DEF Replaced
      <3>6. QED
        BY <2>1, <2>3, <3>5 DEF KeyOp
    <2>4. CASE o.kind = "rekey" /\ n = 0
      BY <2>1, <2>4 DEF KeyOp, Replaced
    <2>5. QED
      BY <2>2, <2>3, <2>4
  <1>11. CASE PutKeyfile(c)
    <2>1. /\ o.pc = "keyfile" /\ p.kind = o.kind /\ p.cur = o.cur
          /\ p.pc = IF o.kind = "rekey" THEN "casRoster" ELSE "read"
      BY <1>11, PutKeyfileFields DEF SameRun
    <2> HIDE DEF p, o
    <2>2. QED
      BY <1>1, <2>1 DEF KeyOp, Replaced
  <1>12. CASE CASRoster(c)
    <2>1. /\ o.pc = "casRoster" /\ p.kind = o.kind /\ p.cur = o.cur
          /\ p.pc = IF o.kind # "rekey" THEN "keyfile"
                    ELSE IF PacksAt(o.cur) = {} THEN "save" ELSE "delete"
      BY <1>12, CASRosterFields DEF SameRun
    <2>2. o.cur = 0 => PacksAt(o.cur) = {}
      BY DEF PacksAt
    <2> HIDE DEF p, o
    <2>3. QED
      BY <1>1, <2>1, <2>2 DEF KeyOp, Replaced
  <1>13. CASE ManifestConflict(c) \/ OldPacksDeleted(c)
    <2>1. p = Idle \/ p.pc \in {"read", "save"}
      BY <1>13, ConflictFields, OldPacksDeletedFields
    <2> HIDE DEF p, o
    <2>2. QED
      BY <1>3, <1>4, <2>1
  <1>14. CASE FetchManifest(c) \/ ImportAndUpdateRefs(c)
    <2>1. p = Idle \/ p.pc \in {"import", "save"}
      BY <1>14, FetchFields, ImportFields
    <2> HIDE DEF p, o
    <2>2. QED
      BY <1>3, <1>4, <2>1
  <1>15. CASE DeleteOldPack(c)
    BY <1>1, <1>15 DEF DeleteOldPack
  <1>16. CASE Finish(c)
    BY <1>3, <1>16, FinishStep
  <1>17. QED
    BY <1>5, <1>6, <1>7, <1>8, <1>9, <1>10, <1>11, <1>12, <1>13, <1>14, <1>15, <1>16
    DEF Step, Crash, RefuseRoster, RosterConflict, PreparePackFails,
        ImportFailsInFetch, ImportFails, Save

LEMMA OrderInductive ==
  ASSUME TypeInv, RosterInv, CoverInv, IssuedInv, OrderInv, [Next]_vars
  PROVE  OrderInv'
  <1>1. LogKeys(mlog')
    BY LogKeysStep
  <1>2. \A d \in Clients : KeyOp(mlog', op[d])
    BY KeyOpKept
  <1>3. \A d \in Clients : KeyOp(mlog', op'[d])
    <2>1. CASE op' = op
      BY <1>2, <2>1
    <2>2. ASSUME NEW c \in Clients, Begin(c) \/ Step(c) \/ Crash(c)
          PROVE  \A d \in Clients : KeyOp(mlog', op'[d])
      <3>1. OnlyOp(c) /\ KeyOp(mlog', op'[c])
        BY <2>2, RunSteps, KeyOpMoves
      <3>2. QED
        BY <1>2, <3>1 DEF OnlyOp
    <2>3. QED
      BY <2>1, <2>2 DEF Next, Commit, vars
  <1>4. QED
    BY <1>1, <1>3 DEF OrderInv, LogKeys, KeyOp, Replaced, PacksIn

LEMMA StoredInit == Init => StoredInv
  <1> SUFFICES ASSUME Init PROVE StoredInv
    OBVIOUS
  <1>1. Len(mlog) = 0 /\ \A c \in Clients : op[c].pc = "idle"
    BY DEF Init, Idle
  <1>2. QED
    BY <1>1 DEF StoredInv, HeadPacksStored, PacksAt

\* A pack that a rekey deletes is older than every pack of the manifest of that
\* rekey and of all later ones, and than those about to be published.
LEMMA DeletedIsOld ==
  ASSUME TypeInv, RosterInv, CoverInv, IssuedInv, OrderInv,
         NEW d \in Clients, op[d].pc = "delete", NEW p \in PacksAt(op[d].cur)
  PROVE  /\ p \notin PacksAt(Len(mlog))
         /\ \A c \in Clients :
              op[c].pc = "cas" /\ op[c].cur = Len(mlog) => p \notin op[c].packs
  <1> DEFINE n == Len(mlog)
             i == op[d].cur
  <1>1. Replacing(op[d]) /\ Replaced(mlog, op[d])
    BY OpInvHolds DEF OrderInv, KeyOp, OpInv, KindAt, Replacing
  <1>2. /\ n \in Nat /\ i \in Nat /\ i # 0 /\ i < n
        /\ mlog[i].key < mlog[i + 1].key
        /\ \A j \in i + 1 .. n : \A q \in mlog[j].packs : mlog[i + 1].key <= q.key
    BY <1>1, OpFacts DEF Replacing, Replaced
  <1>3. i \in 1 .. n /\ i + 1 \in 1 .. n /\ n \in i + 1 .. n /\ n # 0
    BY <1>2
  <1>4. p \in mlog[i].packs
    BY <1>2 DEF PacksAt
  <1>5. p.key <= mlog[i].key
    BY <1>3, <1>4 DEF OrderInv, LogKeys
  <1>6. p.key \in Nat /\ mlog[i].key \in Nat /\ mlog[i + 1].key \in Nat
    BY <1>3, <1>4, KeysNat
  <1>7. ~(mlog[i + 1].key <= p.key)
    BY <1>2, <1>5, <1>6
  <1>8. p \notin PacksAt(n)
    BY <1>2, <1>3, <1>7 DEF PacksAt
  <1>9. ASSUME NEW c \in Clients, op[c].pc = "cas", op[c].cur = n, p \in op[c].packs
        PROVE  FALSE
    BY <1>1, <1>7, <1>9, CasAbove
  <1>10. QED
    BY <1>8, <1>9

LEMMA StoredInductive ==
  ASSUME TypeInv, RosterInv, CoverInv, IssuedInv, OrderInv, StoredInv, [Next]_vars
  PROVE  StoredInv'
  <1> DEFINE n == Len(mlog)
  <1>1. n \in Nat /\ \A d \in Clients : op[d].cur \in Nat /\ op[d].cur <= n
    BY OpFacts DEF TypeInv, TypeOK
  <1>2. /\ PacksAt(n) \subseteq blobs
        /\ \A d \in Clients : op[d].pc = "cas" /\ op[d].cur = n => op[d].packs \subseteq blobs
    BY DEF StoredInv, HeadPacksStored
  <1>3. ASSUME NEW c \in Clients, CASManifest(c) PROVE StoredInv'
    <2>1. /\ Len(mlog') = n + 1 /\ mlog'[n + 1] = Published(c)
          /\ OnlyOp(c) /\ op[c].pc = "cas" /\ op[c].cur = n
          /\ op'[c].pc \in {"keyfile", "save"}
      BY <1>3, CASManifestFields
    <2>2. blobs' = blobs
      BY <1>3 DEF CASManifest
    <2>3. mlog'[Len(mlog')].packs \subseteq blobs' /\ Len(mlog') # 0
      BY <1>1, <1>2, <2>1, <2>2 DEF Published
    <2>4. ASSUME NEW d \in Clients, op'[d].pc = "cas", op'[d].cur = Len(mlog')
          PROVE  op'[d].packs \subseteq blobs'
      <3>1. d # c
        BY <2>1, <2>4
      <3>2. op'[d] = op[d]
        BY <2>1, <3>1 DEF OnlyOp
      <3>3. QED
        BY <1>1, <2>1, <2>4, <3>2
    <2>5. QED
      BY <2>3, <2>4 DEF StoredInv, HeadPacksStored, PacksAt
  <1>4. ASSUME mlog' = mlog, PacksAt(n) \subseteq blobs',
               \A d \in Clients : op'[d].pc = "cas" /\ op'[d].cur = n
                                    => op'[d].packs \subseteq blobs'
        PROVE  StoredInv'
    BY <1>4 DEF StoredInv, HeadPacksStored, PacksAt
  <1>5. ASSUME NEW c \in Clients, DeleteOldPack(c) PROVE StoredInv'
    <2>1. PICK p \in PacksAt(op[c].cur) : blobs' = blobs \ {p}
      BY <1>5 DEF DeleteOldPack
    <2>2. op[c].pc = "delete" /\ op' = op /\ mlog' = mlog
      BY <1>5 DEF DeleteOldPack
    <2>3. /\ p \notin PacksAt(n)
          /\ \A d \in Clients :
               op[d].pc = "cas" /\ op[d].cur = n => p \notin op[d].packs
      BY <2>2, DeletedIsOld
    <2>4. QED
      BY <1>2, <1>4, <2>1, <2>2, <2>3
  <1>6. ASSUME NEW c \in Clients, Begin(c) \/ Step(c) \/ Crash(c),
               ~CASManifest(c), ~DeleteOldPack(c)
        PROVE  StoredInv'
    <2>1. mlog' = mlog
      BY <1>6 DEF Begin, BeginPush, BeginOther, RefreshPackKeys, Crash,
         Step, LoadTrustedRoster, RefuseRoster, LoadCurrent, PreparePack,
         PreparePackFails, Repack, ManifestConflict, PutKeyfile, CASRoster,
         RosterConflict, OldPacksDeleted, FetchManifest, ImportAndUpdateRefs,
         ImportFailsInFetch, ImportFails, Save, storeVars
    <2>2. blobs \subseteq blobs'
      <3>1. CASE PreparePack(c) \/ Repack(c)
        BY <3>1, PreparePackFields, RepackFields
      <3>2. CASE ~PreparePack(c) /\ ~Repack(c)
        BY <1>6, <3>2 DEF Begin, BeginPush, BeginOther, RefreshPackKeys, Crash,
           Step, LoadTrustedRoster, RefuseRoster, LoadCurrent,
           PreparePackFails, ManifestConflict, PutKeyfile, CASRoster,
           RosterConflict, OldPacksDeleted, FetchManifest, ImportAndUpdateRefs,
           ImportFailsInFetch, ImportFails, Save, storeVars
      <3>3. QED
        BY <3>1, <3>2
    <2>3. OnlyOp(c)
      BY <1>6, RunSteps
    <2>4. op'[c].pc = "cas" /\ op'[c].cur = n => op'[c].packs \subseteq blobs'
      <3>1. CASE LoadCurrent(c)
        BY <1>2, <2>2, <3>1, LoadCurrentFields DEF Idle
      <3>2. CASE PreparePack(c)
        <4>1. op[c].packs = PacksAt(op[c].cur)
          BY <3>2, InLog DEF PreparePack, CoverInv, CoverOp
        <4>2. QED
          BY <1>2, <3>2, <4>1, PreparePackFields DEF Idle
      <3>3. CASE Repack(c)
        BY <3>3, RepackFields DEF Idle
      <3>4. CASE ~LoadCurrent(c) /\ ~PreparePack(c) /\ ~Repack(c)
        <4>1. op'[c].pc # "cas"
          <5>1. CASE Begin(c)
            <6>1. PICK k, who, want : RefreshPackKeys(c, k, who, want)
              BY <5>1 DEF Begin, BeginPush, BeginOther
            <6>2. QED
              BY <6>1, RefreshFields
          <5>2. CASE Finish(c)
            BY <5>2, FinishStep DEF Idle
          <5>3. CASE LoadTrustedRoster(c) \/ ManifestConflict(c) \/ PutKeyfile(c)
            BY <5>3, LoadFields, ConflictFields, PutKeyfileFields DEF Idle
          <5>4. CASE \/ CASRoster(c) \/ OldPacksDeleted(c) \/ FetchManifest(c)
                     \/ ImportAndUpdateRefs(c)
            BY <5>4, CASRosterFields, OldPacksDeletedFields, FetchFields,
               ImportFields DEF Idle
          <5>5. QED
            BY <1>6, <3>4, <5>1, <5>2, <5>3, <5>4 DEF Step, Crash, RefuseRoster,
               RosterConflict, PreparePackFails, ImportFailsInFetch, ImportFails, Save
        <4>2. QED
          BY <4>1
      <3>5. QED
        BY <3>1, <3>2, <3>3, <3>4
    <2>5. QED
      BY <1>2, <1>4, <2>1, <2>2, <2>3, <2>4 DEF OnlyOp
  <1>7. CASE UNCHANGED <<mlog, blobs, op>>
    BY <1>2, <1>4, <1>7
  <1>8. QED
    BY <1>3, <1>5, <1>6, <1>7 DEF Next, Commit, vars, storeVars

\* The packs the current manifest lists are in the store, although FullRekey
\* deletes blobs one by one long after its manifest was published and others
\* publish in between: what it deletes can no longer be listed.
THEOREM HeadPacksAreStored == Spec => []HeadPacksStored
  <1>1. Init => IssuedInv /\ OrderInv /\ StoredInv
    BY IssuedInit, OrderInit, StoredInit
  <1>2. /\ TypeInv /\ RosterInv /\ CoverInv
        /\ IssuedInv /\ OrderInv /\ StoredInv /\ [Next]_vars
        => IssuedInv' /\ OrderInv' /\ StoredInv'
    BY IssuedInductive, OrderInductive, StoredInductive
  <1>3. StoredInv => HeadPacksStored
    BY DEF StoredInv
  <1>4. QED
    BY <1>1, <1>2, <1>3, CoverInvCorrect, PTL DEF Spec

-----------------------------------------------------------------------------
(* ImportedAreLocal.  A full rekey records the packs it re-encrypted as     *)
(* imported although it never indexed them, so what follows is again about  *)
(* a repository nobody rekeys.                                              *)

\* What an operation wants to push and has recorded as imported is in the
\* object store l of its client.
HeldOp(l, o) == Tips(o.want) \subseteq l /\ DataOf(o.imp) \subseteq l

LocalInv ==
    \A c \in Clients : /\ Tips(refs[c]) \subseteq local[c]
                       /\ DataOf(got[c]) \subseteq local[c]
                       /\ HeldOp(local[c], op[c])

LEMMA IdleHolds == \A l : HeldOp(l, Idle)
  <1>1. Idle.want = NoRefs /\ Idle.imp = {}
    BY DEF Idle
  <1>2. DataOf({}) = {}
    BY DEF DataOf
  <1>3. QED
    BY <1>1, <1>2, NoTips DEF HeldOp

LEMMA LocalInit == Init => LocalInv
  <1> SUFFICES ASSUME Init PROVE LocalInv
    OBVIOUS
  <1>1. \A c \in Clients : op[c] = Idle /\ got[c] = {} /\ refs[c] = NoRefs
    BY DEF Init
  <1>2. DataOf({}) = {}
    BY DEF DataOf
  <1>3. QED
    BY <1>1, <1>2, NoTips, IdleHolds DEF LocalInv

\* Objects stay in the object store of a client, and a client's new branches
\* point to commits that are there.
LEMMA LocalGrows ==
  ASSUME TypeInv, [Next]_vars, NEW d \in Clients
  PROVE  local[d] \subseteq local'[d]
  <1>1. local \in [Clients -> SUBSET Commits]
    BY DEF TypeInv, TypeOK
  <1>2. CASE local' = local
    BY <1>2
  <1>3. ASSUME NEW c \in Clients,
               PreparePack(c) \/ ImportAndUpdateRefs(c)
        PROVE  local[d] \subseteq local'[d]
    BY <1>1, <1>3, PreparePackFields, ImportFields
  <1>4. ASSUME NEW c \in Clients, ImportFails(c, op[c].packs)
        PROVE  local[d] \subseteq local'[d]
    BY <1>1, <1>4 DEF ImportFails
  <1>5. ASSUME NEW c \in Clients, NEW r \in Refs, Commit(c, r)
        PROVE  local[d] \subseteq local'[d]
    BY <1>1, <1>5 DEF Commit
  <1>6. QED
    BY <1>2, <1>3, <1>4, <1>5, Writers

LEMMA BranchesStep ==
  ASSUME TypeInv, [Next]_vars, \A c \in Clients : Tips(refs[c]) \subseteq local[c],
         NEW d \in Clients
  PROVE  Tips(refs'[d]) \subseteq local'[d]
  <1>1. /\ local \in [Clients -> SUBSET Commits]
        /\ refs \in [Clients -> [Refs -> Commits]]
        /\ local[d] \subseteq local'[d]
    BY LocalGrows DEF TypeInv, TypeOK
  <1>2. \A r \in Refs : refs[d][r] # 0 => refs[d][r] \in local[d]
    BY DEF Tips
  <1>3. ASSUME NEW r \in Refs, refs'[d][r] # 0 PROVE refs'[d][r] \in local'[d]
    <2>1. CASE refs' = refs
      BY <1>1, <1>2, <1>3, <2>1
    <2>2. ASSUME NEW c \in Clients, NEW s \in Refs, Commit(c, s)
          PROVE  refs'[d][r] \in local'[d]
      BY <1>1, <1>2, <1>3, <2>2 DEF Commit
    <2>3. ASSUME NEW c \in Clients, ImportAndUpdateRefs(c)
          PROVE  refs'[d][r] \in local'[d]
      <3> DEFINE new  == RefsAt(op[c].cur)
                 seen == local[c] \cup DataOf(Missing(c, op[c].packs))
                 Updated(S) == [q \in Refs |-> IF q \in S THEN new[q]
                                                ELSE refs[c][q]]
      <3>1. /\ local' = [local EXCEPT ![c] = seen]
            /\ \E S \in SUBSET {q \in Refs : new[q] # 0 /\ new[q] \in seen} :
                 refs' = [refs EXCEPT ![c] = Updated(S)]
        BY <2>3 DEF ImportAndUpdateRefs
      <3> HIDE DEF new, seen
      <3>2. QED
        BY <1>1, <1>2, <1>3, <3>1
    <2>4. QED
      BY <2>1, <2>2, <2>3, Writers
  <1>4. QED
    BY <1>3 DEF Tips

\* Importing a pack list puts all of it in the object store, since what is not
\* missing was there.
LEMMA ImportedAll ==
  ASSUME NEW c \in Clients, DataOf(op[c].imp) \subseteq local[c], NEW ps,
         NEW l, l = local[c] \cup DataOf(Missing(c, ps))
  PROVE  DataOf(ps) \subseteq l
  BY DEF DataOf, Missing

LEMMA HeldKept ==
  ASSUME NEW l, NEW m, l \subseteq m, NEW o, HeldOp(l, o) PROVE HeldOp(m, o)
  BY DEF HeldOp

\* The operation a step leaves client c with, when c does not rekey.
LEMMA HeldMoves ==
  ASSUME TypeInv, LocalInv, [Next]_vars, NEW c \in Clients,
         op[c].kind # "rekey", RosterInv,
         Begin(c) \/ Step(c) \/ Crash(c)
  PROVE  HeldOp(local'[c], op'[c])
  <1> DEFINE o == op[c]
             p == op'[c]
             l == local'[c]
  <1> SUFFICES HeldOp(l, p)
    OBVIOUS
  <1>1. /\ HeldOp(local[c], o) /\ DataOf(got[c]) \subseteq l
        /\ Tips(refs[c]) \subseteq local[c] /\ local[c] \subseteq l
        /\ local \in [Clients -> SUBSET Commits] /\ KindAt(o)
    BY LocalGrows, OpInvHolds DEF LocalInv, TypeInv, TypeOK, OpInv
  <1>2. HeldOp(l, o)
    BY <1>1, HeldKept
  <1>3. ASSUME p = Idle PROVE HeldOp(l, p)
    BY <1>3, IdleHolds
  <1>4. ASSUME p.want = o.want, p.imp = o.imp PROVE HeldOp(l, p)
    BY <1>2, <1>4 DEF HeldOp
  <1>5. CASE Begin(c)
    <2>1. PICK k, who, want : /\ RefreshPackKeys(c, k, who, want)
                              /\ Tips(want) \subseteq Tips(refs[c])
      <3>1. CASE BeginPush(c)
        <4>1. PICK S \in SUBSET {r \in Refs : refs[c][r] # 0} :
                RefreshPackKeys(c, "push", c,
                    [r \in Refs |-> IF r \in S THEN refs[c][r] ELSE 0])
          BY <3>1 DEF BeginPush
        <4>2. Tips([r \in Refs |-> IF r \in S THEN refs[c][r] ELSE 0])
                \subseteq Tips(refs[c])
          BY DEF Tips
        <4>3. QED
          BY <4>1, <4>2
      <3>2. CASE BeginOther(c)
        BY <3>2, NoTips DEF BeginOther
      <3>3. QED
        BY <1>5, <3>1, <3>2 DEF Begin
    <2>2. p.want = want /\ p.imp = {}
      BY <2>1, RefreshFields
    <2> HIDE DEF p, l
    <2>3. QED
      BY <1>1, <2>1, <2>2 DEF HeldOp, DataOf
  <1>6. CASE LoadTrustedRoster(c)
    <2>1. p = Idle \/ (p.want = o.want /\ p.imp = got[c])
      BY <1>6, LoadFields
    <2> HIDE DEF p, o, l
    <2>2. QED
      BY <1>1, <1>2, <1>3, <2>1 DEF HeldOp
  <1>7. CASE PreparePack(c)
    <2>1. /\ l = local[c] \cup DataOf(Missing(c, o.packs))
          /\ \/ p = Idle
             \/ p.want = o.want /\ p.imp = o.imp \cup o.packs \cup NewPack(c)
      BY <1>1, <1>7, PreparePackFields DEF SameRun
    <2>2. DataOf(o.packs) \subseteq l
      BY <1>1, <2>1, ImportedAll DEF HeldOp
    <2>3. DataOf(NewPack(c)) \subseteq l
      BY <1>2, DataNewPack DEF HeldOp
    <2> HIDE DEF p, o, l
    <2>4. DataOf(o.imp \cup o.packs \cup NewPack(c)) \subseteq l
      <3>1. DataOf(o.imp \cup o.packs) = DataOf(o.imp) \cup DataOf(o.packs)
        BY DataUnion
      <3>2. DataOf(o.imp \cup o.packs \cup NewPack(c))
              = DataOf(o.imp \cup o.packs) \cup DataOf(NewPack(c))
        BY DataUnion
      <3>3. QED
        BY <1>2, <2>2, <2>3, <3>1, <3>2 DEF HeldOp
    <2>5. QED
      BY <1>2, <1>3, <2>1, <2>4 DEF HeldOp
  <1>8. CASE ImportAndUpdateRefs(c)
    <2>1. /\ l = local[c] \cup DataOf(Missing(c, o.packs))
          /\ p = Idle \/ (p.want = o.want /\ p.imp = o.imp \cup o.packs)
      BY <1>1, <1>8, ImportFields DEF SameRun
    <2>2. DataOf(o.packs) \subseteq l
      BY <1>1, <2>1, ImportedAll DEF HeldOp
    <2> HIDE DEF p, o, l
    <2>3. DataOf(o.imp \cup o.packs) \subseteq l
      BY <1>2, <2>2, DataUnion DEF HeldOp
    <2>4. QED
      BY <1>2, <1>3, <2>1, <2>3 DEF HeldOp
  <1>9. CASE LoadCurrent(c) \/ CASManifest(c) \/ ManifestConflict(c)
    <2>1. p = Idle \/ (p.want = o.want /\ p.imp = o.imp)
      BY <1>9, LoadCurrentFields, CASManifestFields, ConflictFields DEF SameRun
    <2> HIDE DEF p, o, l
    <2>2. QED
      BY <1>3, <1>4, <2>1
  <1>10. CASE \/ PutKeyfile(c) \/ CASRoster(c) \/ OldPacksDeleted(c)
              \/ FetchManifest(c)
    <2>1. p = Idle \/ (p.want = o.want /\ p.imp = o.imp)
      BY <1>10, PutKeyfileFields, CASRosterFields, OldPacksDeletedFields,
         FetchFields DEF SameRun
    <2> HIDE DEF p, o, l
    <2>2. QED
      BY <1>3, <1>4, <2>1
  <1>11. ~Repack(c)
    BY <1>1 DEF Repack, KindAt
  <1>12. CASE DeleteOldPack(c)
    BY <1>2, <1>12 DEF DeleteOldPack
  <1>13. CASE Finish(c)
    BY <1>3, <1>13, FinishStep
  <1>14. QED
    BY <1>5, <1>6, <1>7, <1>8, <1>9, <1>10, <1>11, <1>12, <1>13 DEF Step, Crash,
       RefuseRoster, RosterConflict, PreparePackFails, ImportFailsInFetch,
       ImportFails, Save

LEMMA LocalInductive ==
  ASSUME NoRekeys, TypeInv, RosterInv, KindsAllowed, LocalInv, [Next]_vars
  PROVE  LocalInv'
  <1>1. \A d \in Clients : local[d] \subseteq local'[d]
    BY LocalGrows
  <1>2. \A d \in Clients : Tips(refs'[d]) \subseteq local'[d]
    BY BranchesStep DEF LocalInv
  <1>3. \A d \in Clients : HeldOp(local'[d], op[d])
    BY <1>1, HeldKept DEF LocalInv
  <1>4. \A d \in Clients : HeldOp(local'[d], op'[d])
    <2>1. CASE op' = op
      BY <1>3, <2>1
    <2>2. ASSUME NEW c \in Clients, Begin(c) \/ Step(c) \/ Crash(c)
          PROVE  \A d \in Clients : HeldOp(local'[d], op'[d])
      <3>1. OnlyOp(c) /\ HeldOp(local'[c], op'[c])
        BY <2>2, RunSteps, HeldMoves, RekeyNever
      <3>2. QED
        BY <1>3, <3>1 DEF OnlyOp
    <2>3. QED
      BY <2>1, <2>2 DEF Next, Commit, vars
  <1>5. \A d \in Clients : DataOf(got'[d]) \subseteq local'[d]
    <2>1. CASE got' = got
      BY <1>1, <2>1 DEF LocalInv
    <2>2. ASSUME NEW c \in Clients, Save(c) \/ ManifestConflict(c)
          PROVE  \A d \in Clients : DataOf(got'[d]) \subseteq local'[d]
      <3>1. got \in [Clients -> SUBSET Pack]
        BY DEF TypeInv, TypeOK
      <3>2. got' = got \/ got' = [got EXCEPT ![c] = op[c].imp]
        BY <2>2 DEF Save, ManifestConflict
      <3>3. DataOf(op[c].imp) \subseteq local'[c]
        BY <1>3 DEF HeldOp
      <3>4. \A d \in Clients : got'[d] = got[d] \/ (d = c /\ got'[d] = op[c].imp)
        BY <3>1, <3>2
      <3>5. QED
        BY <1>1, <3>3, <3>4 DEF LocalInv
    <2>3. QED
      BY <2>1, <2>2, Writers
  <1>6. QED
    BY <1>2, <1>4, <1>5 DEF LocalInv, HeldOp, Tips, DataOf

LEMMA LocalInvCorrect ==
  ASSUME NoRekeys
  PROVE  Spec => [](TypeInv /\ RosterInv /\ KindsAllowed /\ LocalInv)
  <1>1. Init => LocalInv
    BY LocalInit
  <1>2. TypeInv /\ RosterInv /\ KindsAllowed /\ LocalInv /\ [Next]_vars => LocalInv'
    BY LocalInductive
  <1>3. QED
    BY <1>1, <1>2, RosterInvCorrect, KindsInvariant, PTL DEF Spec

\* A pack the state file records as imported has its objects in the git object
\* store, so fetch and rebase are right to skip it for good, as long as nobody
\* runs a full rekey.
THEOREM ImportedStayLocal ==
  ASSUME Budget["rekey"] = 0 PROVE Spec => []ImportedAreLocal
  <1>1. NoRekeys
    BY DEF NoRekeys
  <1>2. LocalInv => ImportedAreLocal
    BY DEF LocalInv, ImportedAreLocal
  <1>3. QED
    BY <1>1, <1>2, LocalInvCorrect, PTL

-----------------------------------------------------------------------------
(* NothingToImport.  A membership change re-issues the manifest without     *)
(* importing it and pins what it wrote, so this holds of a repository whose *)
(* members stay the same.                                                   *)

FixedRoster == Budget["add"] = 0 /\ Budget["remove"] = 0 /\ Budget["rekey"] = 0

\* The client has the objects of what it is about to publish, and of what it
\* will pin.
PinnedOp(m, l, o) ==
    /\ o.pc # "idle" => o.kind \in {"push", "fetch"}
    /\ o.pc = "cas" => DataOf(o.packs) \subseteq l
    /\ o.pc = "import" => o.packs = PacksIn(m, o.cur)
    /\ DataOf(PacksIn(m, o.wrote)) \subseteq l

PinnedInv ==
    \A c \in Clients : /\ DataOf(PacksIn(mlog, pinM[c])) \subseteq local[c]
                       /\ PinnedOp(mlog, local[c], op[c])

LEMMA NoPacks == \A m : DataOf(PacksIn(m, 0)) = {}
  BY DEF PacksIn, DataOf

LEMMA IdlePinned == \A m, l : PinnedOp(m, l, Idle)
  <1>1. Idle.pc = "idle" /\ Idle.wrote = 0
    BY DEF Idle
  <1>2. QED
    BY <1>1, NoPacks DEF PinnedOp

LEMMA PinnedInit == Init => PinnedInv
  <1> SUFFICES ASSUME Init PROVE PinnedInv
    OBVIOUS
  <1>1. \A c \in Clients : op[c] = Idle /\ pinM[c] = 0
    BY DEF Init
  <1>2. QED
    BY <1>1, NoPacks, IdlePinned DEF PinnedInv

\* What a client holds stays right while manifests and objects are added.
LEMMA PinnedKept ==
  ASSUME TypeInv, PinnedInv, [Next]_vars, NEW d \in Clients
  PROVE  /\ PinnedOp(mlog', local'[d], op[d])
         /\ DataOf(PacksIn(mlog', pinM[d])) \subseteq local'[d]
  <1>1. /\ op[d].cur \in Nat /\ op[d].cur <= Len(mlog)
        /\ op[d].wrote \in Nat /\ op[d].wrote <= Len(mlog)
        /\ pinM[d] \in Nat /\ pinM[d] <= Len(mlog)
    BY OpFacts DEF TypeInv, TypeOK, HashesCommitted
  <1>2. /\ PacksIn(mlog', op[d].cur) = PacksIn(mlog, op[d].cur)
        /\ PacksIn(mlog', op[d].wrote) = PacksIn(mlog, op[d].wrote)
        /\ PacksIn(mlog', pinM[d]) = PacksIn(mlog, pinM[d])
    BY <1>1, InLogKept
  <1>3. local[d] \subseteq local'[d]
    BY LocalGrows
  <1>4. /\ DataOf(PacksIn(mlog, pinM[d])) \subseteq local[d]
        /\ PinnedOp(mlog, local[d], op[d])
    BY DEF PinnedInv
  <1>5. QED
    BY <1>2, <1>3, <1>4 DEF PinnedOp

\* The operation a step leaves client c with, when the members stay the same.
LEMMA PinnedMoves ==
  ASSUME FixedRoster, TypeInv, RosterInv, LocalInv, PinnedInv, [Next]_vars,
         KindsAllowed', NEW c \in Clients, Begin(c) \/ Step(c) \/ Crash(c)
  PROVE  PinnedOp(mlog', local'[c], op'[c])
  <1> DEFINE o == op[c]
             p == op'[c]
             l == local'[c]
  <1> SUFFICES PinnedOp(mlog', l, p)
    OBVIOUS
  <1>1. /\ PinnedOp(mlog', l, o) /\ KindAt(o)
        /\ o.cur \in Nat /\ o.cur <= Len(mlog) /\ Len(mlog) \in Nat
        /\ local \in [Clients -> SUBSET Commits]
    BY PinnedKept, OpInvHolds, OpFacts DEF OpInv, TypeInv, TypeOK
  <1>2. /\ PacksIn(mlog', o.cur) = PacksAt(o.cur)
        /\ PacksIn(mlog', Len(mlog)) = PacksAt(Len(mlog))
    BY <1>1, InLog, InLogKept
  <1>3. ASSUME p = Idle PROVE PinnedOp(mlog', l, p)
    BY <1>3, IdlePinned
  <1>4. ASSUME p.kind = o.kind, o.pc # "idle", p.wrote = o.wrote,
               p.pc \notin {"cas", "import"}
        PROVE  PinnedOp(mlog', l, p)
    BY <1>1, <1>4 DEF PinnedOp
  <1>5. CASE Begin(c)
    <2>1. PICK k, who, want : /\ k \in {"push", "fetch", "add", "remove", "rekey"}
                              /\ RefreshPackKeys(c, k, who, want)
      <3>1. CASE BeginPush(c)
        BY <3>1 DEF BeginPush
      <3>2. CASE BeginOther(c)
        BY <3>2 DEF BeginOther
      <3>3. QED
        BY <1>5, <3>1, <3>2 DEF Begin
    <2>2. p.kind = k /\ p.pc = "roster" /\ p.wrote = 0
      BY <2>1, RefreshFields
    <2>3. k \in {"push", "fetch"}
      BY <2>1, <2>2 DEF KindsAllowed, Kinds, FixedRoster
    <2> HIDE DEF p, l
    <2>4. QED
      BY <2>2, <2>3, NoPacks DEF PinnedOp
  <1>6. CASE LoadTrustedRoster(c)
    <2>1. /\ o.pc = "roster"
          /\ \/ p = Idle
             \/ /\ p.kind = o.kind /\ p.wrote = o.wrote
                /\ p.pc \in {"casRoster", "read"}
      BY <1>6, LoadFields
    <2> HIDE DEF p, o, l
    <2>2. QED
      BY <1>3, <1>4, <2>1
  <1>7. CASE LoadCurrent(c)
    <2>1. /\ o.pc = "read" /\ o.kind # "fetch"
          /\ \/ p = Idle
             \/ /\ p.kind = o.kind /\ p.wrote = o.wrote
                /\ p.pc = AfterRead(o.kind, Len(mlog))
      BY <1>7, LoadCurrentFields DEF SameRun
    <2>2. o.kind = "push"
      BY <1>1, <2>1 DEF PinnedOp
    <2>3. AfterRead(o.kind, Len(mlog)) = "objects"
      BY <2>2 DEF AfterRead
    <2> HIDE DEF p, o, l
    <2>4. QED
      BY <1>3, <1>4, <2>1, <2>3
  <1>8. CASE PreparePack(c)
    <2>1. /\ l = local[c] \cup DataOf(Missing(c, o.packs)) /\ o.pc = "objects"
          /\ \/ p = Idle
             \/ /\ p.kind = o.kind /\ p.wrote = o.wrote /\ p.pc = "cas"
                /\ p.packs = o.packs \cup NewPack(c)
      BY <1>1, <1>8, PreparePackFields DEF SameRun
    <2>2. HeldOp(local[c], o)
      BY DEF LocalInv
    <2>3. DataOf(o.packs) \subseteq l
      BY <2>1, <2>2, ImportedAll DEF HeldOp
    <2>4. DataOf(NewPack(c)) \subseteq l
      BY <2>1, <2>2, DataNewPack DEF HeldOp
    <2>5. DataOf(o.packs \cup NewPack(c)) \subseteq l
      BY <2>3, <2>4, DataUnion
    <2> HIDE DEF p, o, l
    <2>6. QED
      BY <1>1, <1>3, <2>1, <2>5 DEF PinnedOp
  <1>9. CASE CASManifest(c)
    <2>1. /\ o.pc = "cas" /\ p.kind = o.kind /\ p.wrote = Len(mlog) + 1
          /\ p.pc \in {"keyfile", "save"}
          /\ mlog'[Len(mlog) + 1] = Published(c)
      BY <1>9, CASManifestFields DEF SameRun
    <2>2. PacksIn(mlog', p.wrote) = o.packs
      BY <1>1, <2>1 DEF PacksIn, Published
    <2>3. DataOf(o.packs) \subseteq l
      BY <1>1, <2>1 DEF PinnedOp
    <2> HIDE DEF p, o, l
    <2>4. QED
      BY <1>1, <2>1, <2>2, <2>3 DEF PinnedOp
  <1>10. CASE ManifestConflict(c)
    <2>1. /\ o.pc = "cas"
          /\ \/ p = Idle
             \/ p.kind = o.kind /\ p.wrote = o.wrote /\ p.pc = "read"
      BY <1>10, ConflictFields DEF SameRun
    <2> HIDE DEF p, o, l
    <2>2. QED
      BY <1>3, <1>4, <2>1
  <1>11. CASE FetchManifest(c)
    <2>1. /\ o.pc = "read"
          /\ \/ p = Idle
             \/ /\ p.kind = o.kind /\ p.wrote = o.wrote /\ p.pc = "import"
                /\ p.cur = Len(mlog) /\ p.packs = PacksAt(Len(mlog))
      BY <1>11, FetchFields DEF SameRun
    <2> HIDE DEF p, o, l
    <2>2. QED
      BY <1>1, <1>2, <1>3, <2>1 DEF PinnedOp
  <1>12. CASE ImportAndUpdateRefs(c)
    <2>1. /\ l = local[c] \cup DataOf(Missing(c, o.packs)) /\ o.pc = "import"
          /\ \/ p = Idle
             \/ p.kind = o.kind /\ p.wrote = o.cur /\ p.pc = "save"
      BY <1>1, <1>12, ImportFields DEF SameRun
    <2>2. HeldOp(local[c], o)
      BY DEF LocalInv
    <2>3. DataOf(o.packs) \subseteq l
      BY <2>1, <2>2, ImportedAll DEF HeldOp
    <2>4. o.packs = PacksIn(mlog', o.cur)
      BY <1>1, <2>1 DEF PinnedOp
    <2> HIDE DEF p, o, l
    <2>5. QED
      BY <1>1, <1>3, <2>1, <2>3, <2>4 DEF PinnedOp
  <1>13. CASE OldPacksDeleted(c) \/ PutKeyfile(c) \/ CASRoster(c) \/ Repack(c)
    BY <1>1, <1>13 DEF PinnedOp, KindAt, ChangesRoster, OldPacksDeleted,
       PutKeyfile, CASRoster, Repack
  <1>14. CASE DeleteOldPack(c)
    BY <1>1, <1>14 DEF DeleteOldPack
  <1>15. CASE Finish(c)
    BY <1>3, <1>15, FinishStep
  <1>16. QED
    BY <1>5, <1>6, <1>7, <1>8, <1>9, <1>10, <1>11, <1>12, <1>13, <1>14, <1>15
    DEF Step, Crash, RefuseRoster, RosterConflict, PreparePackFails,
        ImportFailsInFetch, ImportFails, Save

LEMMA PinnedInductive ==
  ASSUME FixedRoster, TypeInv, RosterInv, LocalInv, PinnedInv, [Next]_vars,
         KindsAllowed'
  PROVE  PinnedInv'
  <1>1. \A d \in Clients : /\ PinnedOp(mlog', local'[d], op[d])
                           /\ DataOf(PacksIn(mlog', pinM[d])) \subseteq local'[d]
    BY PinnedKept
  <1>2. \A d \in Clients : PinnedOp(mlog', local'[d], op'[d])
    <2>1. CASE op' = op
      BY <1>1, <2>1
    <2>2. ASSUME NEW c \in Clients, Begin(c) \/ Step(c) \/ Crash(c)
          PROVE  \A d \in Clients : PinnedOp(mlog', local'[d], op'[d])
      <3>1. OnlyOp(c) /\ PinnedOp(mlog', local'[c], op'[c])
        BY <2>2, RunSteps, PinnedMoves
      <3>2. QED
        BY <1>1, <3>1 DEF OnlyOp
    <2>3. QED
      BY <2>1, <2>2 DEF Next, Commit, vars
  <1>3. \A d \in Clients : DataOf(PacksIn(mlog', pinM'[d])) \subseteq local'[d]
    <2>1. CASE pinM' = pinM
      BY <1>1, <2>1
    <2>2. ASSUME NEW c \in Clients, Save(c)
          PROVE  \A d \in Clients : DataOf(PacksIn(mlog', pinM'[d])) \subseteq local'[d]
      <3>1. pinM \in [Clients -> Nat]
        BY DEF TypeInv, TypeOK
      <3>2. pinM' = pinM \/ pinM' = [pinM EXCEPT ![c] = op[c].wrote]
        BY <2>2 DEF Save
      <3>3. \A d \in Clients : \/ pinM'[d] = pinM[d]
                               \/ d = c /\ pinM'[d] = op[c].wrote
        BY <3>1, <3>2
      <3>4. DataOf(PacksIn(mlog', op[c].wrote)) \subseteq local'[c]
        BY <1>1 DEF PinnedOp
      <3>5. QED
        BY <1>1, <3>3, <3>4
    <2>3. QED
      BY <2>1, <2>2, Writers
  <1>4. QED
    BY <1>2, <1>3 DEF PinnedInv, PinnedOp, PacksIn, DataOf

\* A client that pins the current manifest has every object of it, so fetch may
\* return at once, as long as the members stay the same.  With a membership
\* change it fails: the re-issue pins a manifest its author never imported.
THEOREM PinnedAreImported ==
  ASSUME Budget["add"] = 0, Budget["remove"] = 0, Budget["rekey"] = 0
  PROVE  Spec => []NothingToImport
  <1>1. FixedRoster /\ NoRekeys
    BY DEF FixedRoster, NoRekeys
  <1>2. Init => PinnedInv
    BY PinnedInit
  <1>3. /\ TypeInv /\ RosterInv /\ LocalInv /\ PinnedInv /\ [Next]_vars
        /\ KindsAllowed'
        => PinnedInv'
    BY <1>1, PinnedInductive
  <1>4. PinnedInv => NothingToImport
    BY InLog DEF PinnedInv, NothingToImport
  <1>5. QED
    BY <1>1, <1>2, <1>3, <1>4, LocalInvCorrect, PTL DEF Spec
=============================================================================
