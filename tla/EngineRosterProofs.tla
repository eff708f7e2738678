------------------------- MODULE EngineRosterProofs -------------------------
(***************************************************************************)
(* Rosters: their chain, the pins, who signs under which of them, and who  *)
(* gets which repo key, for any set of clients and any bounds.             *)
(* RosterChain is not inductive: whether the roster a client appends       *)
(* extends the chain depends on what it loaded several steps earlier, so   *)
(* the invariant below remembers what each operation has in hand.          *)
(***************************************************************************)
EXTENDS EngineProofs

\* The roster pointer has held r.
Committed(r) == \E i \in 1 .. Len(rlog) : rlog[i] = r

\* The operation has committed the roster it built.
Announced(o) ==
    /\ ChangesRoster(o.kind)
    /\ o.pc \in IF o.kind = "rekey" THEN {"delete", "save"}
                ELSE {"keyfile", "read", "cas", "save"}

\* Which operation can be at a point of the program.
KindAt(o) ==
    /\ o.pc = "casRoster" => ChangesRoster(o.kind)
    /\ o.pc \in {"repack", "delete"} => o.kind = "rekey"
    /\ o.pc = "objects" => o.kind = "push"
    /\ o.pc = "import" => o.kind = "fetch"
    /\ o.pc = "keyfile" => ChangesRoster(o.kind)
    /\ o.pc \in {"cas", "repack"} => o.kind # "fetch"

\* newR is a direct, authorized successor of the roster it was built from.
Extends(new, r) ==
    /\ new.version = r.version + 1
    /\ new.prev = r.id
    /\ new.author \in r.members

OpInv(o) ==
    /\ KindAt(o)
    /\ o.pc \notin {"idle", "roster"} =>
         /\ Committed(o.trusted)
         /\ ChangesRoster(o.kind) => Extends(o.next, o.trusted)
    /\ Announced(o) => Committed(o.next)

RosterInv ==
    /\ \A i \in 1 .. Len(rlog) : rlog[i].version = i - 1
    /\ RosterChain
    /\ \A c \in Clients : OpInv(op[c])
    /\ \A c \in Clients : pinR[c] = NoRoster \/ Committed(pinR[c])

-----------------------------------------------------------------------------

LEMMA RosterInit == Init => RosterInv
  <1> SUFFICES ASSUME Init PROVE RosterInv
    OBVIOUS
  <1> DEFINE n == Len(Joined)
             Upto(i) == {Joined[j] : j \in 1 .. i}
             genesis(i) == [id |-> i, version |-> i - 1, prev |-> i - 1,
                            members |-> Upto(i), author |-> Founder,
                            gen |-> 1, key |-> 1]
  <1>1. n \in Nat /\ n > 0
    BY EngineAssumption
  <1>2. rlog = [i \in 1 .. n |-> genesis(i)]
    BY DEF Init
  <1>3. Len(rlog) = n
    <2>1. rlog \in Seq(Roster)
      BY InitType DEF TypeInv, TypeOK
    <2> HIDE DEF genesis, n
    <2>2. DOMAIN rlog = 1 .. n /\ DOMAIN rlog = 1 .. Len(rlog)
      BY <1>2, <2>1, LenProperties
    <2>3. QED
      BY <1>1, <2>1, <2>2, LenProperties
  <1>4. \A i \in 1 .. Len(rlog) : rlog[i].version = i - 1
    BY <1>1, <1>2, <1>3
  <1>5. RosterChain
    <2>1. \A i \in 1 .. n : Founder \in Upto(i)
      BY <1>1 DEF Founder
    <2>2. ASSUME NEW i \in 2 .. Len(rlog)
          PROVE  /\ rlog[i].version = rlog[i-1].version + 1
                 /\ rlog[i].prev = rlog[i-1].id
                 /\ rlog[i].author \in rlog[i-1].members
      <3>1. i \in 1 .. n /\ i - 1 \in 1 .. n
        BY <1>1, <1>3
      <3>2. rlog[i] = genesis(i) /\ rlog[i-1] = genesis(i-1)
        BY <1>2, <3>1
      <3> HIDE DEF n, Upto
      <3>3. QED
        BY <2>1, <3>1, <3>2
    <2>3. QED
      BY <2>2 DEF RosterChain
  <1>6. \A c \in Clients : OpInv(op[c])
    BY DEF Init, OpInv, KindAt, Announced, ChangesRoster, Idle
  <1>7. \A c \in Clients : pinR[c] = NoRoster \/ Committed(pinR[c])
    <2> HIDE DEF genesis, n
    <2>1. Committed(genesis(n))
      <3>1. n \in 1 .. n
        BY <1>1
      <3>2. rlog[n] = genesis(n)
        BY <1>2, <3>1
      <3>3. QED
        BY <1>3, <3>1, <3>2 DEF Committed
    <2>2. pinR = [c \in Clients |->
                    IF c = Founder /\ Len(Joined) > 1 THEN genesis(n) ELSE NoRoster]
      BY DEF Init, genesis, n
    <2>3. QED
      BY <2>1, <2>2
  <1>8. QED
    BY <1>4, <1>5, <1>6, <1>7 DEF RosterInv

\* The current roster is a committed one, and the only one of its version.
LEMMA HeadIsCommitted ==
  ASSUME TypeInv, RosterInv
  PROVE  /\ Committed(RosterHead)
         /\ RosterHead.version = Len(rlog) - 1
         /\ \A r : Committed(r) /\ r.version = Len(rlog) - 1 => r = RosterHead
  <1>1. Len(rlog) \in Nat /\ Len(rlog) > 0
    BY DEF TypeInv, TypeOK
  <1>2. \A i \in 1 .. Len(rlog) : rlog[i].version = i - 1
    BY DEF RosterInv
  <1>3. Len(rlog) \in 1 .. Len(rlog)
    BY <1>1
  <1>4. ASSUME NEW r, Committed(r), r.version = Len(rlog) - 1 PROVE r = RosterHead
    <2>1. PICK i \in 1 .. Len(rlog) : rlog[i] = r
      BY <1>4 DEF Committed
    <2>2. i = Len(rlog)
      BY <1>1, <1>2, <1>4, <2>1
    <2>3. QED
      BY <2>1, <2>2 DEF RosterHead
  <1>5. QED
    BY <1>2, <1>3, <1>4 DEF Committed, RosterHead

\* What one client's step must establish when the rosters do not change.
LEMMA RosterFrame ==
  ASSUME TypeInv, RosterInv, NEW c \in Clients, NEW o \in Op, Become(c, o),
         OpInv(o), UNCHANGED rlog,
         \A d \in Clients : pinR'[d] = pinR[d] \/ Committed(pinR'[d])
  PROVE  RosterInv'
  <1>1. /\ op'[c] = o
        /\ \A d \in Clients : d # c => op'[d] = op[d]
    BY BecomeType DEF TypeInv
  <1>2. \A d \in Clients : OpInv(op'[d])
    BY <1>1 DEF RosterInv
  <1>3. \A d \in Clients : OpInv(op[d])'
    BY <1>2 DEF OpInv, Committed
  <1>4. \A d \in Clients : pinR'[d] = NoRoster \/ Committed(pinR'[d])
    BY DEF RosterInv
  <1>5. \A d \in Clients : (pinR[d] = NoRoster \/ Committed(pinR[d]))'
    BY <1>4 DEF Committed
  <1>6. QED
    BY <1>3, <1>5 DEF RosterInv, RosterChain

LEMMA IdleInv == Idle \in Op /\ OpInv(Idle)
  BY IdleType DEF OpInv, KindAt, Announced, ChangesRoster, Idle

\* A client in the middle of an operation: what the invariant says of it.
LEMMA OpInvHolds ==
  ASSUME TypeInv, RosterInv, NEW c \in Clients
  PROVE  /\ op[c] \in Op
         /\ OpInv(op[c])
  BY OpFacts DEF RosterInv

\* Ending an operation without touching the rosters and the pins is harmless.
LEMMA RosterFinish ==
  ASSUME TypeInv, RosterInv, NEW c \in Clients, Finish(c),
         UNCHANGED <<rlog, pinR>>
  PROVE  RosterInv'
  <1>1. Become(c, Idle)
    BY DEF Finish, Become
  <1>2. QED
    BY <1>1, IdleInv, RosterFrame

\* Moving on inside an operation without touching the rosters and the pins.
LEMMA RosterMove ==
  ASSUME TypeInv, RosterInv, NEW c \in Clients, NEW o \in Op, Become(c, o),
         op[c].pc \notin {"idle", "roster"},
         o.kind = op[c].kind, o.trusted = op[c].trusted, o.next = op[c].next,
         KindAt(o), Announced(o) => Announced(op[c]),
         UNCHANGED <<rlog, pinR>>
  PROVE  RosterInv'
  <1>1. OpInv(op[c])
    BY OpInvHolds
  <1>2. OpInv(o)
    BY <1>1 DEF OpInv
  <1>3. QED
    BY <1>2, RosterFrame

-----------------------------------------------------------------------------
(* The steps that read, commit or pin a roster *)

LEMMA RosterLoad ==
  ASSUME TypeInv, RosterInv, NEW c \in Clients, LoadTrustedRoster(c)
  PROVE  RosterInv'
  <1> DEFINE r == RosterHead
             loaded == [op[c] EXCEPT
               !.trusted = r,
               !.next = IF ChangesRoster(op[c].kind) THEN Successor(c, r) ELSE r,
               !.imp = got[c],
               !.pc = IF op[c].kind \in {"add", "remove"} THEN "casRoster"
                      ELSE "read"]
             o == IF Permitted(c, r) THEN loaded ELSE Idle
  <1>1. Become(c, o) /\ UNCHANGED rlog
    BY DEF LoadTrustedRoster, storeVars
  <1>2. op' \in [Clients -> Op] /\ op'[c] = o
    <2>1. TypeInv'
      BY LoadTrustedRosterType
    <2>2. op' \in [Clients -> Op] /\ op \in [Clients -> Op]
      BY <2>1 DEF TypeInv, TypeOK
    <2> HIDE DEF o
    <2>3. QED
      BY <1>1, <2>2 DEF Become
  <1>3. Committed(r)
    BY HeadIsCommitted
  <1>4. op[c] \in Op
    BY OpFacts
  <1>5. OpInv(o)
    <2>1. CASE Permitted(c, r)
      <3>1. /\ loaded.kind = op[c].kind
            /\ loaded.trusted = r
            /\ loaded.next = IF ChangesRoster(op[c].kind) THEN Successor(c, r) ELSE r
            /\ loaded.pc = IF op[c].kind \in {"add", "remove"} THEN "casRoster"
                           ELSE "read"
        BY <1>4 DEF Op
      <3>2. ChangesRoster(op[c].kind) => Extends(Successor(c, r), r)
        BY <2>1 DEF Extends, Successor, Permitted, ChangesRoster
      <3>3. KindAt(loaded) /\ ~Announced(loaded)
        BY <3>1 DEF KindAt, Announced, ChangesRoster
      <3> HIDE DEF loaded, r
      <3>4. OpInv(loaded)
        BY <1>3, <3>1, <3>2, <3>3 DEF OpInv
      <3>5. QED
        BY <2>1, <3>4
    <2>2. CASE ~Permitted(c, r)
      BY <2>2, IdleInv
    <2>3. QED
      BY <2>1, <2>2
  <1>6. \A d \in Clients : pinR'[d] = pinR[d] \/ Committed(pinR'[d])
    <2> HIDE DEF o
    <2>1. pinR' = [pinR EXCEPT ![c] = r] /\ pinR \in [Clients -> Roster]
      BY DEF LoadTrustedRoster, TypeInv, TypeOK
    <2>2. QED
      BY <1>3, <2>1
  <1>7. o \in Op
    BY <1>2
  <1> HIDE DEF o
  <1>8. QED
    BY <1>1, <1>5, <1>6, <1>7, RosterFrame

\* The compare-and-swap compares versions, versions name rosters, and the roster
\* appended was built from the one it replaces.
LEMMA RosterCAS ==
  ASSUME TypeInv, RosterInv, NEW c \in Clients, CASRoster(c)
  PROVE  RosterInv'
  <1> DEFINE o == [op[c] EXCEPT
                     !.pc = IF op[c].kind # "rekey" THEN "keyfile"
                            ELSE IF PacksAt(op[c].cur) = {} THEN "save"
                            ELSE "delete"]
             new == op[c].next
             old == op[c].trusted
  <1>1. /\ op[c].pc = "casRoster"
        /\ old.version = Len(rlog) - 1
        /\ rlog' = Append(rlog, new)
        /\ Become(c, o)
        /\ pinR' = pinR
    BY DEF CASRoster, stateFile
  <1>2. op[c] \in Op /\ OpInv(op[c]) /\ new \in Roster
    BY OpFacts, OpInvHolds
  <1>3. /\ ChangesRoster(op[c].kind)
        /\ Committed(old)
        /\ Extends(new, old)
    BY <1>1, <1>2 DEF OpInv, KindAt
  <1>4. old = RosterHead
    BY <1>1, <1>3, HeadIsCommitted
  <1>5. rlog \in Seq(Roster) /\ Len(rlog) \in Nat /\ Len(rlog) > 0
    BY DEF TypeInv, TypeOK
  <1>6. /\ Len(rlog') = Len(rlog) + 1
        /\ \A i \in 1 .. Len(rlog) : rlog'[i] = rlog[i]
        /\ rlog'[Len(rlog) + 1] = new
    BY <1>1, <1>2, <1>5, AppendProperties
  <1>7. \A i \in 1 .. Len(rlog') : rlog'[i].version = i - 1
    <2>1. \A i \in 1 .. Len(rlog) : rlog[i].version = i - 1
      BY DEF RosterInv
    <2>2. new.version = Len(rlog)
      BY <1>1, <1>3, <1>5 DEF Extends
    <2> SUFFICES ASSUME NEW i \in 1 .. Len(rlog') PROVE rlog'[i].version = i - 1
      OBVIOUS
    <2>3. CASE i = Len(rlog) + 1
      BY <1>5, <1>6, <2>2, <2>3
    <2>4. CASE i # Len(rlog) + 1
      <3>1. i \in 1 .. Len(rlog)
        BY <1>5, <1>6, <2>4
      <3>2. QED
        BY <1>6, <2>1, <3>1
    <2>5. QED
      BY <2>3, <2>4
  <1>8. RosterChain'
    <2> SUFFICES ASSUME NEW i \in 2 .. Len(rlog')
                 PROVE  /\ rlog'[i].version = rlog'[i-1].version + 1
                        /\ rlog'[i].prev = rlog'[i-1].id
                        /\ rlog'[i].author \in rlog'[i-1].members
      BY DEF RosterChain
    <2>1. CASE i = Len(rlog) + 1
      <3>1. rlog'[i] = new /\ rlog'[i-1] = old
        <4>1. i - 1 = Len(rlog) /\ Len(rlog) \in 1 .. Len(rlog)
          BY <1>5, <2>1
        <4>2. QED
          BY <1>4, <1>6, <2>1, <4>1 DEF RosterHead
      <3> HIDE DEF new, old
      <3>2. QED
        BY <1>3, <3>1 DEF Extends
    <2>2. CASE i # Len(rlog) + 1
      <3>1. i \in 2 .. Len(rlog) /\ i \in 1 .. Len(rlog) /\ i - 1 \in 1 .. Len(rlog)
        BY <1>5, <1>6, <2>2
      <3>2. rlog'[i] = rlog[i] /\ rlog'[i-1] = rlog[i-1]
        BY <1>6, <3>1
      <3>3. QED
        BY <3>1, <3>2 DEF RosterInv, RosterChain
    <2>3. QED
      BY <2>1, <2>2
  <1>9. \A r : Committed(r) => Committed(r)'
    BY <1>5, <1>6 DEF Committed
  <1>10. \E i \in 1 .. Len(rlog') : rlog'[i] = new
    <2>1. Len(rlog) + 1 \in 1 .. Len(rlog')
      BY <1>5, <1>6
    <2>2. QED
      BY <1>6, <2>1
  <1>11. /\ o \in Op /\ o.kind = op[c].kind /\ o.trusted = old /\ o.next = new
         /\ o.pc \in {"keyfile", "save", "delete"}
         /\ o.pc = "delete" => o.kind = "rekey"
    BY <1>2 DEF Op, PCs
  <1> HIDE DEF o
  <1>12. /\ op'[c] = o
         /\ \A d \in Clients : d # c => op'[d] = op[d]
    BY <1>1, <1>11, BecomeType DEF TypeInv
  <1> HIDE DEF old
  <1>13. OpInv(op[c])'
    <2>1. \E i \in 1 .. Len(rlog') : rlog'[i] = old
      BY <1>3, <1>9 DEF Committed
    <2>2. Extends(o.next, o.trusted) /\ KindAt(o)
      BY <1>3, <1>11 DEF KindAt
    <2>3. \E i \in 1 .. Len(rlog') : rlog'[i] = o.trusted
      BY <1>11, <2>1
    <2>4. \E i \in 1 .. Len(rlog') : rlog'[i] = o.next
      BY <1>10, <1>11
    <2> HIDE DEF new
    <2>5. QED
      BY <1>12, <2>2, <2>3, <2>4 DEF OpInv, Committed
  <1>14. \A d \in Clients : OpInv(op[d])'
    <2> SUFFICES ASSUME NEW d \in Clients PROVE OpInv(op[d])'
      OBVIOUS
    <2>1. CASE d = c
      BY <1>13, <2>1
    <2>2. CASE d # c
      <3>1. op'[d] = op[d] /\ OpInv(op[d])
        BY <1>12, <2>2 DEF RosterInv
      <3>2. op[d].pc \notin {"idle", "roster"} =>
              \E i \in 1 .. Len(rlog') : rlog'[i] = op[d].trusted
        BY <1>9, <3>1 DEF OpInv, Committed
      <3>3. Announced(op[d]) => \E i \in 1 .. Len(rlog') : rlog'[i] = op[d].next
        BY <1>9, <3>1 DEF OpInv, Committed
      <3>4. QED
        BY <3>1, <3>2, <3>3 DEF OpInv, Committed
    <2>3. QED
      BY <2>1, <2>2
  <1>15. \A d \in Clients : (pinR[d] = NoRoster \/ Committed(pinR[d]))'
    <2> SUFFICES ASSUME NEW d \in Clients
                 PROVE  \/ pinR[d] = NoRoster
                        \/ \E i \in 1 .. Len(rlog') : rlog'[i] = pinR[d]
      BY <1>1 DEF Committed
    <2>1. QED
      BY <1>9 DEF RosterInv, Committed
  <1>16. QED
    BY <1>7, <1>8, <1>14, <1>15 DEF RosterInv

LEMMA RosterSave ==
  ASSUME TypeInv, RosterInv, NEW c \in Clients, Save(c)
  PROVE  RosterInv'
  <1>1. Become(c, Idle) /\ rlog' = rlog
    BY DEF Save, Finish, Become, storeVars
  <1>2. OpInv(op[c]) /\ op[c].pc = "save" /\ op[c] \in Op
    BY OpInvHolds DEF Save
  <1>3. ChangesRoster(op[c].kind) => Committed(op[c].next)
    BY <1>2 DEF OpInv, Announced
  <1>4. \A d \in Clients : pinR'[d] = pinR[d] \/ Committed(pinR'[d])
    BY <1>3 DEF Save, TypeInv, TypeOK
  <1>5. QED
    BY <1>1, <1>4, IdleInv, RosterFrame

-----------------------------------------------------------------------------
(* The steps inside an operation *)

LEMMA RosterLoadCurrent ==
  ASSUME TypeInv, RosterInv, NEW c \in Clients, LoadCurrent(c)
  PROVE  RosterInv'
  <1> DEFINE n == Len(mlog)
             o == [op[c] EXCEPT !.cur = n, !.packs = PacksAt(n),
                                !.pc = AfterRead(op[c].kind, n)]
  <1>1. UNCHANGED <<rlog, pinR>> /\ op[c].pc = "read" /\ op[c].kind # "fetch"
    BY DEF LoadCurrent, storeVars, stateFile
  <1>2. CASE n = 0 \/ Accepts(c, n)
    <2>1. Become(c, o)
      BY <1>2 DEF LoadCurrent
    <2>2. op[c] \in Op /\ n \in Nat /\ PacksAt(n) \in SUBSET Pack
      BY AtType, OpFacts DEF TypeInv
    <2>3. AfterRead(op[c].kind, n) \in PCs
      BY DEF AfterRead, PCs
    <2> HIDE DEF n
    <2>4. /\ o \in Op /\ o.kind = op[c].kind /\ o.trusted = op[c].trusted
          /\ o.next = op[c].next /\ o.pc = AfterRead(op[c].kind, n)
      BY <2>2, <2>3 DEF Op
    <2>5. KindAt(o) /\ (Announced(o) => Announced(op[c]))
      BY <1>1, <2>4 DEF KindAt, Announced, AfterRead, ChangesRoster
    <2> HIDE DEF o
    <2>6. QED
      BY <1>1, <2>1, <2>4, <2>5, RosterMove
  <1>3. CASE ~(n = 0 \/ Accepts(c, n))
    <2>1. Finish(c)
      BY <1>3 DEF LoadCurrent, Finish, Become
    <2>2. QED
      BY <1>1, <2>1, RosterFinish
  <1>4. QED
    BY <1>2, <1>3

\* The moves inside an operation: o goes on as p with the same rosters in hand.
Moves(o, p) ==
    /\ p.kind = o.kind /\ p.trusted = o.trusted /\ p.next = o.next
    /\ \/ o.pc \in {"objects", "repack"} /\ p.pc = "cas"
       \/ o.pc = "cas" /\ o.kind = "rekey" /\ p.pc = "keyfile"
       \/ o.pc = "cas" /\ o.kind # "rekey" /\ p.pc = "save"
       \/ o.pc = "cas" /\ o.kind = "push" /\ p.pc = "read"
       \/ o.pc = "keyfile" /\ o.kind = "rekey" /\ p.pc = "casRoster"
       \/ o.pc = "keyfile" /\ o.kind # "rekey" /\ p.pc = "read"
       \/ o.pc \in {"delete", "import"} /\ p.pc = "save"
       \/ o.pc = "read" /\ o.kind = "fetch" /\ p.pc = "import"

LEMMA RosterInner ==
  ASSUME TypeInv, RosterInv, NEW c \in Clients,
         \/ PreparePack(c) \/ Repack(c) \/ CASManifest(c) \/ ManifestConflict(c)
         \/ PutKeyfile(c) \/ OldPacksDeleted(c) \/ FetchManifest(c)
         \/ ImportAndUpdateRefs(c)
  PROVE  RosterInv'
  <1>1. op[c] \in Op
    BY OpFacts
  <1>2. UNCHANGED <<rlog, pinR>>
    BY DEF PreparePack, Repack, CASManifest, ManifestConflict, PutKeyfile,
           OldPacksDeleted, FetchManifest, ImportAndUpdateRefs, storeVars, stateFile
  <1>3. TypeInv'
    BY PreparePackType, RepackType, CASManifestType, ManifestConflictType,
       PutKeyfileType, DeleteType, FetchManifestType, ImportAndUpdateRefsType
  <1>4. op \in [Clients -> Op] /\ op' \in [Clients -> Op]
    BY <1>3 DEF TypeInv, TypeOK
  <1>5. Become(c, op'[c]) /\ op'[c] \in Op
    BY <1>4 DEF PreparePack, Repack, CASManifest, ManifestConflict, PutKeyfile,
          OldPacksDeleted, FetchManifest, ImportAndUpdateRefs, Finish, Become
  <1>6. op'[c] = Idle \/ Moves(op[c], op'[c])
    <2>1. CASE PreparePack(c)
      <3>1. CASE Finish(c)
        BY <1>4, <3>1 DEF Finish
      <3>2. CASE ~Finish(c)
        <4>1. PICK im, ps :
                op' = [op EXCEPT ![c] = [op[c] EXCEPT !.imp = im, !.packs = ps, !.pc = "cas"]]
          BY <2>1, <3>2 DEF PreparePack, Become
        <4>2. op'[c] = [op[c] EXCEPT !.imp = im, !.packs = ps, !.pc = "cas"]
          BY <1>4, <4>1
        <4>3. /\ op'[c].kind = op[c].kind /\ op'[c].trusted = op[c].trusted
              /\ op'[c].next = op[c].next
              /\ op'[c].pc = "cas"
          BY <1>1, <4>2 DEF Op
        <4>4. QED
          BY <2>1, <4>3 DEF PreparePack, Moves
      <3>3. QED
        BY <3>1, <3>2
    <2>2. CASE Repack(c)
      <3>1. CASE Finish(c)
        BY <1>4, <3>1 DEF Finish
      <3>2. CASE ~Finish(c)
        <4> DEFINE new == Resealed(c, op[c].packs)
        <4>0.
                op' = [op EXCEPT ![c] = [op[c] EXCEPT !.imp = @ \cup new, !.packs = new, !.pc = "cas"]]
          BY <2>2, <3>2 DEF Repack, Become
        <4> HIDE DEF new
        <4>1. PICK im, ps :
                op' = [op EXCEPT ![c] = [op[c] EXCEPT !.imp = im, !.packs = ps, !.pc = "cas"]]
          BY <4>0
        <4>2. op'[c] = [op[c] EXCEPT !.imp = im, !.packs = ps, !.pc = "cas"]
          BY <1>4, <4>1
        <4>3. /\ op'[c].kind = op[c].kind /\ op'[c].trusted = op[c].trusted
              /\ op'[c].next = op[c].next
              /\ op'[c].pc = "cas"
          BY <1>1, <4>2 DEF Op
        <4>4. QED
          BY <2>2, <4>3 DEF Repack, Moves
      <3>3. QED
        BY <3>1, <3>2
    <2>3. CASE CASManifest(c)
      BY <1>1, <1>4, <2>3 DEF CASManifest, Become, Moves, Op
    <2>4. CASE ManifestConflict(c)
      BY <1>1, <1>4, <2>4 DEF ManifestConflict, Become, Moves, Op
    <2>5. CASE PutKeyfile(c)
      BY <1>1, <1>4, <2>5 DEF PutKeyfile, Become, Moves, Op
    <2>6. CASE OldPacksDeleted(c)
      BY <1>1, <1>4, <2>6 DEF OldPacksDeleted, Become, Moves, Op
    <2>7. CASE FetchManifest(c)
      BY <1>1, <1>4, <2>7 DEF FetchManifest, Become, Moves, Op
    <2>8. CASE ImportAndUpdateRefs(c)
      <3>1. CASE Finish(c)
        BY <1>4, <3>1 DEF Finish
      <3>2. CASE ~Finish(c)
        <4>1. PICK im, n :
                op' = [op EXCEPT ![c] = [op[c] EXCEPT !.imp = im, !.wrote = n, !.pc = "save"]]
          BY <2>8, <3>2 DEF ImportAndUpdateRefs, Become
        <4>2. op'[c] = [op[c] EXCEPT !.imp = im, !.wrote = n, !.pc = "save"]
          BY <1>4, <4>1
        <4>3. /\ op'[c].kind = op[c].kind /\ op'[c].trusted = op[c].trusted
              /\ op'[c].next = op[c].next
              /\ op'[c].pc = "save"
          BY <1>1, <4>2 DEF Op
        <4>4. QED
          BY <2>8, <4>3 DEF ImportAndUpdateRefs, Moves
      <3>3. QED
        BY <3>1, <3>2
    <2>9. QED
      BY <2>1, <2>2, <2>3, <2>4, <2>5, <2>6, <2>7, <2>8
  <1>7. CASE op'[c] = Idle
    <2>1. Finish(c)
      BY <1>5, <1>7 DEF Finish, Become
    <2>2. QED
      BY <1>2, <2>1, RosterFinish
  <1>8. CASE Moves(op[c], op'[c])
    <2>1. KindAt(op[c])
      BY OpInvHolds DEF OpInv
    <2>2. op[c].pc \notin {"idle", "roster"}
      BY <1>8 DEF Moves
    <2>3. KindAt(op'[c]) /\ (Announced(op'[c]) => Announced(op[c]))
      BY <1>8, <2>1 DEF Moves, KindAt, Announced, ChangesRoster
    <2>4. op'[c].kind = op[c].kind /\ op'[c].trusted = op[c].trusted
          /\ op'[c].next = op[c].next
      BY <1>8 DEF Moves
    <2>5. \A o \in Op :
             /\ Become(c, o) /\ o.kind = op[c].kind
             /\ o.trusted = op[c].trusted /\ o.next = op[c].next
             /\ KindAt(o) /\ (Announced(o) => Announced(op[c]))
             => RosterInv'
      BY <1>2, <2>2, RosterMove
    <2>6. QED
      BY <1>5, <2>3, <2>4, <2>5
  <1>9. QED
    BY <1>6, <1>7, <1>8

LEMMA RosterBegin ==
  ASSUME TypeInv, RosterInv, NEW c \in Clients, Begin(c)
  PROVE  RosterInv'
  <1>1. TypeInv' /\ op \in [Clients -> Op] /\ op' \in [Clients -> Op]
    BY BeginType DEF TypeInv, TypeOK
  <1>2. PICK k, who, want : k \in Kinds /\ who \in Clients
                                /\ RefreshPackKeys(c, k, who, want)
    BY DEF Begin, BeginPush, BeginOther, Kinds
  <1>3. Become(c, op'[c]) /\ op'[c].pc = "roster" /\ UNCHANGED <<rlog, pinR>>
    BY <1>1, <1>2 DEF RefreshPackKeys, Become, storeVars, Idle
  <1>4. OpInv(op'[c]) /\ op'[c] \in Op
    BY <1>1, <1>3 DEF OpInv, KindAt, Announced
  <1>5. \A o \in Op : Become(c, o) /\ OpInv(o) => RosterInv'
    BY <1>3, RosterFrame
  <1>6. QED
    BY <1>3, <1>4, <1>5

LEMMA RosterInductive == TypeInv /\ RosterInv /\ [Next]_vars => RosterInv'
  <1> SUFFICES ASSUME TypeInv, RosterInv, [Next]_vars PROVE RosterInv'
    OBVIOUS
  <1>1. ASSUME UNCHANGED <<rlog, op, pinR>> PROVE RosterInv'
    BY <1>1 DEF RosterInv, RosterChain, OpInv, Committed
  <1>2. CASE UNCHANGED vars
    BY <1>1, <1>2 DEF vars, storeVars, stateFile
  <1>3. CASE Next
    <2>1. PICK c \in Clients : \/ \E r \in Refs : Commit(c, r)
                               \/ Begin(c) \/ Step(c) \/ Crash(c)
      BY <1>3 DEF Next
    <2>2. CASE (\E r \in Refs : Commit(c, r)) \/ DeleteOldPack(c)
      BY <1>1, <2>2 DEF Commit, DeleteOldPack, storeVars, stateFile
    <2>3. CASE Begin(c)
      BY <2>3, RosterBegin
    <2>4. CASE \/ Crash(c) \/ RefuseRoster(c) \/ RosterConflict(c)
               \/ PreparePackFails(c) \/ ImportFailsInFetch(c)
      BY <2>4, RosterFinish DEF Crash, RefuseRoster, RosterConflict,
         PreparePackFails, ImportFailsInFetch, ImportFails, storeVars, stateFile
    <2>5. CASE Step(c)
      BY <2>2, <2>4, <2>5, RosterLoad, RosterLoadCurrent, RosterInner, RosterCAS,
         RosterSave DEF Step
    <2>6. QED
      BY <2>1, <2>2, <2>3, <2>4, <2>5
  <1>4. QED
    BY <1>2, <1>3

LEMMA RosterInvCorrect == Spec => [](TypeInv /\ RosterInv)
  <1>1. Init => RosterInv
    BY RosterInit
  <1>2. TypeInv /\ RosterInv /\ [Next]_vars => RosterInv'
    BY RosterInductive
  <1>3. QED
    BY <1>1, <1>2, TypeInvCorrect, PTL DEF Spec

\* The rosters the store ever served form one chain of authorized successors,
\* whatever additions, removals, rekeys and crashes interleave.
THEOREM RostersChain == Spec => []RosterChain
  <1>1. RosterInv => RosterChain
    BY DEF RosterInv
  <1>2. QED
    BY <1>1, RosterInvCorrect, PTL

\* No client ever pins a roster or a manifest that was not committed, even when
\* the operation that built it lost its compare-and-swap or was cut short.
THEOREM PinsAreCommitted == Spec => []PinsCommitted
  <1>1. TypeInv /\ RosterInv => PinsCommitted
    BY DEF TypeInv, HashesCommitted, RosterInv, PinsCommitted, Committed
  <1>2. QED
    BY <1>1, RosterInvCorrect, PTL
-----------------------------------------------------------------------------
(* Pins follow the two chains.  A pin is written long after it was decided  *)
(* on, so the invariant says that what an operation is going to pin still   *)
(* follows what is pinned now.                                              *)

\* Manifest n may replace the pin of client c.
Follows(c, n) ==
    /\ n \in 1 .. Len(mlog)
    /\ \/ pinM[c] = 0
       \/ mlog[n].prev = pinM[c]
       \/ n > pinM[c] /\ mlog[n].signer = c

PinsAhead(c) ==
    /\ op[c].pc \notin {"idle", "roster"} => pinR[c] = op[c].trusted
    /\ op[c].pc = "import" => Follows(c, op[c].cur)
    /\ op[c].wrote # 0 => Follows(c, op[c].wrote)

PinInv == \A c \in Clients : PinsAhead(c)

-----------------------------------------------------------------------------

LEMMA PinsInit == Init => PinInv
  BY DEF Init, PinInv, PinsAhead, Idle

LEMMA FollowsKept ==
  ASSUME TypeInv, [Next]_vars, NEW c \in Clients, NEW n, Follows(c, n),
         pinM'[c] = pinM[c]
  PROVE  Follows(c, n)'
  <1>1. n \in 1 .. Len(mlog') /\ mlog'[n] = mlog[n]
    BY LogGrows DEF Follows
  <1>2. QED
    BY <1>1 DEF Follows

\* A client that takes no step keeps what it has.
LEMMA OthersKeep ==
  ASSUME TypeInv, PinInv, [Next]_vars, NEW c \in Clients,
         op'[c] = op[c], pinR'[c] = pinR[c], pinM'[c] = pinM[c]
  PROVE  PinsAhead(c)'
  <1>1. PinsAhead(c)
    BY DEF PinInv
  <1>2. \A n : Follows(c, n) => Follows(c, n)'
    BY FollowsKept
  <1>3. QED
    BY <1>1, <1>2 DEF PinsAhead

\* An end of the operation, and the moves that pin and choose nothing.
Quiet(o, p) ==
    \/ p = Idle
    \/ /\ p.wrote = o.wrote /\ p.trusted = o.trusted
       /\ p.pc = "import" => o.pc = "import" /\ p.cur = o.cur
       /\ o.pc \notin {"idle", "roster"}
    \/ p.pc = "roster" /\ p.wrote = 0

LEMMA QuietKeeps ==
  ASSUME TypeInv, PinInv, [Next]_vars, NEW c \in Clients,
         Quiet(op[c], op'[c]), pinR'[c] = pinR[c], pinM'[c] = pinM[c]
  PROVE  PinsAhead(c)'
  <1>1. PinsAhead(c)
    BY DEF PinInv
  <1>2. \A n : Follows(c, n) => Follows(c, n)'
    BY FollowsKept
  <1>3. CASE op'[c] = Idle
    BY <1>3 DEF PinsAhead, Idle
  <1>4. CASE op'[c] # Idle
    BY <1>1, <1>2, <1>4 DEF PinsAhead, Quiet
  <1>5. QED
    BY <1>3, <1>4

-----------------------------------------------------------------------------
(* The steps that read or publish a manifest                               *)

LEMMA PinsCASManifest ==
  ASSUME TypeInv, PinInv, [Next]_vars, NEW c \in Clients, CASManifest(c)
  PROVE  PinsAhead(c)'
  <1> DEFINE o == [op[c] EXCEPT !.wrote = op[c].cur + 1,
                     !.pc = IF op[c].kind = "rekey" THEN "keyfile" ELSE "save"]
  <1>1. op[c] \in Op /\ Len(mlog) \in Nat /\ mlog \in Seq(Manifest)
    BY OpFacts DEF TypeInv, TypeOK
  <1>2. /\ mlog' = Append(mlog, Published(c)) /\ op[c].cur = Len(mlog)
        /\ op[c].pc = "cas" /\ UNCHANGED <<pinR, pinM>>
        /\ op'[c] = o
    BY BecomeType DEF CASManifest, stateFile, TypeInv, TypeOK, Become
  <1>3. Len(mlog') = Len(mlog) + 1 /\ mlog'[Len(mlog) + 1] = Published(c)
    BY <1>1, <1>2, PublishedType, AppendProperties
  <1>4. /\ op'[c].wrote = Len(mlog) + 1 /\ op'[c].trusted = op[c].trusted
        /\ op'[c].pc \in {"keyfile", "save"}
    BY <1>1, <1>2 DEF Op
  <1> HIDE DEF o
  <1>5. pinM[c] \in Nat /\ pinM[c] <= Len(mlog)
    BY DEF TypeInv, TypeOK, HashesCommitted
  <1>6. mlog'[Len(mlog) + 1].signer = c
    BY <1>3 DEF Published
  <1>7. \A n : n = Len(mlog) + 1 => Follows(c, n)'
    BY <1>1, <1>2, <1>3, <1>5, <1>6 DEF Follows
  <1>8. pinR[c] = op[c].trusted
    BY <1>2 DEF PinInv, PinsAhead
  <1>9. QED
    BY <1>2, <1>4, <1>7, <1>8 DEF PinsAhead

LEMMA PinsFetchManifest ==
  ASSUME TypeInv, PinInv, [Next]_vars, NEW c \in Clients, FetchManifest(c)
  PROVE  PinsAhead(c)'
  <1> DEFINE n == Len(mlog)
  <1>1. op[c] \in Op /\ n \in Nat /\ op \in [Clients -> Op]
    BY OpFacts DEF TypeInv, TypeOK
  <1>2. UNCHANGED <<mlog, pinR, pinM>> /\ op[c].pc = "read"
    BY DEF FetchManifest, storeVars, stateFile
  <1>3. PinsAhead(c)
    BY DEF PinInv
  <1>4. \A m : Follows(c, m) => Follows(c, m)'
    BY <1>2 DEF Follows
  <1>5. CASE n # 0 /\ Accepts(c, n) /\ Fresh(c, n)
    <2>1. op'[c] = [op[c] EXCEPT !.cur = n, !.packs = PacksAt(n), !.pc = "import"]
      BY <1>1, <1>5 DEF FetchManifest, Become
    <2>2. /\ op'[c].cur = n /\ op'[c].wrote = op[c].wrote
          /\ op'[c].trusted = op[c].trusted
      BY <1>1, <2>1 DEF Op
    <2>3. Follows(c, n)
      BY <1>1, <1>5 DEF Follows, Fresh
    <2> HIDE DEF n
    <2>4. QED
      BY <1>2, <1>3, <1>4, <2>2, <2>3 DEF PinsAhead
  <1>6. CASE ~(n # 0 /\ Accepts(c, n) /\ Fresh(c, n))
    <2>1. op'[c] = Idle
      BY <1>1, <1>6 DEF FetchManifest, Become
    <2>2. QED
      BY <2>1 DEF PinsAhead, Idle
  <1>7. QED
    BY <1>5, <1>6

LEMMA PinsImport ==
  ASSUME TypeInv, PinInv, [Next]_vars, NEW c \in Clients, ImportAndUpdateRefs(c)
  PROVE  PinsAhead(c)'
  <1>1. op[c] \in Op /\ op \in [Clients -> Op]
    BY OpFacts DEF TypeInv, TypeOK
  <1>2. UNCHANGED <<pinR, pinM>> /\ op[c].pc = "import"
    BY DEF ImportAndUpdateRefs, storeVars, stateFile
  <1>3. PinsAhead(c) /\ \A n : Follows(c, n) => Follows(c, n)'
    BY <1>2, FollowsKept DEF PinInv
  <1>4. CASE Finish(c)
    BY <1>1, <1>4 DEF Finish, PinsAhead, Idle
  <1>5. CASE ~Finish(c)
    <2>1. PICK im : op' = [op EXCEPT ![c] =
                 [op[c] EXCEPT !.imp = im, !.wrote = op[c].cur, !.pc = "save"]]
      BY <1>5 DEF ImportAndUpdateRefs, Become
    <2>2. /\ op'[c].wrote = op[c].cur /\ op'[c].pc = "save"
          /\ op'[c].trusted = op[c].trusted
      BY <1>1, <2>1 DEF Op
    <2>3. QED
      BY <1>2, <1>3, <2>2 DEF PinsAhead
  <1>6. QED
    BY <1>4, <1>5

-----------------------------------------------------------------------------
(* The steps that pin                                                      *)

LEMMA PinsLoadRoster ==
  ASSUME TypeInv, PinInv, RosterInv, [Next]_vars, NEW c \in Clients,
         LoadTrustedRoster(c)
  PROVE  /\ PinsAhead(c)'
         /\ UNCHANGED <<mlog, pinM>>
         /\ pinR'[c] # pinR[c] =>
              \/ pinR[c] = NoRoster
              \/ pinR'[c].prev = pinR[c].id /\ pinR'[c].author \in pinR[c].members
  <1> DEFINE r == RosterHead
             loaded == [op[c] EXCEPT
               !.trusted = r,
               !.next = IF ChangesRoster(op[c].kind) THEN Successor(c, r) ELSE r,
               !.imp = got[c],
               !.pc = IF op[c].kind \in {"add", "remove"} THEN "casRoster"
                      ELSE "read"]
  <1>1. op[c] \in Op /\ op \in [Clients -> Op] /\ pinR \in [Clients -> Roster]
    BY OpFacts DEF TypeInv, TypeOK
  <1>2. UNCHANGED <<mlog, pinM>> /\ TrustsRoster(c, r) /\ pinR'[c] = r
    BY <1>1 DEF LoadTrustedRoster, storeVars
  <1>3. op'[c] = IF Permitted(c, r) THEN loaded ELSE Idle
    BY <1>1 DEF LoadTrustedRoster, Become
  <1>4. /\ loaded.trusted = r /\ loaded.wrote = op[c].wrote
        /\ loaded.pc \in {"casRoster", "read"}
    BY <1>1 DEF Op
  <1>5. \A n : Follows(c, n) => Follows(c, n)'
    BY <1>2, FollowsKept
  <1>6. PinsAhead(c)
    BY DEF PinInv
  <1> HIDE DEF loaded
  <1>7. PinsAhead(c)'
    <2>1. CASE op'[c] = loaded
      BY <1>2, <1>4, <1>5, <1>6, <2>1 DEF PinsAhead
    <2>2. CASE op'[c] = Idle
      BY <2>2 DEF PinsAhead, Idle
    <2>3. QED
      BY <1>3, <2>1, <2>2
  <1>8. ASSUME pinR[c] # NoRoster, r.version = pinR[c].version PROVE r = pinR[c]
    <2>1. Committed(pinR[c])
      BY <1>8 DEF RosterInv
    <2>2. QED
      BY <1>8, <2>1, HeadIsCommitted
  <1> HIDE DEF r
  <1>9. QED
    BY <1>2, <1>7, <1>8 DEF TrustsRoster

LEMMA PinsSave ==
  ASSUME TypeInv, PinInv, RosterInv, [Next]_vars, NEW c \in Clients, Save(c)
  PROVE  /\ PinsAhead(c)'
         /\ UNCHANGED mlog
         /\ pinM'[c] # pinM[c] => Follows(c, pinM'[c])
         /\ pinR'[c] # pinR[c] =>
              pinR'[c].prev = pinR[c].id /\ pinR'[c].author \in pinR[c].members
  <1>1. /\ op \in [Clients -> Op] /\ pinR \in [Clients -> Roster]
        /\ pinM \in [Clients -> Nat]
    BY DEF TypeInv, TypeOK
  <1>2. op'[c] = Idle /\ UNCHANGED mlog /\ op[c].pc = "save"
    BY <1>1 DEF Save, Finish, storeVars
  <1>3. PinsAhead(c) /\ OpInv(op[c])
    BY DEF PinInv, RosterInv
  <1>4. /\ pinM'[c] = IF op[c].wrote = 0 THEN pinM[c] ELSE op[c].wrote
        /\ pinR'[c] = IF ChangesRoster(op[c].kind) THEN op[c].next ELSE pinR[c]
    BY <1>1 DEF Save
  <1>5. PinsAhead(c)'
    BY <1>2 DEF PinsAhead, Idle
  <1>6. QED
    BY <1>2, <1>3, <1>4, <1>5 DEF PinsAhead, OpInv, Extends

-----------------------------------------------------------------------------

\* The other steps of an operation.
LEMMA PinsInner ==
  ASSUME TypeInv, PinInv, [Next]_vars, NEW c \in Clients,
         \/ Begin(c) \/ Crash(c) \/ RefuseRoster(c) \/ LoadCurrent(c)
         \/ PreparePack(c) \/ PreparePackFails(c) \/ Repack(c)
         \/ ManifestConflict(c) \/ PutKeyfile(c) \/ CASRoster(c)
         \/ RosterConflict(c) \/ OldPacksDeleted(c) \/ ImportFailsInFetch(c)
  PROVE  PinsAhead(c)' /\ UNCHANGED <<pinR, pinM>>
  <1>1. op[c] \in Op /\ op \in [Clients -> Op]
    BY OpFacts DEF TypeInv, TypeOK
  <1>2. UNCHANGED <<pinR, pinM>>
    BY DEF Begin, BeginPush, BeginOther, RefreshPackKeys, Crash, RefuseRoster,
           LoadCurrent, PreparePack, PreparePackFails, ImportFails, Repack,
           ManifestConflict, PutKeyfile, CASRoster, RosterConflict,
           OldPacksDeleted, ImportFailsInFetch, storeVars, stateFile
  <1>3. Quiet(op[c], op'[c])
    <2>1. CASE Begin(c)
      <3>1. PICK k, who, want : RefreshPackKeys(c, k, who, want)
        BY <2>1 DEF Begin, BeginPush, BeginOther
      <3>2. op'[c].pc = "roster" /\ op'[c].wrote = 0
        BY <1>1, <3>1 DEF RefreshPackKeys, Become, Idle
      <3>3. QED
        BY <3>2 DEF Quiet
    <2>2. CASE \/ Crash(c) \/ RefuseRoster(c) \/ RosterConflict(c)
               \/ PreparePackFails(c) \/ ImportFailsInFetch(c) \/ Finish(c)
      BY <1>1, <2>2 DEF Crash, RefuseRoster, RosterConflict, PreparePackFails,
         ImportFailsInFetch, ImportFails, Finish, Quiet
    <2>3. CASE LoadCurrent(c)
      BY <1>1, <2>3 DEF LoadCurrent, AfterRead, Become, Quiet, Op
    <2>4. CASE PreparePack(c) /\ ~Finish(c)
      <3>1. PICK im, ps :
              op' = [op EXCEPT ![c] = [op[c] EXCEPT !.imp = im, !.packs = ps, !.pc = "cas"]]
        BY <2>4 DEF PreparePack, Become
      <3>2. op'[c] = [op[c] EXCEPT !.imp = im, !.packs = ps, !.pc = "cas"]
        BY <1>1, <3>1
      <3>3. /\ op'[c].wrote = op[c].wrote /\ op'[c].trusted = op[c].trusted
            /\ op'[c].pc = "cas"
        BY <1>1, <3>2 DEF Op
      <3>4. QED
        BY <2>4, <3>3 DEF PreparePack, Quiet
    <2>5. CASE Repack(c) /\ ~Finish(c)
      <3> DEFINE new == Resealed(c, op[c].packs)
      <3>0. op' = [op EXCEPT ![c] =
                 [op[c] EXCEPT !.imp = @ \cup new, !.packs = new, !.pc = "cas"]]
        BY <2>5 DEF Repack, Become
      <3> HIDE DEF new
      <3>1. PICK im, ps :
              op' = [op EXCEPT ![c] = [op[c] EXCEPT !.imp = im, !.packs = ps, !.pc = "cas"]]
        BY <3>0
      <3>2. op'[c] = [op[c] EXCEPT !.imp = im, !.packs = ps, !.pc = "cas"]
        BY <1>1, <3>1
      <3>3. /\ op'[c].wrote = op[c].wrote /\ op'[c].trusted = op[c].trusted
            /\ op'[c].pc = "cas"
        BY <1>1, <3>2 DEF Op
      <3>4. QED
        BY <2>5, <3>3 DEF Repack, Quiet
    <2>6. CASE ManifestConflict(c)
      BY <1>1, <2>6 DEF ManifestConflict, Become, Quiet, Op
    <2>7. CASE PutKeyfile(c)
      BY <1>1, <2>7 DEF PutKeyfile, Become, Quiet, Op
    <2>8. CASE CASRoster(c)
      BY <1>1, <2>8 DEF CASRoster, Become, Quiet, Op
    <2>9. CASE OldPacksDeleted(c)
      BY <1>1, <2>9 DEF OldPacksDeleted, Become, Quiet, Op
    <2>10. QED
      BY <2>1, <2>2, <2>3, <2>4, <2>5, <2>6, <2>7, <2>8, <2>9
  <1>4. QED
    BY <1>2, <1>3, QuietKeeps

\* A pin that moves, moves along a chain.
ChainStep ==
    \A c \in Clients :
        /\ pinR'[c] # pinR[c] =>
              \/ pinR[c] = NoRoster
              \/ pinR'[c].prev = pinR[c].id /\ pinR'[c].author \in pinR[c].members
        /\ pinM'[c] # pinM[c] =>
              \/ pinM[c] = 0
              \/ mlog'[pinM'[c]].prev = pinM[c]
              \/ pinM'[c] > pinM[c] /\ mlog'[pinM'[c]].signer = c

\* Only the client of a step changes what that client has.
LEMMA OneClient ==
  ASSUME TypeInv, NEW c \in Clients, Begin(c) \/ Step(c) \/ Crash(c)
  PROVE  \A d \in Clients : d # c =>
           op'[d] = op[d] /\ pinR'[d] = pinR[d] /\ pinM'[d] = pinM[d]
  <1>1. /\ op \in [Clients -> Op] /\ pinR \in [Clients -> Roster]
        /\ pinM \in [Clients -> Nat]
    BY DEF TypeInv, TypeOK
  <1>2. CASE Begin(c) \/ Crash(c)
    BY <1>1, <1>2 DEF Begin, BeginPush, BeginOther, RefreshPackKeys, Crash, Become,
       Finish, stateFile
  <1>3. CASE \/ LoadTrustedRoster(c) \/ RefuseRoster(c)
             \/ LoadCurrent(c) \/ PreparePack(c) \/ PreparePackFails(c) \/ Repack(c)
             \/ CASManifest(c) \/ ManifestConflict(c)
    BY <1>1, <1>3 DEF LoadTrustedRoster, RefuseRoster, LoadCurrent, PreparePack,
       PreparePackFails, ImportFails, Repack, CASManifest, ManifestConflict,
       Become, Finish, storeVars, stateFile
  <1>4. CASE \/ PutKeyfile(c) \/ CASRoster(c) \/ RosterConflict(c)
             \/ DeleteOldPack(c) \/ OldPacksDeleted(c)
             \/ FetchManifest(c) \/ ImportAndUpdateRefs(c) \/ ImportFailsInFetch(c)
             \/ Save(c)
    BY <1>1, <1>4 DEF PutKeyfile, CASRoster, RosterConflict, DeleteOldPack,
       OldPacksDeleted, FetchManifest, ImportAndUpdateRefs, ImportFailsInFetch,
       ImportFails, Save, Become, Finish, storeVars, stateFile
  <1>5. QED
    BY <1>2, <1>3, <1>4 DEF Step

LEMMA PinsNext ==
  ASSUME TypeInv, RosterInv, PinInv, [Next]_vars
  PROVE  PinInv' /\ ChainStep
  <1>1. CASE UNCHANGED <<op, pinR, pinM>>
    BY <1>1, OthersKeep DEF PinInv, ChainStep
  <1>2. ASSUME NEW c \in Clients, Begin(c) \/ Step(c) \/ Crash(c),
               ~DeleteOldPack(c)
        PROVE  PinInv' /\ ChainStep
    <2>1. /\ PinsAhead(c)'
          /\ pinR'[c] # pinR[c] =>
               \/ pinR[c] = NoRoster
               \/ pinR'[c].prev = pinR[c].id /\ pinR'[c].author \in pinR[c].members
          /\ pinM'[c] # pinM[c] => Follows(c, pinM'[c]) /\ mlog' = mlog
      <3>1. CASE CASManifest(c) \/ FetchManifest(c) \/ ImportAndUpdateRefs(c)
        <4>1. UNCHANGED <<pinR, pinM>>
          BY <3>1 DEF CASManifest, FetchManifest, ImportAndUpdateRefs, stateFile
        <4>2. QED
          BY <3>1, <4>1, PinsCASManifest, PinsFetchManifest, PinsImport
      <3>2. CASE LoadTrustedRoster(c)
        BY <3>2, PinsLoadRoster
      <3>3. CASE Save(c)
        BY <3>3, PinsSave
      <3>4. QED
        BY <1>2, <3>1, <3>2, <3>3, PinsInner DEF Step
    <2>2. \A d \in Clients : d # c =>
            op'[d] = op[d] /\ pinR'[d] = pinR[d] /\ pinM'[d] = pinM[d]
      BY <1>2, OneClient
    <2>3. \A d \in Clients : d # c => PinsAhead(d)'
      BY <2>2, OthersKeep
    <2>4. PinInv'
      BY <2>1, <2>3 DEF PinInv
    <2>5. ChainStep
      BY <2>1, <2>2 DEF ChainStep, Follows
    <2>6. QED
      BY <2>4, <2>5
  <1>3. CASE Next
    <2>1. PICK c \in Clients : \/ \E r \in Refs : Commit(c, r)
                               \/ Begin(c) \/ Step(c) \/ Crash(c)
      BY <1>3 DEF Next
    <2>2. CASE (\E r \in Refs : Commit(c, r)) \/ DeleteOldPack(c)
      BY <1>1, <2>2 DEF Commit, DeleteOldPack, stateFile
    <2>3. QED
      BY <1>2, <2>1, <2>2
  <1>4. QED
    BY <1>1, <1>3 DEF vars, stateFile

\* A client's pins only move from one roster or manifest to a successor, or to a
\* later manifest of its own, whatever pushes, membership changes, rekeys and
\* crashes happen in between: a client that missed a version stays where it is.
THEOREM PinsStayOnChains == Spec => PinsFollowChains
  <1>1. Init => PinInv
    BY PinsInit
  <1>2. TypeInv /\ RosterInv /\ PinInv /\ [Next]_vars => PinInv'
    BY PinsNext
  <1>3. TypeInv /\ RosterInv /\ PinInv /\ [Next]_vars => [ChainStep]_vars
    BY PinsNext
  <1>4. QED
    BY <1>1, <1>2, <1>3, RosterInvCorrect, PTL DEF Spec, PinsFollowChains, ChainStep

-----------------------------------------------------------------------------
(* Signers.  A manifest may name a roster that is not committed yet, so the *)
(* invariant speaks of the rosters operations hold as well: ids are handed  *)
(* out once, and whoever is going to publish is in the roster it will name. *)

Pending(o) == ChangesRoster(o.kind) /\ Past(o)

\* The committed rosters and those built by an operation in progress.
KnownRosters == {rlog[i] : i \in 1 .. Len(rlog)}
                    \cup {op[d].next : d \in {e \in Clients : Pending(op[e])}}

SignOp(c, o) ==
    Past(o) => /\ ~ChangesRoster(o.kind) => o.next = o.trusted
               /\ o.kind # "fetch" => c \in o.next.members

IdsName(K, last) ==
    /\ \A r, s \in K : r.id = s.id => r = s
    /\ \A r \in K : r.id <= last

\* Manifest m is signed by a member of the roster it names, once that is known.
SignedIn(m, K, last) ==
    /\ m.roster <= last
    /\ \A r \in K : m.roster = r.id => m.signer \in r.members

SignInv ==
    /\ IdsName(KnownRosters, lastId)
    /\ \A i \in 1 .. Len(mlog) : SignedIn(mlog[i], KnownRosters, lastId)
    /\ \A c \in Clients : SignOp(c, op[c])

LEMMA KnownType ==
  ASSUME TypeInv PROVE KnownRosters \subseteq Roster /\ lastId \in Nat
  <1>1. rlog \in Seq(Roster) /\ lastId \in Nat
    BY DEF TypeInv, TypeOK
  <1>2. \A d \in Clients : op[d].next \in Roster
    BY OpFacts
  <1>3. QED
    BY <1>1, <1>2 DEF KnownRosters

LEMMA SignInit == Init => SignInv
  <1> SUFFICES ASSUME Init PROVE SignInv
    OBVIOUS
  <1>1. \A c \in Clients : op[c] = Idle
    BY DEF Init
  <1>2. \A c \in Clients : SignOp(c, op[c]) /\ ~Pending(op[c])
    BY <1>1 DEF SignOp, Pending, Past, Idle
  <1>3. KnownRosters = {rlog[i] : i \in 1 .. Len(rlog)}
    BY <1>2 DEF KnownRosters
  <1>4. TypeInv
    BY InitType
  <1>5. Len(rlog) = lastId /\ \A i \in 1 .. Len(rlog) : rlog[i].id = i
    <2> DEFINE n == Len(Joined)
               genesis(i) == [id |-> i, version |-> i - 1, prev |-> i - 1,
                              members |-> {Joined[j] : j \in 1 .. i},
                              author |-> Founder, gen |-> 1, key |-> 1]
    <2>1. n \in Nat /\ lastId = n /\ rlog = [i \in 1 .. n |-> genesis(i)]
      BY EngineAssumption DEF Init
    <2>2. rlog \in Seq(Roster)
      BY <1>4 DEF TypeInv, TypeOK
    <2>3. \A i \in 1 .. n : genesis(i).id = i
      OBVIOUS
    <2> HIDE DEF genesis, n
    <2>4. DOMAIN rlog = 1 .. n /\ DOMAIN rlog = 1 .. Len(rlog)
      BY <2>1, <2>2, LenProperties
    <2>5. Len(rlog) = n
      BY <2>1, <2>2, <2>4, LenProperties
    <2>6. QED
      BY <2>1, <2>3, <2>5
  <1>6. Len(rlog) \in Nat
    BY <1>4 DEF TypeInv, TypeOK
  <1>7. IdsName(KnownRosters, lastId)
    BY <1>3, <1>5, <1>6 DEF IdsName
  <1>8. Len(mlog) = 0
    BY DEF Init
  <1>9. QED
    BY <1>2, <1>7, <1>8 DEF SignInv

\* What an operation that was admitted is going to publish under is known.
LEMMA NextKnown ==
  ASSUME TypeInv, RosterInv, SignInv, NEW c \in Clients, Past(op[c])
  PROVE  op[c].next \in KnownRosters
  <1>1. CASE ChangesRoster(op[c].kind)
    BY <1>1 DEF KnownRosters, Pending
  <1>2. CASE ~ChangesRoster(op[c].kind)
    <2>1. op[c].next = op[c].trusted /\ Committed(op[c].trusted)
      BY <1>2, OpInvHolds DEF SignInv, SignOp, OpInv, Past
    <2>2. QED
      BY <2>1 DEF Committed, KnownRosters
  <1>3. QED
    BY <1>1, <1>2

LEMMA KnownCommitted ==
  ASSUME NEW r, Committed(r) PROVE r \in KnownRosters
  BY DEF Committed, KnownRosters

\* Only loadTrustedRoster makes a new roster known, and lastId moves with it.
LEMMA KnownStep ==
  ASSUME TypeInv, RosterInv, [Next]_vars
  PROVE  \/ KnownRosters' \subseteq KnownRosters /\ lastId' = lastId
         \/ \E c \in Clients :
              /\ LoadTrustedRoster(c)
              /\ ChangesRoster(op[c].kind)
              /\ KnownRosters' \subseteq KnownRosters \cup {Successor(c, RosterHead)}
              /\ lastId' = lastId + 1
  <1>1. CASE UNCHANGED <<rlog, op, lastId>>
    BY <1>1 DEF KnownRosters
  <1>2. ASSUME NEW c \in Clients, Begin(c) \/ Step(c) \/ Crash(c),
               ~LoadTrustedRoster(c)
        PROVE  KnownRosters' \subseteq KnownRosters /\ lastId' = lastId
    <2>1. /\ OnlyOp(c)
          /\ ~Past(op'[c]) \/ (Past(op[c]) /\ SameRun(op[c], op'[c]))
      BY <1>2, RunSteps
    <2>2. \A d \in Clients : Pending(op'[d]) =>
             Pending(op[d]) /\ op'[d].next = op[d].next
      BY <2>1 DEF OnlyOp, Pending, SameRun
    <2>3. \A i \in 1 .. Len(rlog') : rlog'[i] \in KnownRosters
      <3>1. CASE rlog' = rlog
        BY <3>1 DEF KnownRosters
      <3>2. CASE CASRoster(c)
        <4>1. Pending(op[c])
          BY <3>2, OpInvHolds DEF CASRoster, OpInv, KindAt, Pending, Past
        <4>2. Len(rlog) \in Nat
          BY DEF TypeInv, TypeOK
        <4>3. \A i \in 1 .. Len(rlog') : i \in 1 .. Len(rlog) \/ i = Len(rlog) + 1
          BY <3>2, <4>2, CASRosterFields
        <4>4. QED
          BY <3>2, <4>1, <4>3, CASRosterFields DEF KnownRosters
      <3>3. QED
        BY <1>2, <3>1, <3>2 DEF Begin, BeginPush, BeginOther, RefreshPackKeys, Crash,
           Step, RefuseRoster, LoadCurrent, PreparePack, PreparePackFails, Repack,
           CASManifest, ManifestConflict, PutKeyfile, RosterConflict, DeleteOldPack,
           OldPacksDeleted, FetchManifest, ImportAndUpdateRefs, ImportFailsInFetch,
           ImportFails, Save, storeVars
    <2>4. KnownRosters' \subseteq KnownRosters
      BY <2>2, <2>3 DEF KnownRosters
    <2>5. lastId' = lastId
      BY <1>2 DEF Begin, BeginPush, BeginOther, RefreshPackKeys, Crash,
           Step, RefuseRoster, LoadCurrent, PreparePack, PreparePackFails, Repack,
           CASManifest, ManifestConflict, PutKeyfile, RosterConflict, DeleteOldPack,
           CASRoster, OldPacksDeleted, FetchManifest, ImportAndUpdateRefs,
           ImportFailsInFetch, ImportFails, Save
    <2>6. QED
      BY <2>4, <2>5
  <1>3. ASSUME NEW c \in Clients, LoadTrustedRoster(c)
        PROVE  \/ KnownRosters' \subseteq KnownRosters /\ lastId' = lastId
               \/ /\ ChangesRoster(op[c].kind)
                  /\ KnownRosters' \subseteq KnownRosters \cup {Successor(c, RosterHead)}
                  /\ lastId' = lastId + 1
    <2>1. rlog' = rlog
      BY <1>3 DEF LoadTrustedRoster, storeVars
    <2>2. /\ OnlyOp(c)
          /\ \/ op'[c] = Idle /\ ~Permitted(c, RosterHead)
             \/ /\ Permitted(c, RosterHead) /\ op'[c].kind = op[c].kind
                /\ op'[c].next = IF ChangesRoster(op[c].kind)
                                 THEN Successor(c, RosterHead) ELSE RosterHead
      BY <1>3, LoadFields
    <2>3. CASE op'[c] = Idle /\ ~Permitted(c, RosterHead)
      <3>1. \A d \in Clients : Pending(op'[d]) =>
               Pending(op[d]) /\ op'[d].next = op[d].next
        BY <2>2, <2>3 DEF OnlyOp, Pending, Past, Idle
      <3>2. lastId' = lastId
        BY <1>3, <2>3 DEF LoadTrustedRoster
      <3>3. QED
        BY <2>1, <3>1, <3>2 DEF KnownRosters
    <2>4. CASE /\ Permitted(c, RosterHead) /\ op'[c].kind = op[c].kind
               /\ op'[c].next = IF ChangesRoster(op[c].kind)
                                THEN Successor(c, RosterHead) ELSE RosterHead
      <3>1. \A d \in Clients : Pending(op'[d]) =>
               \/ Pending(op[d]) /\ op'[d].next = op[d].next
               \/ ChangesRoster(op[c].kind) /\ op'[d].next = Successor(c, RosterHead)
        BY <2>2, <2>4 DEF OnlyOp, Pending
      <3>2. lastId' = IF ChangesRoster(op[c].kind) THEN lastId + 1 ELSE lastId
        BY <1>3, <2>4 DEF LoadTrustedRoster
      <3>3. CASE ChangesRoster(op[c].kind)
        BY <2>1, <3>1, <3>2, <3>3 DEF KnownRosters
      <3>4. CASE ~ChangesRoster(op[c].kind)
        BY <2>1, <3>1, <3>2, <3>4 DEF KnownRosters
      <3>5. QED
        BY <3>3, <3>4
    <2>5. QED
      BY <2>2, <2>3, <2>4
  <1>4. CASE Next
    <2>1. PICK c \in Clients : \/ \E r \in Refs : Commit(c, r)
                               \/ Begin(c) \/ Step(c) \/ Crash(c)
      BY <1>4 DEF Next
    <2>2. CASE \E r \in Refs : Commit(c, r)
      BY <1>1, <2>2 DEF Commit, storeVars
    <2>3. QED
      BY <1>2, <1>3, <2>1, <2>2
  <1>5. QED
    BY <1>1, <1>4 DEF vars, storeVars

\* Each id names one roster, in the next state as well, and a manifest signed
\* in the rosters known before is signed in those known after.
LEMMA IdsStep ==
  ASSUME TypeInv, RosterInv, SignInv, [Next]_vars
  PROVE  /\ IdsName(KnownRosters', lastId')
         /\ \A m \in Manifest : SignedIn(m, KnownRosters, lastId)
                                  => SignedIn(m, KnownRosters', lastId')
  <1> DEFINE K == KnownRosters
             K2 == KnownRosters'
  <1>1. /\ K \subseteq Roster /\ lastId \in Nat
        /\ IdsName(K, lastId)
    BY KnownType DEF SignInv
  <1>2. CASE K2 \subseteq K /\ lastId' = lastId
    <2> HIDE DEF K, K2
    <2>1. IdsName(K2, lastId')
      BY <1>1, <1>2 DEF IdsName
    <2>2. \A m \in Manifest : SignedIn(m, K, lastId) => SignedIn(m, K2, lastId')
      BY <1>2 DEF SignedIn
    <2>3. QED
      BY <2>1, <2>2 DEF K, K2
  <1>3. ASSUME NEW c \in Clients,
               K2 \subseteq K \cup {Successor(c, RosterHead)}, lastId' = lastId + 1
        PROVE  /\ IdsName(K2, lastId')
               /\ \A m \in Manifest : SignedIn(m, K, lastId)
                                        => SignedIn(m, K2, lastId')
    <2> DEFINE new == Successor(c, RosterHead)
    <2>1. new.id = lastId + 1
      BY DEF Successor
    <2>2. \A r \in K : r.id \in Nat /\ r.id <= lastId
      BY <1>1 DEF IdsName, Roster
    <2>3. \A r, s \in K : r.id = s.id => r = s
      BY <1>1 DEF IdsName
    <2>4. K2 \subseteq K \cup {new}
      BY <1>3
    <2> HIDE DEF K, K2, new
    <2>5. IdsName(K2, lastId')
      BY <1>1, <1>3, <2>1, <2>2, <2>3, <2>4 DEF IdsName
    <2>6. ASSUME NEW m \in Manifest, SignedIn(m, K, lastId)
          PROVE  SignedIn(m, K2, lastId')
      <3>1. m.roster \in Nat /\ m.roster <= lastId
        BY <2>6 DEF SignedIn, Manifest
      <3>2. m.roster # new.id
        BY <1>1, <2>1, <3>1
      <3>3. QED
        BY <1>1, <1>3, <2>4, <2>6, <3>1, <3>2 DEF SignedIn
    <2>7. QED
      BY <2>5, <2>6
  <1>4. QED
    BY <1>2, <1>3, KnownStep

\* An admitted operation is that of a member of the roster it will name.
LEMMA SignOpStep ==
  ASSUME TypeInv, SignInv, [Next]_vars
  PROVE  \A d \in Clients : SignOp(d, op'[d])
  <1>0. \A d \in Clients : SignOp(d, op[d])
    BY DEF SignInv
  <1>1. CASE op' = op
    BY <1>0, <1>1
  <1>2. ASSUME NEW c \in Clients, Begin(c) \/ Step(c) \/ Crash(c)
        PROVE  \A d \in Clients : SignOp(d, op'[d])
    <2>1. OnlyOp(c)
      BY <1>2, RunSteps
    <2>2. CASE ~Past(op'[c])
      BY <1>0, <2>1, <2>2 DEF OnlyOp, SignOp
    <2>3. CASE Past(op[c]) /\ SameRun(op[c], op'[c])
      <3>1. SignOp(c, op'[c])
        BY <1>0, <2>3 DEF SameRun, SignOp
      <3>2. QED
        BY <1>0, <2>1, <3>1 DEF OnlyOp
    <2>4. CASE LoadTrustedRoster(c) /\ Past(op'[c])
      <3>1. /\ Permitted(c, RosterHead)
            /\ op'[c].kind = op[c].kind /\ op'[c].trusted = RosterHead
            /\ op'[c].next = IF ChangesRoster(op[c].kind)
                             THEN Successor(c, RosterHead) ELSE RosterHead
        BY <2>4, LoadFields DEF Past, Idle
      <3>2. op[c].kind # "fetch" => c \in RosterHead.members
        BY <3>1 DEF Permitted
      <3>3. op[c].kind = "remove" => op[c].arg # c
        BY <3>1 DEF Permitted
      <3>4. op[c].kind # "fetch" => c \in Successor(c, RosterHead).members
        BY <3>2, <3>3 DEF Successor
      <3>5. SignOp(c, op'[c])
        BY <3>1, <3>2, <3>4 DEF SignOp
      <3>6. QED
        BY <1>0, <2>1, <3>5 DEF OnlyOp
    <2>5. QED
      BY <1>2, <2>2, <2>3, <2>4, RunSteps
  <1>3. QED
    BY <1>1, <1>2 DEF Next, Commit, vars

LEMMA SignInductive == TypeInv /\ RosterInv /\ SignInv /\ [Next]_vars => SignInv'
  <1> SUFFICES ASSUME TypeInv, RosterInv, SignInv, [Next]_vars PROVE SignInv'
    OBVIOUS
  <1>1. Len(mlog) \in Nat /\ \A i \in 1 .. Len(mlog) : mlog[i] \in Manifest
    BY DEF TypeInv, TypeOK
  <1>2. \A i \in 1 .. Len(mlog) : SignedIn(mlog[i], KnownRosters', lastId')
    BY <1>1, IdsStep DEF SignInv
  <1>3. ASSUME NEW c \in Clients, CASManifest(c)
        PROVE  SignedIn(Published(c), KnownRosters, lastId)
    <2>1. op[c].next \in KnownRosters /\ c \in op[c].next.members
      <3>1. op[c].pc = "cas" /\ op[c].kind # "fetch"
        <4>1. op[c].pc = "cas"
          BY <1>3 DEF CASManifest
        <4>2. QED
          BY <4>1, OpInvHolds DEF OpInv, KindAt
      <3>2. QED
        BY <3>1, NextKnown DEF SignInv, SignOp, Past
    <2>2. Published(c).roster = op[c].next.id /\ Published(c).signer = c
      BY DEF Published
    <2>3. \A r \in KnownRosters : r.id = op[c].next.id => r = op[c].next
      BY <2>1 DEF SignInv, IdsName
    <2>4. op[c].next.id <= lastId
      BY <2>1 DEF SignInv, IdsName
    <2>5. QED
      BY <2>1, <2>2, <2>3, <2>4 DEF SignedIn
  <1>4. \A i \in 1 .. Len(mlog') : SignedIn(mlog'[i], KnownRosters', lastId')
    <2>1. CASE mlog' = mlog
      BY <1>2, <2>1
    <2>2. ASSUME NEW c \in Clients, CASManifest(c)
          PROVE  \A i \in 1 .. Len(mlog') : SignedIn(mlog'[i], KnownRosters', lastId')
      <3>1. SignedIn(Published(c), KnownRosters', lastId')
        BY <1>3, <2>2, IdsStep, PublishedType
      <3>2. \A i \in 1 .. Len(mlog') : i \in 1 .. Len(mlog) \/ i = Len(mlog) + 1
        BY <1>1, <2>2, CASManifestFields
      <3>3. QED
        BY <1>2, <2>2, <3>1, <3>2, CASManifestFields
    <2>3. QED
      BY <2>1, <2>2, ManifestsStep
  <1>5. \A d \in Clients : SignOp(d, op'[d])
    BY SignOpStep
  <1>6. IdsName(KnownRosters', lastId')
    BY IdsStep
  <1>7. QED
    BY <1>4, <1>5, <1>6 DEF SignInv, SignOp

LEMMA SignInvCorrect == Spec => [](TypeInv /\ RosterInv /\ SignInv)
  <1>1. Init => SignInv
    BY SignInit
  <1>2. TypeInv /\ RosterInv /\ SignInv /\ [Next]_vars => SignInv'
    BY SignInductive
  <1>3. QED
    BY <1>1, <1>2, RosterInvCorrect, PTL DEF Spec

\* A manifest that names a committed roster was signed by a member of it, even
\* when its publisher is removed, or the roster is committed, afterwards.
THEOREM SignersInRoster == Spec => []SignerInBoundRoster
  <1>1. SignInv => SignerInBoundRoster
    BY DEF SignInv, SignedIn, KnownRosters, SignerInBoundRoster
  <1>2. QED
    BY <1>1, SignInvCorrect, PTL

-----------------------------------------------------------------------------
(* Repo keys.  A full rekey writes its keyfile before its roster, and one   *)
(* that is beaten leaves a key no roster was published under; the next      *)
(* addition publishes under that key.  What follows is therefore about a    *)
(* repository in which members are added and removed but nobody rekeys.     *)

NoRekeys == Budget["rekey"] = 0

\* Some roster published under key k has client c as a member.
Backed(k, c) == \E i \in 1 .. Len(rlog) : rlog[i].key = k /\ c \in rlog[i].members

\* Some roster was published as generation g under key k.
Names(g, k) == \E i \in 1 .. Len(rlog) : rlog[i].gen = g /\ rlog[i].key = k

ConfinedInv ==
    /\ \A c \in Clients : \A k \in keys[c] : Backed(k, c)
    /\ \A c \in keyfile.to : Backed(keyfile.key, c)

LEMMA RekeyNever ==
  ASSUME NoRekeys, KindsAllowed, NEW c \in Clients PROVE op[c].kind # "rekey"
  BY DEF NoRekeys, KindsAllowed, Kinds

LEMMA CommittedKept ==
  ASSUME TypeInv, [Next]_vars
  PROVE  /\ Len(rlog') \in Nat /\ Len(rlog') >= Len(rlog)
         /\ \A i \in 1 .. Len(rlog) : i \in 1 .. Len(rlog') /\ rlog'[i] = rlog[i]
  <1>1. Len(rlog) \in Nat
    BY DEF TypeInv, TypeOK
  <1>2. CASE rlog' = rlog
    BY <1>1, <1>2
  <1>3. ASSUME NEW c \in Clients, CASRoster(c)
        PROVE  /\ Len(rlog') = Len(rlog) + 1
               /\ \A i \in 1 .. Len(rlog) : rlog'[i] = rlog[i]
    BY <1>3, CASRosterFields
  <1>4. QED
    BY <1>1, <1>2, <1>3, Writers

\* What published rosters back or name stays backed and named.
LEMMA BackedKept ==
  ASSUME TypeInv, [Next]_vars
  PROVE  /\ \A k, c : Backed(k, c) => Backed(k, c)'
         /\ \A g, k : Names(g, k) => Names(g, k)'
  BY CommittedKept DEF Backed, Names

LEMMA CommittedBacks ==
  ASSUME NEW r, Committed(r), NEW c \in r.members
  PROVE  Backed(r.key, c)
  BY DEF Committed, Backed

\* A roster put in the keyfile is committed: the change was announced first.
LEMMA KeyfileOfCommitted ==
  ASSUME TypeInv, RosterInv, NoRekeys, KindsAllowed,
         NEW c \in Clients, op[c].pc = "keyfile"
  PROVE  Committed(op[c].next) /\ op[c].kind # "rekey"
  <1>1. OpInv(op[c])
    BY OpInvHolds
  <1>2. op[c].kind # "rekey"
    BY RekeyNever
  <1>3. QED
    BY <1>1, <1>2 DEF OpInv, KindAt, Announced

\* The founder has refreshed before the first step if someone was added.
LEMMA InitRosters ==
  ASSUME Init
  PROVE  /\ Len(rlog) = Len(Joined) /\ Len(rlog) \in Nat /\ Len(rlog) > 0
         /\ \A i \in 1 .. Len(rlog) :
              /\ rlog[i].gen = 1 /\ rlog[i].key = 1
              /\ rlog[i].members = {Joined[j] : j \in 1 .. i}
  <1> DEFINE n == Len(Joined)
             genesis(i) == [id |-> i, version |-> i - 1, prev |-> i - 1,
                            members |-> {Joined[j] : j \in 1 .. i},
                            author |-> Founder, gen |-> 1, key |-> 1]
  <1>1. n \in Nat /\ n > 0 /\ rlog = [i \in 1 .. n |-> genesis(i)]
    BY EngineAssumption DEF Init
  <1>2. rlog \in Seq(Roster)
    BY InitType DEF TypeInv, TypeOK
  <1>3. \A i \in 1 .. n : /\ genesis(i).gen = 1 /\ genesis(i).key = 1
                          /\ genesis(i).members = {Joined[j] : j \in 1 .. i}
    OBVIOUS
  <1> HIDE DEF genesis, n
  <1>4. DOMAIN rlog = 1 .. n /\ DOMAIN rlog = 1 .. Len(rlog)
    BY <1>1, <1>2, LenProperties
  <1>5. Len(rlog) = n
    BY <1>1, <1>2, <1>4, LenProperties
  <1>6. \A i \in 1 .. Len(rlog) :
          /\ rlog[i].gen = 1 /\ rlog[i].key = 1
          /\ rlog[i].members = {Joined[j] : j \in 1 .. i}
    BY <1>1, <1>3, <1>5
  <1>7. QED
    BY <1>1, <1>5, <1>6 DEF n

LEMMA ConfinedInit == Init => ConfinedInv
  <1> SUFFICES ASSUME Init PROVE ConfinedInv
    OBVIOUS
  <1> DEFINE n == Len(rlog)
             all == {Joined[j] : j \in 1 .. n}
  <1>1. n \in 1 .. n /\ rlog[n].key = 1 /\ rlog[n].members = all
    BY InitRosters
  <1>2. \A c \in all : Backed(1, c)
    BY <1>1 DEF Backed
  <1>3. Founder \in all
    BY <1>1, InitRosters DEF Founder
  <1>4. keyfile.key = 1 /\ keyfile.to = all
    <2>1. n = Len(Joined)
      BY InitRosters
    <2>2. keyfile = [gen |-> 1, key |-> 1, to |-> {Joined[j] : j \in 1 .. Len(Joined)}]
      BY DEF Init
    <2>3. QED
      BY <2>1, <2>2
  <1>5. \A c \in Clients : keys[c] \subseteq {1} /\ (keys[c] # {} => c = Founder)
    BY DEF Init
  <1> HIDE DEF all
  <1>6. QED
    BY <1>2, <1>3, <1>4, <1>5 DEF ConfinedInv

LEMMA ConfinedInductive ==
  ASSUME NoRekeys, TypeInv, RosterInv, SignInv, KindsAllowed, ConfinedInv,
         [Next]_vars
  PROVE  ConfinedInv'
  <1>1. \A k, c : Backed(k, c) => Backed(k, c)'
    BY BackedKept
  <1>2. \A c \in Clients : \A k \in keys'[c] : Backed(k, c)'
    <2>1. CASE keys' = keys
      BY <1>1, <2>1 DEF ConfinedInv
    <2>2. ASSUME NEW c \in Clients, Begin(c)
          PROVE  \A d \in Clients : \A k \in keys'[d] : Backed(k, d)'
      <3>1. /\ c \in keyfile.to
            /\ keys' = [keys EXCEPT ![c] = @ \cup {keyfile.key}]
        BY <2>2 DEF Begin, BeginPush, BeginOther, RefreshPackKeys
      <3>2. keys \in [Clients -> SUBSET Nat]
        BY DEF TypeInv, TypeOK
      <3>3. \A d \in Clients : \A k \in keys'[d] :
              k \in keys[d] \/ (d = c /\ k = keyfile.key)
        BY <3>1, <3>2
      <3>4. QED
        BY <1>1, <3>1, <3>3 DEF ConfinedInv
    <2>3. ASSUME NEW c \in Clients, Save(c)
          PROVE  \A d \in Clients : \A k \in keys'[d] : Backed(k, d)'
      <3>1. keys \in [Clients -> SUBSET Nat] /\ op[c].pc = "save"
        BY <2>3 DEF TypeInv, TypeOK, Save
      <3>2. \A d \in Clients : \A k \in keys'[d] :
              \/ k \in keys[d]
              \/ d = c /\ k = op[c].next.key /\ Rotates(op[c].kind)
        BY <2>3, <3>1 DEF Save
      <3>3. ASSUME Rotates(op[c].kind) PROVE Backed(op[c].next.key, c)
        <4>1. op[c].kind = "remove"
          BY <3>3, RekeyNever DEF Rotates
        <4>2. Committed(op[c].next)
          BY <3>1, <4>1, OpInvHolds DEF OpInv, Announced, ChangesRoster
        <4>3. c \in op[c].next.members
          BY <3>1, <4>1 DEF SignInv, SignOp, Past
        <4>4. QED
          BY <4>2, <4>3, CommittedBacks
      <3>4. QED
        BY <1>1, <3>2, <3>3 DEF ConfinedInv
    <2>4. QED
      BY <2>1, <2>2, <2>3, Writers
  <1>3. (\A c \in keyfile.to : Backed(keyfile.key, c))'
    <2>1. CASE keyfile' = keyfile
      <3>1. \A c \in keyfile.to : Backed(keyfile.key, c)
        BY DEF ConfinedInv
      <3>2. \A c \in keyfile.to : \E i \in 1 .. Len(rlog') :
               rlog'[i].key = keyfile.key /\ c \in rlog'[i].members
        BY <3>1, CommittedKept DEF Backed
      <3>3. QED
        BY <2>1, <3>2 DEF Backed
    <2>2. ASSUME NEW d \in Clients, PutKeyfile(d)
          PROVE  (\A c \in keyfile.to : Backed(keyfile.key, c))'
      <3>1. keyfile'.to = op[d].next.members /\ keyfile'.key = op[d].next.key
        BY <2>2 DEF PutKeyfile
      <3>2. Committed(op[d].next)
        BY <2>2, KeyfileOfCommitted DEF PutKeyfile
      <3>3. \E i \in 1 .. Len(rlog') : rlog'[i] = op[d].next
        BY <3>2, CommittedKept DEF Committed
      <3>4. QED
        BY <3>1, <3>3 DEF Backed
    <2>3. QED
      BY <2>1, <2>2, Writers
  <1>4. QED
    BY <1>2, <1>3 DEF ConfinedInv, Backed

\* A removed member never obtains the key its removal introduced: a client holds
\* a published repo key only if a roster under that key had it as a member, for
\* any interleaving of additions, removals, pushes, fetches and crashes, as long
\* as nobody runs a full rekey.
THEOREM KeysConfined ==
  ASSUME Budget["rekey"] = 0 PROVE Spec => []KeyConfined
  <1>1. NoRekeys
    BY DEF NoRekeys
  <1>2. Init => ConfinedInv
    BY ConfinedInit
  <1>3. /\ TypeInv /\ RosterInv /\ SignInv /\ KindsAllowed /\ ConfinedInv
        /\ [Next]_vars
        => ConfinedInv'
    BY <1>1, ConfinedInductive
  <1>4. ConfinedInv => KeyConfined
    BY DEF ConfinedInv, KeyConfined, Backed
  <1>5. QED
    BY <1>2, <1>3, <1>4, SignInvCorrect, KindsInvariant, PTL DEF Spec

\* Generations never go down along the chain, and each has one key.
OneKeyEach ==
    \A i, j \in 1 .. Len(rlog) :
        /\ i <= j => rlog[i].gen <= rlog[j].gen
        /\ rlog[i].gen = rlog[j].gen => rlog[i].key = rlog[j].key

\* What an admitted operation does with generation and key.
GenOp(o) ==
    Past(o) => /\ o.gen = o.trusted.gen
               /\ o.kind = "add" => o.next.gen = o.gen /\ o.next.key = o.key
               /\ o.kind = "remove" => o.next.gen = o.gen + 1

GenerationInv ==
    /\ OneKeyEach
    /\ Names(keyfile.gen, keyfile.key)
    /\ \A c \in Clients : GenOp(op[c])
    /\ \A c \in Clients : op[c].pc # "idle" => Names(op[c].gen, op[c].key)

LEMMA GenerationInit == Init => GenerationInv
  <1> SUFFICES ASSUME Init PROVE GenerationInv
    OBVIOUS
  <1>1. /\ Len(rlog) \in 1 .. Len(rlog)
        /\ \A i \in 1 .. Len(rlog) : rlog[i].gen = 1 /\ rlog[i].key = 1
    BY InitRosters
  <1>2. OneKeyEach /\ Names(1, 1)
    BY <1>1 DEF OneKeyEach, Names
  <1>3. keyfile.gen = 1 /\ keyfile.key = 1
    BY DEF Init
  <1>4. \A c \in Clients : op[c].pc = "idle"
    BY DEF Init, Idle
  <1>5. QED
    BY <1>2, <1>3, <1>4 DEF GenerationInv, GenOp, Past

LEMMA GenOpStep ==
  ASSUME TypeInv, GenerationInv, [Next]_vars
  PROVE  \A d \in Clients : GenOp(op'[d])
  <1>0. \A d \in Clients : GenOp(op[d])
    BY DEF GenerationInv
  <1>1. CASE op' = op
    BY <1>0, <1>1
  <1>2. ASSUME NEW c \in Clients, Begin(c) \/ Step(c) \/ Crash(c)
        PROVE  \A d \in Clients : GenOp(op'[d])
    <2>1. OnlyOp(c)
      BY <1>2, RunSteps
    <2>2. CASE ~Past(op'[c])
      BY <1>0, <2>1, <2>2 DEF OnlyOp, GenOp
    <2>3. CASE Past(op[c]) /\ SameRun(op[c], op'[c])
      <3>1. GenOp(op'[c])
        BY <1>0, <2>3 DEF SameRun, GenOp
      <3>2. QED
        BY <1>0, <2>1, <3>1 DEF OnlyOp
    <2>4. CASE LoadTrustedRoster(c) /\ Past(op'[c])
      <3>1. /\ Permitted(c, RosterHead)
            /\ op'[c].kind = op[c].kind /\ op'[c].trusted = RosterHead
            /\ op'[c].gen = op[c].gen /\ op'[c].key = op[c].key
            /\ op'[c].next = IF ChangesRoster(op[c].kind)
                             THEN Successor(c, RosterHead) ELSE RosterHead
        BY <2>4, LoadFields DEF Past, Idle
      <3>2. op[c].gen = RosterHead.gen
        BY <3>1 DEF Permitted
      <3>3. GenOp(op'[c])
        BY <3>1, <3>2 DEF GenOp, Successor, ChangesRoster, Rotates
      <3>4. QED
        BY <1>0, <2>1, <3>3 DEF OnlyOp
    <2>5. QED
      BY <1>2, <2>2, <2>3, <2>4, RunSteps
  <1>3. QED
    BY <1>1, <1>2 DEF Next, Commit, vars

\* An operation's generation and key are the keyfile's of when it began.
LEMMA HeldNamesStep ==
  ASSUME TypeInv, GenerationInv, [Next]_vars
  PROVE  (\A d \in Clients : op[d].pc # "idle" => Names(op[d].gen, op[d].key))'
  <1>0. /\ \A d \in Clients : op[d].pc # "idle" => Names(op[d].gen, op[d].key)
        /\ Names(keyfile.gen, keyfile.key)
    BY DEF GenerationInv
  <1>1. ASSUME NEW d \in Clients, op'[d].pc # "idle"
        PROVE  \E g, k : Names(g, k) /\ op'[d].gen = g /\ op'[d].key = k
    <2>1. CASE op' = op
      BY <1>0, <1>1, <2>1
    <2>2. ASSUME NEW c \in Clients, Begin(c)
          PROVE  \E g, k : Names(g, k) /\ op'[d].gen = g /\ op'[d].key = k
      <3>1. PICK k, who, want : RefreshPackKeys(c, k, who, want)
        BY <2>2 DEF Begin, BeginPush, BeginOther
      <3>2. QED
        BY <1>0, <1>1, <3>1, RefreshFields DEF OnlyOp
    <2>3. ASSUME NEW c \in Clients, Step(c) \/ Crash(c)
          PROVE  \E g, k : Names(g, k) /\ op'[d].gen = g /\ op'[d].key = k
      <3>1. OnlyOp(c)
        BY <2>3, RunSteps
      <3>2. \/ op'[c].pc = "idle"
            \/ /\ op[c].pc # "idle"
               /\ op'[c].gen = op[c].gen /\ op'[c].key = op[c].key
        <4>1. CASE LoadTrustedRoster(c)
          BY <4>1, LoadFields DEF Idle
        <4>2. CASE Past(op[c]) /\ SameRun(op[c], op'[c])
          BY <4>2 DEF SameRun, Past
        <4>3. CASE ~Past(op'[c])
          <5>1. op'[c] = Idle
            BY <2>3, <4>3, EndsIdle
          <5>2. QED
            BY <5>1 DEF Idle
        <4>4. QED
          BY <2>3, <4>1, <4>2, <4>3, RunSteps
      <3>3. QED
        BY <1>0, <1>1, <3>1, <3>2 DEF OnlyOp
    <2>4. QED
      BY <2>1, <2>2, <2>3 DEF Next, Commit, vars
  <1>2. \A g, k : Names(g, k) => \E i \in 1 .. Len(rlog') :
                                    rlog'[i].gen = g /\ rlog'[i].key = k
    BY CommittedKept DEF Names
  <1>3. \A d \in Clients : op'[d].pc # "idle" =>
          \E i \in 1 .. Len(rlog') :
             rlog'[i].gen = op'[d].gen /\ rlog'[i].key = op'[d].key
    BY <1>1, <1>2
  <1>4. QED
    BY <1>3 DEF Names

LEMMA GenerationInductive ==
  ASSUME NoRekeys, TypeInv, RosterInv, KindsAllowed, GenerationInv, [Next]_vars
  PROVE  GenerationInv'
  <1>1. OneKeyEach'
    <2>1. CASE rlog' = rlog
      BY <2>1 DEF GenerationInv, OneKeyEach
    <2>2. ASSUME NEW c \in Clients, CASRoster(c) PROVE OneKeyEach'
      <3> DEFINE new == op[c].next
                 n   == Len(rlog)
      <3>1. /\ n \in Nat /\ n > 0 /\ Len(rlog') = n + 1 /\ rlog'[n + 1] = new
            /\ \A i \in 1 .. n : rlog'[i] = rlog[i]
        BY <2>2, CASRosterFields DEF TypeInv, TypeOK
      <3>2. /\ Past(op[c]) /\ op[c].pc = "casRoster"
            /\ op[c].trusted.version = n - 1
        BY <2>2 DEF CASRoster, Past
      <3>3. op[c].kind \in {"add", "remove"}
        BY <3>2, OpInvHolds, RekeyNever DEF OpInv, KindAt, ChangesRoster
      <3>4. op[c].trusted = RosterHead
        BY <3>2, OpInvHolds, HeadIsCommitted DEF OpInv, Past
      <3>5. /\ \A i \in 1 .. n : rlog[i].gen \in Nat
            /\ RosterHead = rlog[n] /\ n \in 1 .. n
        <4>1. \A i \in 1 .. n : rlog[i] \in Roster
          BY DEF TypeInv, TypeOK
        <4>2. n \in 1 .. n
          BY <3>1
        <4>3. QED
          BY <4>1, <4>2 DEF Roster, RosterHead
      <3>6. /\ op[c].gen = rlog[n].gen
            /\ op[c].kind = "add" => new.gen = op[c].gen /\ new.key = op[c].key
            /\ op[c].kind = "remove" => new.gen = op[c].gen + 1
        BY <3>2, <3>4, <3>5 DEF GenerationInv, GenOp
      <3>7. \A i, j \in 1 .. n : /\ i <= j => rlog[i].gen <= rlog[j].gen
                                 /\ rlog[i].gen = rlog[j].gen => rlog[i].key = rlog[j].key
        BY DEF GenerationInv, OneKeyEach
      <3>8. op[c].key = rlog[n].key
        <4>1. PICK i \in 1 .. n : rlog[i].gen = op[c].gen /\ rlog[i].key = op[c].key
          BY <3>2 DEF GenerationInv, Names
        <4>2. QED
          BY <3>5, <3>6, <3>7, <4>1
      <3> HIDE DEF new, n
      <3>9. \A i \in 1 .. n : /\ rlog[i].gen <= new.gen
                              /\ rlog[i].gen = new.gen => rlog[i].key = new.key
        <4>1. \A i \in 1 .. n : rlog[i].gen <= rlog[n].gen
          BY <3>1, <3>5, <3>7
        <4>2. rlog[n].gen \in Nat
          BY <3>5
        <4>3. CASE op[c].kind = "add"
          BY <3>5, <3>6, <3>7, <3>8, <4>1, <4>3
        <4>4. CASE op[c].kind = "remove"
          <5>1. new.gen = rlog[n].gen + 1
            BY <3>6, <4>4
          <5>2. QED
            BY <3>5, <4>1, <4>2, <5>1
        <4>5. QED
          BY <3>3, <4>3, <4>4
      <3>10. new.gen \in Nat
        BY <3>3, <3>5, <3>6
      <3>11. \A i \in 1 .. Len(rlog') : i \in 1 .. n \/ i = n + 1
        BY <3>1
      <3>12. ASSUME NEW i \in 1 .. Len(rlog'), NEW j \in 1 .. Len(rlog')
             PROVE  /\ i <= j => rlog'[i].gen <= rlog'[j].gen
                    /\ rlog'[i].gen = rlog'[j].gen => rlog'[i].key = rlog'[j].key
        <4>1. CASE i \in 1 .. n /\ j \in 1 .. n
          BY <3>1, <3>7, <4>1
        <4>2. CASE i \in 1 .. n /\ j = n + 1
          BY <3>1, <3>9, <4>2
        <4>3. CASE i = n + 1 /\ j \in 1 .. n
          BY <3>1, <3>9, <4>3
        <4>4. CASE i = n + 1 /\ j = n + 1
          BY <3>1, <3>10, <4>4
        <4>5. QED
          BY <3>11, <4>1, <4>2, <4>3, <4>4
      <3>13. QED
        BY <3>12 DEF OneKeyEach
    <2>3. QED
      BY <2>1, <2>2, Writers
  <1>2. Names(keyfile.gen, keyfile.key)'
    <2>1. CASE keyfile' = keyfile
      <3>1. \E i \in 1 .. Len(rlog') :
              rlog'[i].gen = keyfile.gen /\ rlog'[i].key = keyfile.key
        BY CommittedKept DEF GenerationInv, Names
      <3>2. QED
        BY <2>1, <3>1 DEF Names
    <2>2. ASSUME NEW d \in Clients, PutKeyfile(d)
          PROVE  Names(keyfile.gen, keyfile.key)'
      <3>1. keyfile'.gen = op[d].next.gen /\ keyfile'.key = op[d].next.key
        BY <2>2 DEF PutKeyfile
      <3>2. Committed(op[d].next)
        BY <2>2, KeyfileOfCommitted DEF PutKeyfile
      <3>3. \E i \in 1 .. Len(rlog') : rlog'[i] = op[d].next
        BY <3>2, CommittedKept DEF Committed
      <3>4. QED
        BY <3>1, <3>3 DEF Names
    <2>3. QED
      BY <2>1, <2>2, Writers
  <1>3. \A d \in Clients : GenOp(op'[d])
    BY GenOpStep
  <1>4. (\A d \in Clients : op[d].pc # "idle" => Names(op[d].gen, op[d].key))'
    BY HeldNamesStep
  <1>5. QED
    BY <1>1, <1>2, <1>3, <1>4 DEF GenerationInv, GenOp, Names

\* checkKeyfileGeneration may rely on the generation alone: a keyfile of the
\* current roster's generation carries the current roster's key, for any
\* interleaving of additions, removals and crashes, as long as nobody runs a
\* full rekey.
THEOREM GenerationsNameKeys ==
  ASSUME Budget["rekey"] = 0 PROVE Spec => []GenerationNamesKey
  <1>1. NoRekeys
    BY DEF NoRekeys
  <1>2. Init => GenerationInv
    BY GenerationInit
  <1>3. /\ TypeInv /\ RosterInv /\ KindsAllowed /\ GenerationInv /\ [Next]_vars
        => GenerationInv'
    BY <1>1, GenerationInductive
  <1>4. TypeInv /\ GenerationInv => GenerationNamesKey
    <2> SUFFICES ASSUME TypeInv, GenerationInv, keyfile.gen = RosterHead.gen
                 PROVE  keyfile.key = RosterHead.key
      BY DEF GenerationNamesKey
    <2>1. PICK i \in 1 .. Len(rlog) :
            rlog[i].gen = keyfile.gen /\ rlog[i].key = keyfile.key
      BY DEF GenerationInv, Names
    <2>2. Len(rlog) \in 1 .. Len(rlog)
      BY DEF TypeInv, TypeOK
    <2>3. QED
      BY <2>1, <2>2 DEF GenerationInv, OneKeyEach, RosterHead
  <1>5. QED
    BY <1>2, <1>3, <1>4, RosterInvCorrect, KindsInvariant, PTL DEF Spec
=============================================================================
