---------------------------- MODULE EngineProofs ----------------------------
(***************************************************************************)
(* Theorems about the engine, for any set of clients, any founder and any  *)
(* bound on the operations.                                                *)
(***************************************************************************)
EXTENDS EngineProperties, SequenceTheorems, TLAPS

\* Manifest hashes held by a client or an operation are hashes of committed
\* manifests: TypeOK alone does not say so, and RefsAt and PacksAt need it.
HashesCommitted ==
    /\ \A c \in Clients : pinM[c] <= Len(mlog)
    /\ \A c \in Clients : op[c].cur <= Len(mlog) /\ op[c].wrote <= Len(mlog)

TypeInv == TypeOK /\ HashesCommitted

-----------------------------------------------------------------------------
(* Data lemmas *)

LEMMA FounderIsClient == Founder \in Clients
  BY EngineAssumption DEF Founder

LEMMA NoRosterType == NoRoster \in Roster
  BY FounderIsClient DEF NoRoster, Roster

LEMMA NoCommit == 0 \in Commits
  BY EngineAssumption DEF Commits, Kinds

LEMMA NoRefsType == NoRefs \in [Refs -> Commits]
  BY NoCommit DEF NoRefs

LEMMA IdleType == Idle \in Op
  BY FounderIsClient, NoRosterType, NoRefsType DEF Idle, Op, PCs

\* The commits inside a set of packs are commits.
LEMMA DataOfType ==
  ASSUME NEW ps \in SUBSET Pack PROVE DataOf(ps) \subseteq Commits
  BY DEF DataOf, Pack

\* Manifest n, or the empty one, has well-typed refs and packs.
LEMMA AtType ==
  ASSUME TypeOK, NEW n \in Nat, n <= Len(mlog)
  PROVE  RefsAt(n) \in [Refs -> Commits] /\ PacksAt(n) \in SUBSET Pack
  <1>1. CASE n = 0
    BY <1>1, NoRefsType DEF RefsAt, PacksAt
  <1>2. CASE n # 0
    <2>1. mlog[n] \in Manifest
      BY <1>2 DEF TypeOK
    <2>2. QED
      BY <1>2, <2>1 DEF RefsAt, PacksAt, Manifest
  <1>3. QED
    BY <1>1, <1>2

LEMMA RosterHeadType ==
  ASSUME TypeOK PROVE RosterHead \in Roster
  BY DEF TypeOK, RosterHead

-----------------------------------------------------------------------------

LEMMA InitType == Init => TypeInv
  <1> SUFFICES ASSUME Init PROVE TypeInv
    OBVIOUS
  <1> USE EngineAssumption
  <1> DEFINE n == Len(Joined)
             Upto(i) == {Joined[j] : j \in 1 .. i}
             genesis(i) == [id |-> i, version |-> i - 1, prev |-> i - 1,
                            members |-> Upto(i), author |-> Founder,
                            gen |-> 1, key |-> 1]
  <1>1. \A i \in 1 .. n : Upto(i) \in SUBSET Clients
    OBVIOUS
  <1>2. \A i \in 1 .. n : genesis(i) \in Roster
    BY <1>1, FounderIsClient DEF Roster
  <1>3. rlog = [i \in 1 .. n |-> genesis(i)]
    BY DEF Init
  <1>4. rlog \in Seq(Roster) /\ Len(rlog) = n
    <2>1. n \in Nat
      OBVIOUS
    <2> HIDE DEF genesis, n
    <2>2. rlog \in [1 .. n -> Roster]
      BY <1>2, <1>3
    <2>3. rlog \in Seq(Roster)
      BY <2>1, <2>2, SeqDef
    <2>4. DOMAIN rlog = 1 .. n
      BY <2>2
    <2>5. QED
      BY <2>1, <2>3, <2>4, LenProperties
  <1>5. mlog = << >> /\ mlog \in Seq(Manifest) /\ Len(mlog) = 0
    BY DEF Init
  <1>6. keyfile \in [gen : Nat, key : Nat, to : SUBSET Clients]
    BY <1>1 DEF Init
  <1>7. pinR \in [Clients -> Roster]
    BY <1>2, NoRosterType DEF Init
  <1>8. op \in [Clients -> Op] /\ op = [c \in Clients |-> Idle]
    BY IdleType DEF Init
  <1>9. /\ blobs \in SUBSET Pack
        /\ pinM = [c \in Clients |-> 0]
        /\ keys \in [Clients -> SUBSET Nat]
        /\ got \in [Clients -> SUBSET Pack]
        /\ local \in [Clients -> SUBSET Commits]
        /\ lastId \in Nat
    BY DEF Init
  <1>10. refs \in [Clients -> [Refs -> Commits]]
    BY NoRefsType DEF Init
  <1>11. budget \in [Kinds -> Nat] /\ \A k \in Kinds : budget[k] <= Budget[k]
    BY DEF Init
  <1>12. TypeOK
    BY <1>4, <1>5, <1>6, <1>7, <1>8, <1>9, <1>10, <1>11 DEF TypeOK
  <1>13. HashesCommitted
    BY <1>5, <1>8, <1>9 DEF HashesCommitted, Idle
  <1>14. QED
    BY <1>12, <1>13 DEF TypeInv

-----------------------------------------------------------------------------
(* Steps *)

\* Replacing one client's operation by a well-typed one keeps op typed.
LEMMA BecomeType ==
  ASSUME TypeOK, NEW c \in Clients, NEW o \in Op, Become(c, o)
  PROVE  /\ op' \in [Clients -> Op]
         /\ op'[c] = o
         /\ \A d \in Clients : d # c => op'[d] = op[d]
  BY DEF TypeOK, Become

LEMMA FinishType ==
  ASSUME TypeOK, NEW c \in Clients, Finish(c)
  PROVE  /\ op' \in [Clients -> Op]
         /\ op'[c] = Idle
         /\ \A d \in Clients : d # c => op'[d] = op[d]
  BY IdleType DEF TypeOK, Finish

\* Starting an operation of kind k uses up one unit of its budget.
LEMMA BudgetStep ==
  ASSUME TypeOK, NEW k \in Kinds, budget[k] > 0,
         budget' = [budget EXCEPT ![k] = @ - 1]
  PROVE  budget' \in [Kinds -> Nat] /\ \A j \in Kinds : budget'[j] <= Budget[j]
  <1>1. Budget \in [Kinds -> Nat]
    BY EngineAssumption
  <1>2. budget \in [Kinds -> Nat] /\ \A j \in Kinds : budget[j] <= Budget[j]
    BY DEF TypeOK
  <1>3. budget[k] - 1 \in Nat /\ budget[k] - 1 <= Budget[k]
    BY <1>1, <1>2
  <1>4. \A j \in Kinds : budget'[j] = IF j = k THEN budget[k] - 1 ELSE budget[j]
    BY <1>2
  <1>5. budget' \in [Kinds -> Nat]
    BY <1>2, <1>3
  <1>6. QED
    BY <1>2, <1>3, <1>4, <1>5

\* A client's new operation refers to committed manifests if the old one did.
LEMMA HashesStep ==
  ASSUME TypeInv, NEW c \in Clients, NEW o,
         op'[c] = o, \A d \in Clients : d # c => op'[d] = op[d],
         o.cur \in {0, op[c].cur}, o.wrote \in {0, op[c].wrote},
         UNCHANGED <<mlog, pinM>>
  PROVE  HashesCommitted'
  <1>1. Len(mlog) \in Nat
    BY DEF TypeInv, TypeOK
  <1>2. HashesCommitted
    BY DEF TypeInv
  <1>3. o.cur <= Len(mlog) /\ o.wrote <= Len(mlog)
    BY <1>1, <1>2 DEF HashesCommitted
  <1>4. QED
    BY <1>2, <1>3 DEF HashesCommitted

LEMMA CommitType ==
  ASSUME TypeInv, NEW c \in Clients, NEW r \in Refs, Commit(c, r)
  PROVE  TypeInv'
  <1> USE DEF TypeInv
  <1>1. Budget["commit"] - budget["commit"] + 1 \in Commits
    <2>1. "commit" \in Kinds
      BY DEF Kinds
    <2>2. Budget["commit"] \in Nat /\ budget["commit"] \in Nat
      BY <2>1, EngineAssumption DEF TypeOK
    <2>3. budget["commit"] <= Budget["commit"] /\ budget["commit"] > 0
      BY <2>1 DEF TypeOK, Commit
    <2>4. QED
      BY <2>2, <2>3 DEF Commits
  <1>2. local' \in [Clients -> SUBSET Commits]
    BY <1>1 DEF Commit, TypeOK
  <1>3. refs' \in [Clients -> [Refs -> Commits]]
    BY <1>1 DEF Commit, TypeOK
  <1>4. budget' \in [Kinds -> Nat] /\ \A k \in Kinds : budget'[k] <= Budget[k]
    BY BudgetStep DEF Commit, Kinds
  <1>5. TypeOK'
    BY <1>2, <1>3, <1>4 DEF Commit, TypeOK, storeVars, stateFile
  <1>6. HashesCommitted'
    BY DEF Commit, HashesCommitted, storeVars, stateFile
  <1>7. QED
    BY <1>5, <1>6

LEMMA RefreshType ==
  ASSUME TypeInv, NEW c \in Clients, NEW k \in Kinds, NEW who \in Clients,
         NEW want \in [Refs -> Commits], RefreshPackKeys(c, k, who, want)
  PROVE  TypeInv'
  <1> USE DEF TypeInv
  <1> DEFINE o == [Idle EXCEPT !.pc = "roster", !.kind = k, !.arg = who,
                               !.want = want, !.key = keyfile.key,
                               !.gen = keyfile.gen]
  <1>1. o \in Op /\ o.cur = 0 /\ o.wrote = 0
    BY IdleType DEF Idle, Op, PCs, TypeOK
  <1>2. Become(c, o)
    BY DEF RefreshPackKeys
  <1>3. keys' \in [Clients -> SUBSET Nat]
    BY DEF RefreshPackKeys, TypeOK
  <1>4. budget' \in [Kinds -> Nat] /\ \A j \in Kinds : budget'[j] <= Budget[j]
    BY BudgetStep DEF RefreshPackKeys
  <1> HIDE DEF o
  <1>5. /\ op' \in [Clients -> Op]
        /\ op'[c] = o
        /\ \A d \in Clients : d # c => op'[d] = op[d]
    BY <1>1, <1>2, BecomeType
  <1>6. TypeOK'
    BY <1>3, <1>4, <1>5 DEF RefreshPackKeys, TypeOK, storeVars, gitVars
  <1>7. HashesCommitted'
    BY <1>1, <1>5, HashesStep DEF RefreshPackKeys, storeVars
  <1>8. QED
    BY <1>6, <1>7

LEMMA BeginType ==
  ASSUME TypeInv, NEW c \in Clients, Begin(c)
  PROVE  TypeInv'
  <1>1. CASE BeginPush(c)
    <2>1. PICK S \in SUBSET {r \in Refs : refs[c][r] # 0} :
             RefreshPackKeys(c, "push", c,
                             [r \in Refs |-> IF r \in S THEN refs[c][r] ELSE 0])
      BY <1>1 DEF BeginPush
    <2>2. [r \in Refs |-> IF r \in S THEN refs[c][r] ELSE 0] \in [Refs -> Commits]
      BY NoCommit DEF TypeInv, TypeOK
    <2>3. QED
      BY <2>1, <2>2, RefreshType DEF Kinds
  <1>2. CASE BeginOther(c)
    BY <1>2, RefreshType, NoRefsType DEF BeginOther, Kinds
  <1>3. QED
    BY <1>1, <1>2 DEF Begin

LEMMA LoadTrustedRosterType ==
  ASSUME TypeInv, NEW c \in Clients, LoadTrustedRoster(c)
  PROVE  TypeInv'
  <1> USE DEF TypeInv
  <1> DEFINE r == RosterHead
             o == op[c]
             loaded == [o EXCEPT
               !.trusted = r,
               !.next = IF ChangesRoster(o.kind) THEN Successor(c, r) ELSE r,
               !.imp = got[c],
               !.pc = IF o.kind \in {"add", "remove"} THEN "casRoster" ELSE "read"]
             new == IF Permitted(c, r) THEN loaded ELSE Idle
  <1>1. o \in Op /\ r \in Roster /\ lastId \in Nat
    BY RosterHeadType DEF TypeOK
  <1>2. Successor(c, r) \in Roster
    <2>1. r.members \cup {o.arg} \in SUBSET Clients
      BY <1>1 DEF Roster, Op
    <2>2. r.members \ {o.arg} \in SUBSET Clients
      BY <1>1 DEF Roster
    <2>3. QED
      BY <1>1, <2>1, <2>2 DEF Successor, Roster, Op
  <1>3. loaded \in Op /\ loaded.cur = o.cur /\ loaded.wrote = o.wrote
    BY <1>1, <1>2 DEF Op, PCs, TypeOK
  <1>4. Become(c, new)
    BY DEF LoadTrustedRoster
  <1>5. new \in Op /\ new.cur \in {0, o.cur} /\ new.wrote \in {0, o.wrote}
    BY <1>3, IdleType DEF Idle
  <1>6. pinR' \in [Clients -> Roster]
    BY <1>1 DEF LoadTrustedRoster, TypeOK
  <1>7. lastId' \in Nat
    BY <1>1 DEF LoadTrustedRoster
  <1> HIDE DEF new
  <1>8. /\ op' \in [Clients -> Op]
        /\ op'[c] = new
        /\ \A d \in Clients : d # c => op'[d] = op[d]
    BY <1>4, <1>5, BecomeType
  <1>9. TypeOK'
    BY <1>6, <1>7, <1>8 DEF LoadTrustedRoster, TypeOK, storeVars, gitVars
  <1>10. HashesCommitted'
    BY <1>5, <1>8, HashesStep DEF LoadTrustedRoster, storeVars
  <1>11. QED
    BY <1>9, <1>10

\* Steps that only end the operation.
LEMMA FinishStepType ==
  ASSUME TypeInv, NEW c \in Clients, Finish(c),
         UNCHANGED <<storeVars, stateFile, gitVars, lastId, budget>>
  PROVE  TypeInv'
  <1>1. /\ op' \in [Clients -> Op]
        /\ op'[c] = Idle
        /\ \A d \in Clients : d # c => op'[d] = op[d]
    BY FinishType DEF TypeInv
  <1>2. TypeOK'
    BY <1>1 DEF TypeInv, TypeOK, storeVars, stateFile, gitVars
  <1>3. HashesCommitted'
    BY <1>1, HashesStep DEF storeVars, stateFile, Idle
  <1>4. QED
    BY <1>2, <1>3 DEF TypeInv

\* The common part of the remaining steps: the client's operation becomes o and
\* the manifest log only grows.
LEMMA OpStep ==
  ASSUME TypeInv, NEW c \in Clients, NEW o \in Op, Become(c, o),
         Len(mlog') \in Nat, Len(mlog') >= Len(mlog),
         o.cur <= Len(mlog'), o.wrote <= Len(mlog')
  PROVE  /\ op' \in [Clients -> Op]
         /\ \A d \in Clients : op'[d].cur <= Len(mlog') /\ op'[d].wrote <= Len(mlog')
         /\ pinM' = pinM => HashesCommitted'
  <1>1. /\ op' \in [Clients -> Op]
        /\ op'[c] = o
        /\ \A d \in Clients : d # c => op'[d] = op[d]
    BY BecomeType DEF TypeInv
  <1>2. Len(mlog) \in Nat
    BY DEF TypeInv, TypeOK
  <1>3. \A d \in Clients : op[d].cur \in Nat /\ op[d].wrote \in Nat /\ pinM[d] \in Nat
    BY DEF TypeInv, TypeOK, Op
  <1>4. /\ \A d \in Clients : op[d].cur <= Len(mlog) /\ op[d].wrote <= Len(mlog)
        /\ \A d \in Clients : pinM[d] <= Len(mlog)
    BY DEF TypeInv, HashesCommitted
  <1>5. \A d \in Clients : op'[d].cur <= Len(mlog') /\ op'[d].wrote <= Len(mlog')
    <2> SUFFICES ASSUME NEW d \in Clients
                 PROVE  op'[d].cur <= Len(mlog') /\ op'[d].wrote <= Len(mlog')
      OBVIOUS
    <2>1. CASE d = c
      BY <1>1, <2>1
    <2>2. CASE d # c
      BY <1>1, <1>2, <1>3, <1>4, <2>2
    <2>3. QED
      BY <2>1, <2>2
  <1>6. pinM' = pinM => \A d \in Clients : pinM'[d] <= Len(mlog')
    BY <1>2, <1>3, <1>4
  <1>7. QED
    BY <1>1, <1>5, <1>6 DEF HashesCommitted

\* Facts about one client's operation that every step below starts from.
LEMMA OpFacts ==
  ASSUME TypeInv, NEW c \in Clients
  PROVE  /\ op[c] \in Op
         /\ op[c].cur \in Nat /\ op[c].cur <= Len(mlog)
         /\ op[c].wrote \in Nat /\ op[c].wrote <= Len(mlog)
         /\ Len(mlog) \in Nat
         /\ op[c].packs \in SUBSET Pack /\ op[c].imp \in SUBSET Pack
         /\ op[c].next \in Roster /\ op[c].trusted \in Roster
         /\ Idle \in Op /\ Idle.cur = 0 /\ Idle.wrote = 0
  <1>1. op[c] \in Op
    BY DEF TypeInv, TypeOK
  <1>2. op[c].cur <= Len(mlog) /\ op[c].wrote <= Len(mlog)
    BY DEF TypeInv, HashesCommitted
  <1>3. Len(mlog) \in Nat
    BY DEF TypeInv, TypeOK
  <1>4. Idle \in Op /\ Idle.cur = 0 /\ Idle.wrote = 0
    BY IdleType DEF Idle
  <1>5. QED
    BY <1>1, <1>2, <1>3, <1>4 DEF Op

LEMMA LoadCurrentType ==
  ASSUME TypeInv, NEW c \in Clients, LoadCurrent(c)
  PROVE  TypeInv'
  <1> DEFINE n == Len(mlog)
             loaded == [op[c] EXCEPT !.cur = n, !.packs = PacksAt(n),
                                     !.pc = AfterRead(op[c].kind, n)]
             o == IF n = 0 \/ Accepts(c, n) THEN loaded ELSE Idle
  <1>1. Become(c, o)
    BY DEF LoadCurrent
  <1>2. PacksAt(n) \in SUBSET Pack
    BY AtType, OpFacts DEF TypeInv
  <1>3. AfterRead(op[c].kind, n) \in PCs
    BY DEF AfterRead, PCs
  <1>4. loaded \in Op /\ loaded.cur = n /\ loaded.wrote = op[c].wrote
    <2>1. op[c] \in Op /\ n \in Nat
      BY OpFacts
    <2> HIDE DEF n
    <2>2. QED
      BY <1>2, <1>3, <2>1 DEF Op
  <1>5. o \in Op /\ o.cur <= Len(mlog) /\ o.wrote <= Len(mlog)
    BY <1>4, OpFacts
  <1>6. UNCHANGED <<storeVars, stateFile, gitVars, lastId, budget>>
    BY DEF LoadCurrent
  <1> HIDE DEF o
  <1>7. op' \in [Clients -> Op] /\ HashesCommitted'
    BY <1>1, <1>5, <1>6, OpStep, OpFacts DEF storeVars, stateFile
  <1>8. TypeOK'
    BY <1>6, <1>7 DEF TypeInv, TypeOK, storeVars, stateFile, gitVars
  <1>9. QED
    BY <1>7, <1>8 DEF TypeInv

LEMMA ImportFailsType ==
  ASSUME TypeInv, NEW c \in Clients, ImportFails(c, op[c].packs)
  PROVE  TypeInv'
  <1>1. PICK done \in SUBSET {p \in Missing(c, op[c].packs) : Importable(c, p)} :
           local' = [local EXCEPT ![c] = @ \cup DataOf(done)]
    BY DEF ImportFails
  <1>2. done \in SUBSET Pack
    BY OpFacts DEF Missing
  <1>3. DataOf(done) \subseteq Commits
    BY <1>2, DataOfType
  <1>4. local' \in [Clients -> SUBSET Commits]
    BY <1>1, <1>3 DEF TypeInv, TypeOK
  <1>5. /\ op' \in [Clients -> Op]
        /\ op'[c] = Idle
        /\ \A d \in Clients : d # c => op'[d] = op[d]
    BY FinishType DEF TypeInv, ImportFails
  <1>6. HashesCommitted'
    BY <1>5, OpFacts, HashesStep DEF ImportFails, storeVars, stateFile
  <1>7. TypeOK'
    BY <1>4, <1>5 DEF ImportFails, TypeInv, TypeOK, storeVars, stateFile
  <1>8. QED
    BY <1>6, <1>7 DEF TypeInv

LEMMA PreparePackType ==
  ASSUME TypeInv, NEW c \in Clients, PreparePack(c)
  PROVE  TypeInv'
  <1> DEFINE o    == op[c]
             have == Tips(RefsAt(o.cur))
             new  == Tips(o.want) \ have
             pack == IF new = {} THEN {} ELSE {[data |-> new, key |-> o.key]}
             seen == local[c] \cup DataOf(Missing(c, o.packs))
             o2   == [o EXCEPT !.imp = @ \cup o.packs \cup pack,
                               !.packs = @ \cup pack, !.pc = "cas"]
  <1>1. o \in Op /\ o.packs \in SUBSET Pack /\ o.imp \in SUBSET Pack
    BY OpFacts
  <1>2. new \subseteq Commits
    BY <1>1 DEF Tips, Op
  <1>3. pack \in SUBSET Pack
    BY <1>1, <1>2 DEF Pack, Op
  <1>4. DataOf(Missing(c, o.packs)) \subseteq Commits
    BY <1>1, DataOfType DEF Missing
  <1>5. local' \in [Clients -> SUBSET Commits]
    BY <1>4 DEF PreparePack, TypeInv, TypeOK
  <1>6. o2 \in Op /\ o2.cur = o.cur /\ o2.wrote = o.wrote
    BY <1>1, <1>3 DEF Op, PCs
  <1>7. CASE have \subseteq seen
    <2>1. Become(c, o2) /\ blobs' = blobs \cup pack
      BY <1>7 DEF PreparePack
    <2>2. UNCHANGED <<rlog, mlog, keyfile, stateFile, refs, lastId, budget>>
      BY DEF PreparePack
    <2> HIDE DEF o2, pack
    <2>3. op' \in [Clients -> Op] /\ HashesCommitted'
      BY <1>6, <2>1, <2>2, OpStep, OpFacts DEF stateFile
    <2>4. TypeOK'
      BY <1>3, <1>5, <2>1, <2>2, <2>3 DEF TypeInv, TypeOK, stateFile
    <2>5. QED
      BY <2>3, <2>4 DEF TypeInv
  <1>8. CASE ~(have \subseteq seen)
    <2>1. Finish(c) /\ blobs' = blobs
      BY <1>8 DEF PreparePack
    <2>2. UNCHANGED <<rlog, mlog, keyfile, stateFile, refs, lastId, budget>>
      BY DEF PreparePack
    <2>3. /\ op' \in [Clients -> Op]
          /\ op'[c] = Idle
          /\ \A d \in Clients : d # c => op'[d] = op[d]
      BY <2>1, FinishType DEF TypeInv
    <2>4. HashesCommitted'
      BY <2>2, <2>3, OpFacts, HashesStep DEF stateFile
    <2>5. TypeOK'
      BY <1>5, <2>1, <2>2, <2>3 DEF TypeInv, TypeOK, stateFile
    <2>6. QED
      BY <2>4, <2>5 DEF TypeInv
  <1>9. QED
    BY <1>7, <1>8

LEMMA RepackType ==
  ASSUME TypeInv, NEW c \in Clients, Repack(c)
  PROVE  TypeInv'
  <1> DEFINE o   == op[c]
             new == Resealed(c, o.packs)
             o2  == [o EXCEPT !.packs = new, !.imp = @ \cup new, !.pc = "cas"]
  <1>1. o \in Op /\ o.packs \in SUBSET Pack /\ o.imp \in SUBSET Pack
    BY OpFacts
  <1>2. new \in SUBSET Pack
    <2>1. o.next.key \in Nat
      BY OpFacts DEF Roster
    <2>2. \A p \in Pack : [p EXCEPT !.key = o.next.key] \in Pack
      BY <2>1 DEF Pack
    <2>3. QED
      BY <1>1, <2>2 DEF Resealed
  <1>3. o2 \in Op /\ o2.cur = o.cur /\ o2.wrote = o.wrote
    BY <1>1, <1>2 DEF Op, PCs
  <1>4. UNCHANGED <<rlog, mlog, keyfile, stateFile, gitVars, lastId, budget>>
    BY DEF Repack
  <1>5. blobs' \in SUBSET Pack
    BY <1>2 DEF Repack, TypeInv, TypeOK
  <1>6. CASE Become(c, o2)
    <2> HIDE DEF o2
    <2>1. op' \in [Clients -> Op] /\ HashesCommitted'
      BY <1>3, <1>4, <1>6, OpStep, OpFacts DEF stateFile
    <2>2. TypeOK'
      BY <1>4, <1>5, <2>1 DEF TypeInv, TypeOK, stateFile, gitVars
    <2>3. QED
      BY <2>1, <2>2 DEF TypeInv
  <1>7. CASE Finish(c)
    <2>1. /\ op' \in [Clients -> Op]
          /\ op'[c] = Idle
          /\ \A d \in Clients : d # c => op'[d] = op[d]
      BY <1>7, FinishType DEF TypeInv
    <2>2. HashesCommitted'
      BY <1>4, <2>1, OpFacts, HashesStep DEF stateFile
    <2>3. TypeOK'
      BY <1>4, <1>5, <2>1 DEF TypeInv, TypeOK, stateFile, gitVars
    <2>4. QED
      BY <2>2, <2>3 DEF TypeInv
  <1>8. QED
    BY <1>6, <1>7 DEF Repack

\* The hash a finished publication leaves in the operation, or a manifest.
LEMMA PublishedType ==
  ASSUME TypeInv, NEW c \in Clients PROVE Published(c) \in Manifest
  <1> DEFINE o == op[c]
  <1>1. /\ o \in Op /\ o.cur \in Nat /\ o.packs \in SUBSET Pack
        /\ o.next \in Roster
    BY OpFacts
  <1>2. RefsAt(o.cur) \in [Refs -> Commits]
    BY AtType, OpFacts DEF TypeInv
  <1>3. o.want \in [Refs -> Commits] /\ o.key \in Nat
    BY <1>1 DEF Op
  <1>4. o.next.id \in Nat /\ o.next.key \in Nat
    BY <1>1 DEF Roster
  <1> HIDE DEF o
  <1>5. [r \in Refs |-> IF o.want[r] # 0 THEN o.want[r] ELSE RefsAt(o.cur)[r]]
          \in [Refs -> Commits]
    BY <1>2, <1>3
  <1>6. QED
    BY <1>1, <1>3, <1>4, <1>5 DEF Published, Manifest, o

\* Steps that change one client's pc (and hash to pin) and write to the store
\* or the state file without touching manifests.
LEMMA OpOnlyStep ==
  ASSUME TypeInv, NEW c \in Clients, NEW o \in Op, Become(c, o),
         o.cur \in {0, op[c].cur}, o.wrote \in {0, op[c].wrote, op[c].cur},
         UNCHANGED mlog
  PROVE  /\ op' \in [Clients -> Op]
         /\ pinM' = pinM => HashesCommitted'
  <1>1. o.cur <= Len(mlog) /\ o.wrote <= Len(mlog) /\ Len(mlog) \in Nat
    BY OpFacts
  <1>2. Len(mlog') \in Nat /\ Len(mlog') >= Len(mlog)
    BY <1>1
  <1>3. o.cur <= Len(mlog') /\ o.wrote <= Len(mlog')
    BY <1>1
  <1>4. QED
    BY <1>2, <1>3, OpStep

LEMMA CASManifestType ==
  ASSUME TypeInv, NEW c \in Clients, CASManifest(c)
  PROVE  TypeInv'
  <1> DEFINE o == [op[c] EXCEPT !.wrote = op[c].cur + 1,
                     !.pc = IF op[c].kind = "rekey" THEN "keyfile" ELSE "save"]
  <1>1. op[c] \in Op /\ op[c].cur \in Nat /\ Len(mlog) \in Nat
    BY OpFacts
  <1>2. o \in Op /\ o.cur = op[c].cur /\ o.wrote = op[c].cur + 1
    <2>1. op[c].cur + 1 \in Nat
      BY <1>1
    <2>2. QED
      BY <1>1, <2>1, Zenon DEF Op, PCs
  <1>3. mlog' = Append(mlog, Published(c)) /\ Become(c, o) /\ op[c].cur = Len(mlog)
    BY DEF CASManifest
  <1>4. mlog \in Seq(Manifest)
    BY DEF TypeInv, TypeOK
  <1>5. mlog' \in Seq(Manifest) /\ Len(mlog') = Len(mlog) + 1
    BY <1>3, <1>4, PublishedType, AppendProperties
  <1>6. UNCHANGED <<rlog, keyfile, blobs, stateFile, gitVars, lastId, budget>>
    BY DEF CASManifest
  <1> HIDE DEF o
  <1>7. op' \in [Clients -> Op] /\ HashesCommitted'
    <2>1. Len(mlog') \in Nat /\ Len(mlog') >= Len(mlog)
      BY <1>1, <1>5
    <2>2. o.cur <= Len(mlog') /\ o.wrote <= Len(mlog')
      BY <1>1, <1>2, <1>3, <1>5
    <2>3. QED
      BY <1>2, <1>3, <1>6, <2>1, <2>2, OpStep DEF stateFile
  <1>8. TypeOK'
    BY <1>5, <1>6, <1>7 DEF TypeInv, TypeOK, stateFile, gitVars
  <1>9. QED
    BY <1>7, <1>8 DEF TypeInv

LEMMA ManifestConflictType ==
  ASSUME TypeInv, NEW c \in Clients, ManifestConflict(c)
  PROVE  TypeInv'
  <1> DEFINE retry == [op[c] EXCEPT !.pc = "read", !.tries = @ + 1,
                                    !.packs = {}, !.cur = 0]
             o == IF op[c].kind = "push" /\ op[c].tries + 1 < MaxPushRetries
                  THEN retry ELSE Idle
  <1>1. retry \in Op /\ retry.cur = 0 /\ retry.wrote = op[c].wrote
    <2>1. op[c] \in Op
      BY OpFacts
    <2>2. op[c].tries + 1 \in Nat /\ {} \in SUBSET Pack /\ 0 \in Nat
      BY <2>1 DEF Op
    <2>3. QED
      BY <2>1, <2>2, Zenon DEF Op, PCs
  <1>2. o \in Op /\ o.cur \in {0, op[c].cur} /\ o.wrote \in {0, op[c].wrote}
    BY <1>1, OpFacts
  <1>3. Become(c, o)
    BY DEF ManifestConflict
  <1>4. UNCHANGED <<storeVars, pinR, pinM, keys, gitVars, lastId, budget>>
    BY DEF ManifestConflict
  <1>5. got' \in [Clients -> SUBSET Pack]
    BY OpFacts DEF ManifestConflict, TypeInv, TypeOK
  <1> HIDE DEF o
  <1>6. op' \in [Clients -> Op] /\ HashesCommitted'
    BY <1>2, <1>3, <1>4, OpOnlyStep DEF storeVars
  <1>7. TypeOK'
    BY <1>4, <1>5, <1>6 DEF TypeInv, TypeOK, storeVars, gitVars
  <1>8. QED
    BY <1>6, <1>7 DEF TypeInv

LEMMA PutKeyfileType ==
  ASSUME TypeInv, NEW c \in Clients, PutKeyfile(c)
  PROVE  TypeInv'
  <1> DEFINE o == [op[c] EXCEPT
                     !.pc = IF op[c].kind = "rekey" THEN "casRoster" ELSE "read"]
  <1>1. op[c] \in Op /\ op[c].next \in Roster
    BY OpFacts
  <1>2. o \in Op /\ o.cur = op[c].cur /\ o.wrote = op[c].wrote
    BY <1>1 DEF Op, PCs
  <1>3. Become(c, o)
    BY DEF PutKeyfile
  <1>4. UNCHANGED <<rlog, mlog, blobs, stateFile, gitVars, lastId, budget>>
    BY DEF PutKeyfile
  <1>5. keyfile' \in [gen : Nat, key : Nat, to : SUBSET Clients]
    BY <1>1 DEF PutKeyfile, Roster
  <1> HIDE DEF o
  <1>6. op' \in [Clients -> Op] /\ HashesCommitted'
    BY <1>2, <1>3, <1>4, OpOnlyStep DEF stateFile
  <1>7. TypeOK'
    BY <1>4, <1>5, <1>6 DEF TypeInv, TypeOK, stateFile, gitVars
  <1>8. QED
    BY <1>6, <1>7 DEF TypeInv

LEMMA CASRosterType ==
  ASSUME TypeInv, NEW c \in Clients, CASRoster(c)
  PROVE  TypeInv'
  <1> DEFINE o == [op[c] EXCEPT
                     !.pc = IF op[c].kind # "rekey" THEN "keyfile"
                            ELSE IF PacksAt(op[c].cur) = {} THEN "save"
                            ELSE "delete"]
  <1>1. op[c] \in Op /\ op[c].next \in Roster
    BY OpFacts
  <1>2. o \in Op /\ o.cur = op[c].cur /\ o.wrote = op[c].wrote
    BY <1>1 DEF Op, PCs
  <1>3. Become(c, o)
    BY DEF CASRoster
  <1>4. UNCHANGED <<mlog, keyfile, blobs, stateFile, gitVars, lastId, budget>>
    BY DEF CASRoster
  <1>5. rlog' \in Seq(Roster) /\ Len(rlog') > 0
    BY <1>1, AppendProperties DEF CASRoster, TypeInv, TypeOK
  <1> HIDE DEF o
  <1>6. op' \in [Clients -> Op] /\ HashesCommitted'
    BY <1>2, <1>3, <1>4, OpOnlyStep DEF stateFile
  <1>7. TypeOK'
    BY <1>4, <1>5, <1>6 DEF TypeInv, TypeOK, stateFile, gitVars
  <1>8. QED
    BY <1>6, <1>7 DEF TypeInv

LEMMA DeleteType ==
  ASSUME TypeInv, NEW c \in Clients, DeleteOldPack(c) \/ OldPacksDeleted(c)
  PROVE  TypeInv'
  <1>1. CASE DeleteOldPack(c)
    <2>1. UNCHANGED <<rlog, mlog, keyfile, stateFile, gitVars, op, lastId, budget>>
      BY <1>1 DEF DeleteOldPack
    <2>2. blobs' \in SUBSET Pack
      BY <1>1 DEF DeleteOldPack, TypeInv, TypeOK
    <2>3. TypeOK'
      BY <2>1, <2>2 DEF TypeInv, TypeOK, stateFile, gitVars
    <2>4. HashesCommitted'
      BY <2>1 DEF TypeInv, HashesCommitted, stateFile
    <2>5. QED
      BY <2>3, <2>4 DEF TypeInv
  <1>2. CASE OldPacksDeleted(c)
    <2> DEFINE o == [op[c] EXCEPT !.pc = "save"]
    <2>1. op[c] \in Op
      BY OpFacts
    <2>2. o \in Op /\ o.cur = op[c].cur /\ o.wrote = op[c].wrote
      BY <2>1 DEF Op, PCs
    <2>3. /\ Become(c, o)
          /\ UNCHANGED <<storeVars, stateFile, gitVars, lastId, budget>>
      BY <1>2 DEF OldPacksDeleted
    <2> HIDE DEF o
    <2>4. op' \in [Clients -> Op] /\ HashesCommitted'
      BY <2>2, <2>3, OpOnlyStep DEF storeVars, stateFile
    <2>5. TypeOK'
      BY <2>3, <2>4 DEF TypeInv, TypeOK, storeVars, stateFile, gitVars
    <2>6. QED
      BY <2>4, <2>5 DEF TypeInv
  <1>3. QED
    BY <1>1, <1>2

LEMMA FetchManifestType ==
  ASSUME TypeInv, NEW c \in Clients, FetchManifest(c)
  PROVE  TypeInv'
  <1> DEFINE n == Len(mlog)
             read == [op[c] EXCEPT !.cur = n, !.packs = PacksAt(n),
                                   !.pc = "import"]
             o == IF n # 0 /\ Accepts(c, n) /\ Fresh(c, n) THEN read ELSE Idle
  <1>1. Become(c, o)
    BY DEF FetchManifest
  <1>2. PacksAt(n) \in SUBSET Pack
    BY AtType, OpFacts DEF TypeInv
  <1>3. read \in Op /\ read.cur = n /\ read.wrote = op[c].wrote
    <2>1. op[c] \in Op /\ n \in Nat
      BY OpFacts
    <2> HIDE DEF n
    <2>2. QED
      BY <1>2, <2>1 DEF Op, PCs
  <1>4. o \in Op /\ o.cur <= Len(mlog) /\ o.wrote <= Len(mlog)
    BY <1>3, OpFacts
  <1>5. UNCHANGED <<storeVars, stateFile, gitVars, lastId, budget>>
    BY DEF FetchManifest
  <1> HIDE DEF o
  <1>6. op' \in [Clients -> Op] /\ HashesCommitted'
    BY <1>1, <1>4, <1>5, OpStep, OpFacts DEF storeVars, stateFile
  <1>7. TypeOK'
    BY <1>5, <1>6 DEF TypeInv, TypeOK, storeVars, stateFile, gitVars
  <1>8. QED
    BY <1>6, <1>7 DEF TypeInv

LEMMA ImportAndUpdateRefsType ==
  ASSUME TypeInv, NEW c \in Clients, ImportAndUpdateRefs(c)
  PROVE  TypeInv'
  <1> DEFINE new  == RefsAt(op[c].cur)
             seen == local[c] \cup DataOf(Missing(c, op[c].packs))
             good == {r \in Refs : new[r] # 0 /\ new[r] \in seen}
             Updated(S) == [r \in Refs |-> IF r \in S THEN new[r] ELSE refs[c][r]]
             read == [op[c] EXCEPT !.imp = @ \cup op[c].packs,
                                   !.wrote = op[c].cur, !.pc = "save"]
  <1>1. op[c] \in Op /\ op[c].packs \in SUBSET Pack /\ op[c].imp \in SUBSET Pack
    BY OpFacts
  <1>2. read \in Op /\ read.cur = op[c].cur /\ read.wrote = op[c].cur
    BY <1>1 DEF Op, PCs
  <1>3. DataOf(Missing(c, op[c].packs)) \subseteq Commits
    BY <1>1, DataOfType DEF Missing
  <1>4. local' \in [Clients -> SUBSET Commits]
    BY <1>3 DEF ImportAndUpdateRefs, TypeInv, TypeOK
  <1>5. new \in [Refs -> Commits]
    BY AtType, OpFacts DEF TypeInv
  <1> HIDE DEF new
  <1>6. \A S \in SUBSET good : Updated(S) \in [Refs -> Commits]
    BY <1>5 DEF TypeInv, TypeOK
  <1>7. UNCHANGED <<storeVars, stateFile, lastId, budget>>
    BY DEF ImportAndUpdateRefs
  <1>8. \E S \in SUBSET good : refs' = [refs EXCEPT ![c] = Updated(S)]
    <2>1. good \in SUBSET good
      OBVIOUS
    <2>2. CASE Tips(new) \subseteq seen
      BY <2>1, <2>2 DEF ImportAndUpdateRefs, new
    <2>3. CASE ~(Tips(new) \subseteq seen)
      BY <2>3 DEF ImportAndUpdateRefs, new
    <2>4. QED
      BY <2>2, <2>3
  <1>9. refs' \in [Clients -> [Refs -> Commits]]
    BY <1>6, <1>8 DEF TypeInv, TypeOK
  <1>10. Become(c, read) \/ Become(c, Idle)
    BY DEF ImportAndUpdateRefs, new, Finish, Become
  <1> HIDE DEF read
  <1>11. op' \in [Clients -> Op] /\ HashesCommitted'
    <2>1. mlog' = mlog /\ pinM' = pinM
      BY <1>7 DEF storeVars, stateFile
    <2>2. CASE Become(c, read)
      BY <1>2, <2>1, <2>2, OpOnlyStep
    <2>3. CASE Become(c, Idle)
      BY <2>1, <2>3, OpOnlyStep, OpFacts
    <2>4. QED
      BY <1>10, <2>2, <2>3
  <1>12. TypeOK'
    BY <1>4, <1>7, <1>9, <1>11 DEF TypeInv, TypeOK, storeVars, stateFile
  <1>13. QED
    BY <1>11, <1>12 DEF TypeInv

LEMMA SaveType ==
  ASSUME TypeInv, NEW c \in Clients, Save(c)
  PROVE  TypeInv'
  <1>1. /\ op[c] \in Op /\ op[c].imp \in SUBSET Pack /\ op[c].next \in Roster
        /\ op[c].wrote \in Nat /\ op[c].wrote <= Len(mlog)
    BY OpFacts
  <1>2. got' \in [Clients -> SUBSET Pack]
    BY <1>1 DEF Save, TypeInv, TypeOK
  <1>3. /\ pinM' \in [Clients -> Nat]
        /\ \A d \in Clients : pinM'[d] <= Len(mlog)
    BY <1>1 DEF Save, TypeInv, TypeOK, HashesCommitted
  <1>4. pinR' \in [Clients -> Roster]
    BY <1>1 DEF Save, TypeInv, TypeOK
  <1>5. op[c].next.key \in Nat
    BY <1>1 DEF Roster
  <1>6. keys' \in [Clients -> SUBSET Nat]
    BY <1>5 DEF Save, TypeInv, TypeOK
  <1>7. UNCHANGED <<storeVars, gitVars, lastId, budget>> /\ Finish(c)
    BY DEF Save
  <1>8. /\ op' \in [Clients -> Op]
        /\ op'[c] = Idle
        /\ \A d \in Clients : d # c => op'[d] = op[d]
    BY <1>7, FinishType DEF TypeInv
  <1>9. TypeOK'
    BY <1>2, <1>3, <1>4, <1>6, <1>7, <1>8 DEF TypeInv, TypeOK, storeVars, gitVars
  <1>10. HashesCommitted'
    <2>1. mlog' = mlog
      BY <1>7 DEF storeVars
    <2>2. \A d \in Clients : op'[d].cur <= Len(mlog) /\ op'[d].wrote <= Len(mlog)
      BY <1>8, OpFacts
    <2>3. QED
      BY <1>3, <2>1, <2>2 DEF HashesCommitted
  <1>11. QED
    BY <1>9, <1>10 DEF TypeInv

\* Every step of the system preserves the type invariant.
LEMMA TypeInductive == TypeInv /\ [Next]_vars => TypeInv'
  <1> SUFFICES ASSUME TypeInv, [Next]_vars PROVE TypeInv'
    OBVIOUS
  <1>1. CASE UNCHANGED vars
    BY <1>1 DEF vars, storeVars, stateFile, gitVars, TypeInv, TypeOK,
                HashesCommitted
  <1>2. CASE Next
    <2>1. PICK c \in Clients : \/ \E r \in Refs : Commit(c, r)
                               \/ Begin(c) \/ Step(c) \/ Crash(c)
      BY <1>2 DEF Next
    <2>2. CASE \E r \in Refs : Commit(c, r)
      BY <2>2, CommitType
    <2>3. CASE Begin(c)
      BY <2>3, BeginType
    <2>4. CASE Crash(c) \/ RefuseRoster(c) \/ RosterConflict(c)
      BY <2>4, FinishStepType DEF Crash, RefuseRoster, RosterConflict
    <2>5. CASE Step(c)
      <3>1. CASE LoadTrustedRoster(c)
        BY <3>1, LoadTrustedRosterType
      <3>2. CASE LoadCurrent(c)
        BY <3>2, LoadCurrentType
      <3>3. CASE PreparePack(c)
        BY <3>3, PreparePackType
      <3>4. CASE PreparePackFails(c) \/ ImportFailsInFetch(c)
        BY <3>4, ImportFailsType DEF PreparePackFails, ImportFailsInFetch
      <3>5. CASE Repack(c)
        BY <3>5, RepackType
      <3>6. CASE CASManifest(c)
        BY <3>6, CASManifestType
      <3>7. CASE ManifestConflict(c)
        BY <3>7, ManifestConflictType
      <3>8. CASE PutKeyfile(c)
        BY <3>8, PutKeyfileType
      <3>9. CASE CASRoster(c)
        BY <3>9, CASRosterType
      <3>10. CASE DeleteOldPack(c) \/ OldPacksDeleted(c)
        BY <3>10, DeleteType
      <3>11. CASE FetchManifest(c)
        BY <3>11, FetchManifestType
      <3>12. CASE ImportAndUpdateRefs(c)
        BY <3>12, ImportAndUpdateRefsType
      <3>13. CASE Save(c)
        BY <3>13, SaveType
      <3>14. QED
        BY <2>4, <2>5, <3>1, <3>2, <3>3, <3>4, <3>5, <3>6, <3>7, <3>8, <3>9,
           <3>10, <3>11, <3>12, <3>13 DEF Step
    <2>6. QED
      BY <2>1, <2>2, <2>3, <2>4, <2>5
  <1>3. QED
    BY <1>1, <1>2

\* Every reachable state is well-typed and every manifest hash a client holds is
\* that of a committed manifest, for any clients, budget and retry bound.
THEOREM TypeInvCorrect == Spec => []TypeInv
  <1>1. Init => TypeInv
    BY InitType
  <1>2. TypeInv /\ [Next]_vars => TypeInv'
    BY TypeInductive
  <1>3. QED
    BY <1>1, <1>2, PTL DEF Spec

\* Type correctness of the engine: TypeOK holds in every reachable state.
THEOREM TypeCorrect == Spec => []TypeOK
  <1>1. TypeInv => TypeOK
    BY DEF TypeInv
  <1>2. QED
    BY <1>1, TypeInvCorrect, PTL

-----------------------------------------------------------------------------
(* The manifest chain.  It is inductive relative to TypeInv: the version a   *)
(* client publishes is one above the version it compared the pointer with.   *)

LEMMA ManifestsStep ==
  ASSUME TypeInv, [Next]_vars
  PROVE  \/ mlog' = mlog
         \/ \E c \in Clients : CASManifest(c)
  <1>1. CASE UNCHANGED vars
    BY <1>1 DEF vars, storeVars
  <1>2. CASE Next
    <2>1. PICK c \in Clients : \/ \E r \in Refs : Commit(c, r)
                               \/ Begin(c) \/ Step(c) \/ Crash(c)
      BY <1>2 DEF Next
    <2>2. CASE \/ \E r \in Refs : Commit(c, r)
               \/ Begin(c) \/ Crash(c)
      BY <2>2 DEF Commit, Begin, BeginPush, BeginOther, RefreshPackKeys, Crash,
                  storeVars
    <2>3. CASE Step(c)
      BY <2>3 DEF Step, LoadTrustedRoster, RefuseRoster, LoadCurrent, PreparePack,
         PreparePackFails, Repack, ManifestConflict, PutKeyfile, CASRoster,
         RosterConflict, DeleteOldPack, OldPacksDeleted, FetchManifest,
         ImportAndUpdateRefs, ImportFailsInFetch, ImportFails, Save, storeVars
    <2>4. QED
      BY <2>1, <2>2, <2>3
  <1>3. QED
    BY <1>1, <1>2

\* Manifest versions count from 1 and each manifest names the one it replaced,
\* whatever pushes, re-issues, rekeys and crashes interleave.
THEOREM ManifestsChain == Spec => []ManifestChain
  <1>1. Init => ManifestChain
    BY DEF Init, ManifestChain
  <1>2. TypeInv /\ ManifestChain /\ [Next]_vars => ManifestChain'
    <2> SUFFICES ASSUME TypeInv, ManifestChain, [Next]_vars PROVE ManifestChain'
      OBVIOUS
    <2>1. CASE mlog' = mlog
      BY <2>1 DEF ManifestChain
    <2>2. ASSUME NEW c \in Clients, CASManifest(c) PROVE ManifestChain'
      <3>1. mlog' = Append(mlog, Published(c)) /\ op[c].cur = Len(mlog)
        BY <2>2 DEF CASManifest
      <3>2. Len(mlog) \in Nat /\ mlog \in Seq(Manifest)
        BY DEF TypeInv, TypeOK
      <3>3. /\ Len(mlog') = Len(mlog) + 1
            /\ \A i \in 1 .. Len(mlog) : mlog'[i] = mlog[i]
            /\ mlog'[Len(mlog) + 1] = Published(c)
        BY <3>1, <3>2, PublishedType, AppendProperties
      <3>4. /\ Published(c).version = Len(mlog) + 1
            /\ Published(c).prev = Len(mlog)
        BY <3>1 DEF Published
      <3>5. ASSUME NEW i \in 1 .. Len(mlog')
            PROVE  mlog'[i].version = i /\ mlog'[i].prev = i - 1
        <4>1. CASE i = Len(mlog) + 1
          BY <3>2, <3>3, <3>4, <4>1
        <4>2. CASE i # Len(mlog) + 1
          <5>1. i \in 1 .. Len(mlog)
            BY <3>2, <3>3, <4>2
          <5>2. QED
            BY <3>3, <5>1 DEF ManifestChain
        <4>3. QED
          BY <4>1, <4>2
      <3>6. QED
        BY <3>5 DEF ManifestChain
    <2>3. QED
      BY <2>1, <2>2, ManifestsStep
  <1>3. QED
    BY <1>1, <1>2, TypeInvCorrect, PTL DEF Spec

\* No publication loses another client's update: a new manifest differs from the
\* one it replaces only in refs its publisher asked to push, for any number of
\* clients and branches.
THEOREM UpdatesKept == Spec => NoLostUpdate
  <1> DEFINE Kept == Len(mlog') > Len(mlog) =>
               LET new == mlog'[Len(mlog')] IN
               \A r \in Refs :
                 \/ new.refs[r] = RefsAt(Len(mlog))[r]
                 \/ new.refs[r] = op[new.signer].want[r] /\ new.refs[r] # 0
  <1>1. TypeInv /\ [Next]_vars => [Kept]_vars
    <2> SUFFICES ASSUME TypeInv, [Next]_vars PROVE Kept
      OBVIOUS
    <2>1. CASE mlog' = mlog
      BY <2>1 DEF TypeInv, TypeOK
    <2>2. ASSUME NEW c \in Clients, CASManifest(c) PROVE Kept
      <3> DEFINE new == mlog'[Len(mlog')]
      <3>1. mlog' = Append(mlog, Published(c)) /\ op[c].cur = Len(mlog)
        BY <2>2 DEF CASManifest
      <3>2. new = Published(c)
        BY <3>1, PublishedType, AppendProperties DEF TypeInv, TypeOK
      <3>3. /\ new.signer = c
            /\ \A r \in Refs : new.refs[r] = IF op[c].want[r] # 0 THEN op[c].want[r]
                                             ELSE RefsAt(Len(mlog))[r]
        BY <3>1, <3>2 DEF Published
      <3> HIDE DEF new
      <3>4. QED
        BY <3>3 DEF new
    <2>3. QED
      BY <2>1, <2>2, ManifestsStep
  <1>2. QED
    BY <1>1, TypeInvCorrect, PTL DEF Spec, NoLostUpdate
-----------------------------------------------------------------------------
(* What each step does to the operation it advances, field by field: the   *)
(* later proofs start from these facts.                                    *)

\* The other clients' operations stay as they are.
OnlyOp(c) == \A d \in Clients : d # c => op'[d] = op[d]

\* Operation o goes on as p: same kind and arguments, keys and rosters.
SameRun(o, p) ==
    /\ p.kind = o.kind /\ p.arg = o.arg /\ p.want = o.want
    /\ p.key = o.key /\ p.gen = o.gen
    /\ p.trusted = o.trusted /\ p.next = o.next

LEMMA BecomeStep ==
  ASSUME TypeInv, NEW c \in Clients, NEW o, Become(c, o)
  PROVE  op'[c] = o /\ OnlyOp(c)
  BY DEF TypeInv, TypeOK, Become, OnlyOp

LEMMA FinishStep ==
  ASSUME TypeInv, NEW c \in Clients, Finish(c)
  PROVE  op'[c] = Idle /\ OnlyOp(c)
  BY DEF TypeInv, TypeOK, Finish, OnlyOp

LEMMA RefreshFields ==
  ASSUME TypeInv, NEW c \in Clients, NEW k, NEW who, NEW want,
         RefreshPackKeys(c, k, who, want)
  PROVE  /\ OnlyOp(c) /\ op[c].pc = "idle"
         /\ op'[c].pc = "roster" /\ op'[c].kind = k /\ op'[c].want = want
         /\ op'[c].key = keyfile.key /\ op'[c].gen = keyfile.gen
         /\ op'[c].cur = 0 /\ op'[c].packs = {} /\ op'[c].imp = {}
         /\ op'[c].wrote = 0 /\ op'[c].next = NoRoster
         /\ op'[c].tries = 0
  <1> DEFINE p == [Idle EXCEPT !.pc = "roster", !.kind = k, !.arg = who,
                               !.want = want, !.key = keyfile.key,
                               !.gen = keyfile.gen]
  <1>1. Become(c, p) /\ op[c].pc = "idle"
    BY DEF RefreshPackKeys
  <1>2. op'[c] = p /\ OnlyOp(c)
    BY <1>1, BecomeStep
  <1>3. /\ p.pc = "roster" /\ p.kind = k /\ p.want = want
        /\ p.key = keyfile.key /\ p.gen = keyfile.gen
        /\ p.cur = 0 /\ p.packs = {} /\ p.imp = {}
        /\ p.wrote = 0 /\ p.next = NoRoster
        /\ p.tries = 0
    BY DEF Idle
  <1> HIDE DEF p
  <1>4. QED
    BY <1>1, <1>2, <1>3

LEMMA LoadFields ==
  ASSUME TypeInv, NEW c \in Clients, LoadTrustedRoster(c)
  PROVE  /\ OnlyOp(c) /\ op[c].pc = "roster"
         /\ \/ op'[c] = Idle /\ ~Permitted(c, RosterHead)
            \/ LET o == op[c]  p == op'[c] IN
               /\ Permitted(c, RosterHead)
               /\ p.kind = o.kind /\ p.want = o.want /\ p.arg = o.arg
               /\ p.key = o.key /\ p.gen = o.gen
               /\ p.trusted = RosterHead
               /\ p.next = IF ChangesRoster(o.kind) THEN Successor(c, RosterHead)
                           ELSE RosterHead
               /\ p.imp = got[c]
               /\ p.pc = IF o.kind \in {"add", "remove"} THEN "casRoster" ELSE "read"
               /\ p.cur = o.cur /\ p.packs = o.packs /\ p.wrote = o.wrote
               /\ p.tries = o.tries
  <1> DEFINE o == op[c]
             p == [o EXCEPT
               !.trusted = RosterHead,
               !.next = IF ChangesRoster(o.kind) THEN Successor(c, RosterHead)
                        ELSE RosterHead,
               !.imp = got[c],
               !.pc = IF o.kind \in {"add", "remove"} THEN "casRoster" ELSE "read"]
  <1>1. op[c] \in Op
    BY OpFacts
  <1>2. CASE Permitted(c, RosterHead)
    <2>1. Become(c, p)
      BY <1>2 DEF LoadTrustedRoster
    <2>2. op'[c] = p /\ OnlyOp(c)
      BY <2>1, BecomeStep
    <2>3. QED
      BY <1>1, <1>2, <2>2 DEF Op, LoadTrustedRoster
  <1>3. CASE ~Permitted(c, RosterHead)
    <2>1. Finish(c)
      BY <1>3 DEF LoadTrustedRoster, Become, Finish
    <2>2. QED
      BY <1>3, <2>1, FinishStep DEF LoadTrustedRoster
  <1>4. QED
    BY <1>2, <1>3

LEMMA LoadCurrentFields ==
  ASSUME TypeInv, NEW c \in Clients, LoadCurrent(c)
  PROVE  /\ OnlyOp(c) /\ op[c].pc = "read" /\ op[c].kind # "fetch"
         /\ \/ op'[c] = Idle
            \/ /\ SameRun(op[c], op'[c])
               /\ Len(mlog) = 0 \/ Accepts(c, Len(mlog))
               /\ op'[c].cur = Len(mlog) /\ op'[c].packs = PacksAt(Len(mlog))
               /\ op'[c].pc = AfterRead(op[c].kind, Len(mlog))
               /\ op'[c].imp = op[c].imp /\ op'[c].wrote = op[c].wrote
               /\ op'[c].tries = op[c].tries
  <1> DEFINE n == Len(mlog)
             p == [op[c] EXCEPT !.cur = n, !.packs = PacksAt(n),
                                !.pc = AfterRead(op[c].kind, n)]
  <1>1. op[c] \in Op
    BY OpFacts
  <1>2. CASE n = 0 \/ Accepts(c, n)
    <2>1. Become(c, p)
      BY <1>2 DEF LoadCurrent
    <2>2. op'[c] = p /\ OnlyOp(c)
      BY <2>1, BecomeStep
    <2> HIDE DEF n
    <2>3. /\ SameRun(op[c], op'[c]) /\ op'[c].cur = n
          /\ op'[c].packs = PacksAt(n) /\ op'[c].pc = AfterRead(op[c].kind, n)
          /\ op'[c].imp = op[c].imp /\ op'[c].wrote = op[c].wrote
          /\ op'[c].tries = op[c].tries
      BY <1>1, <2>2 DEF Op, SameRun
    <2>4. QED
      BY <1>2, <2>2, <2>3 DEF LoadCurrent, n
  <1>3. CASE ~(n = 0 \/ Accepts(c, n))
    <2>1. Finish(c)
      BY <1>3 DEF LoadCurrent, Become, Finish
    <2>2. QED
      BY <2>1, FinishStep DEF LoadCurrent
  <1>4. QED
    BY <1>2, <1>3

\* The pack a push builds: the pushed commits the manifest it read has not.
NewPack(c) ==
    LET new == Tips(op[c].want) \ Tips(RefsAt(op[c].cur))
    IN  IF new = {} THEN {} ELSE {[data |-> new, key |-> op[c].key]}

LEMMA PreparePackFields ==
  ASSUME TypeInv, NEW c \in Clients, PreparePack(c)
  PROVE  /\ OnlyOp(c) /\ op[c].pc = "objects"
         /\ local' = [local EXCEPT ![c] = @ \cup DataOf(Missing(c, op[c].packs))]
         /\ \/ op'[c] = Idle /\ blobs' = blobs
            \/ /\ SameRun(op[c], op'[c])
               /\ blobs' = blobs \cup NewPack(c)
               /\ op'[c].pc = "cas"
               /\ op'[c].packs = op[c].packs \cup NewPack(c)
               /\ op'[c].imp = op[c].imp \cup op[c].packs \cup NewPack(c)
               /\ op'[c].cur = op[c].cur /\ op'[c].wrote = op[c].wrote
               /\ op'[c].tries = op[c].tries
  <1> DEFINE new  == NewPack(c)
             p == [op[c] EXCEPT !.imp = @ \cup op[c].packs \cup new,
                                !.packs = @ \cup new, !.pc = "cas"]
  <1>1. op[c] \in Op
    BY OpFacts
  <1>2. /\ op[c].pc = "objects"
        /\ local' = [local EXCEPT ![c] = @ \cup DataOf(Missing(c, op[c].packs))]
    BY DEF PreparePack
  <1>3. \/ Finish(c) /\ blobs' = blobs
        \/ Become(c, p) /\ blobs' = blobs \cup new
    BY DEF PreparePack, NewPack
  <1>4. CASE Finish(c) /\ blobs' = blobs
    BY <1>2, <1>4, FinishStep
  <1>5. CASE Become(c, p) /\ blobs' = blobs \cup new
    <2>1. op'[c] = p /\ OnlyOp(c)
      BY <1>5, BecomeStep
    <2> HIDE DEF new
    <2>2. /\ SameRun(op[c], op'[c]) /\ op'[c].pc = "cas"
          /\ op'[c].packs = op[c].packs \cup new
          /\ op'[c].imp = op[c].imp \cup op[c].packs \cup new
          /\ op'[c].cur = op[c].cur /\ op'[c].wrote = op[c].wrote
          /\ op'[c].tries = op[c].tries
      BY <1>1, <2>1 DEF Op, SameRun
    <2>3. QED
      BY <1>2, <1>5, <2>1, <2>2 DEF new
  <1>6. QED
    BY <1>3, <1>4, <1>5

LEMMA RepackFields ==
  ASSUME TypeInv, NEW c \in Clients, Repack(c)
  PROVE  /\ OnlyOp(c) /\ op[c].pc = "repack"
         /\ blobs \subseteq blobs'
         /\ \/ op'[c] = Idle
            \/ /\ SameRun(op[c], op'[c])
               /\ blobs' = blobs \cup Resealed(c, op[c].packs)
               /\ op'[c].pc = "cas"
               /\ op'[c].packs = Resealed(c, op[c].packs)
               /\ op'[c].imp = op[c].imp \cup Resealed(c, op[c].packs)
               /\ op'[c].cur = op[c].cur /\ op'[c].wrote = op[c].wrote
               /\ op'[c].tries = op[c].tries
  <1> DEFINE new == Resealed(c, op[c].packs)
             p == [op[c] EXCEPT !.packs = new, !.imp = @ \cup new, !.pc = "cas"]
  <1>1. op[c] \in Op /\ op[c].pc = "repack"
    BY OpFacts DEF Repack
  <1>2. \/ Finish(c) /\ blobs \subseteq blobs'
        \/ Become(c, p) /\ blobs' = blobs \cup new
    BY DEF Repack
  <1>3. CASE Finish(c) /\ blobs \subseteq blobs'
    BY <1>1, <1>3, FinishStep
  <1>4. CASE Become(c, p) /\ blobs' = blobs \cup new
    <2>1. op'[c] = p /\ OnlyOp(c)
      BY <1>4, BecomeStep
    <2> HIDE DEF new
    <2>2. /\ SameRun(op[c], op'[c]) /\ op'[c].pc = "cas"
          /\ op'[c].packs = new /\ op'[c].imp = op[c].imp \cup new
          /\ op'[c].cur = op[c].cur /\ op'[c].wrote = op[c].wrote
          /\ op'[c].tries = op[c].tries
      BY <1>1, <2>1 DEF Op, SameRun
    <2>3. QED
      BY <1>1, <1>4, <2>1, <2>2 DEF new
  <1>5. QED
    BY <1>2, <1>3, <1>4

LEMMA CASManifestFields ==
  ASSUME TypeInv, NEW c \in Clients, CASManifest(c)
  PROVE  /\ OnlyOp(c) /\ op[c].pc = "cas" /\ op[c].cur = Len(mlog)
         /\ Len(mlog') = Len(mlog) + 1
         /\ \A i \in 1 .. Len(mlog) : mlog'[i] = mlog[i]
         /\ mlog'[Len(mlog) + 1] = Published(c)
         /\ SameRun(op[c], op'[c])
         /\ op'[c].pc = IF op[c].kind = "rekey" THEN "keyfile" ELSE "save"
         /\ op'[c].cur = op[c].cur /\ op'[c].packs = op[c].packs
         /\ op'[c].imp = op[c].imp /\ op'[c].wrote = Len(mlog) + 1
         /\ op'[c].tries = op[c].tries
  <1> DEFINE p == [op[c] EXCEPT !.wrote = op[c].cur + 1,
                     !.pc = IF op[c].kind = "rekey" THEN "keyfile" ELSE "save"]
  <1>1. op[c] \in Op /\ op[c].pc = "cas" /\ op[c].cur = Len(mlog) /\ Become(c, p)
    BY OpFacts DEF CASManifest
  <1>2. op'[c] = p /\ OnlyOp(c)
    BY <1>1, BecomeStep
  <1>3. /\ SameRun(op[c], op'[c])
        /\ op'[c].pc = IF op[c].kind = "rekey" THEN "keyfile" ELSE "save"
        /\ op'[c].cur = op[c].cur /\ op'[c].packs = op[c].packs
        /\ op'[c].imp = op[c].imp /\ op'[c].wrote = op[c].cur + 1
        /\ op'[c].tries = op[c].tries
    BY <1>1, <1>2 DEF Op, SameRun
  <1>4. mlog' = Append(mlog, Published(c)) /\ mlog \in Seq(Manifest)
    BY DEF CASManifest, TypeInv, TypeOK
  <1>5. /\ Len(mlog') = Len(mlog) + 1
        /\ \A i \in 1 .. Len(mlog) : mlog'[i] = mlog[i]
        /\ mlog'[Len(mlog) + 1] = Published(c)
    BY <1>4, PublishedType, AppendProperties
  <1>6. QED
    BY <1>1, <1>2, <1>3, <1>5

LEMMA ConflictFields ==
  ASSUME TypeInv, NEW c \in Clients, ManifestConflict(c)
  PROVE  /\ OnlyOp(c) /\ op[c].pc = "cas" /\ op[c].cur # Len(mlog)
         /\ \/ op'[c] = Idle
            \/ /\ op[c].kind = "push" /\ SameRun(op[c], op'[c])
               /\ op'[c].pc = "read" /\ op'[c].packs = {} /\ op'[c].cur = 0
               /\ op'[c].imp = op[c].imp /\ op'[c].wrote = op[c].wrote
               /\ op'[c].tries = op[c].tries + 1
  <1> DEFINE p == [op[c] EXCEPT !.pc = "read", !.tries = @ + 1,
                                !.packs = {}, !.cur = 0]
  <1>1. op[c] \in Op /\ op[c].pc = "cas" /\ op[c].cur # Len(mlog)
    BY OpFacts DEF ManifestConflict
  <1>2. Finish(c) \/ (op[c].kind = "push" /\ Become(c, p))
    BY DEF ManifestConflict, Become, Finish
  <1>3. CASE Finish(c)
    BY <1>1, <1>3, FinishStep
  <1>4. CASE op[c].kind = "push" /\ Become(c, p)
    <2>1. op'[c] = p /\ OnlyOp(c)
      BY <1>4, BecomeStep
    <2>2. QED
      BY <1>1, <1>4, <2>1 DEF Op, SameRun
  <1>5. QED
    BY <1>2, <1>3, <1>4

LEMMA PutKeyfileFields ==
  ASSUME TypeInv, NEW c \in Clients, PutKeyfile(c)
  PROVE  /\ OnlyOp(c) /\ op[c].pc = "keyfile" /\ SameRun(op[c], op'[c])
         /\ op'[c].pc = IF op[c].kind = "rekey" THEN "casRoster" ELSE "read"
         /\ op'[c].cur = op[c].cur /\ op'[c].packs = op[c].packs
         /\ op'[c].imp = op[c].imp /\ op'[c].wrote = op[c].wrote
         /\ op'[c].tries = op[c].tries
  <1> DEFINE p == [op[c] EXCEPT
                     !.pc = IF op[c].kind = "rekey" THEN "casRoster" ELSE "read"]
  <1>1. op[c] \in Op /\ op[c].pc = "keyfile" /\ Become(c, p)
    BY OpFacts DEF PutKeyfile
  <1>2. op'[c] = p /\ OnlyOp(c)
    BY <1>1, BecomeStep
  <1>3. QED
    BY <1>1, <1>2 DEF Op, SameRun

LEMMA CASRosterFields ==
  ASSUME TypeInv, NEW c \in Clients, CASRoster(c)
  PROVE  /\ OnlyOp(c) /\ op[c].pc = "casRoster" /\ SameRun(op[c], op'[c])
         /\ op'[c].pc = IF op[c].kind # "rekey" THEN "keyfile"
                        ELSE IF PacksAt(op[c].cur) = {} THEN "save"
                        ELSE "delete"
         /\ op'[c].cur = op[c].cur /\ op'[c].packs = op[c].packs
         /\ op'[c].imp = op[c].imp /\ op'[c].wrote = op[c].wrote
         /\ op'[c].tries = op[c].tries
         /\ Len(rlog') = Len(rlog) + 1
         /\ \A i \in 1 .. Len(rlog) : rlog'[i] = rlog[i]
         /\ rlog'[Len(rlog) + 1] = op[c].next
  <1> DEFINE p == [op[c] EXCEPT
                     !.pc = IF op[c].kind # "rekey" THEN "keyfile"
                            ELSE IF PacksAt(op[c].cur) = {} THEN "save"
                            ELSE "delete"]
  <1>1. /\ op[c] \in Op /\ op[c].next \in Roster
        /\ op[c].pc = "casRoster" /\ Become(c, p)
    BY OpFacts DEF CASRoster
  <1>2. op'[c] = p /\ OnlyOp(c)
    BY <1>1, BecomeStep
  <1>3. rlog' = Append(rlog, op[c].next) /\ rlog \in Seq(Roster)
    BY DEF CASRoster, TypeInv, TypeOK
  <1>4. /\ Len(rlog') = Len(rlog) + 1
        /\ \A i \in 1 .. Len(rlog) : rlog'[i] = rlog[i]
        /\ rlog'[Len(rlog) + 1] = op[c].next
    BY <1>1, <1>3, AppendProperties
  <1>5. /\ SameRun(op[c], op'[c])
        /\ op'[c].pc = IF op[c].kind # "rekey" THEN "keyfile"
                       ELSE IF PacksAt(op[c].cur) = {} THEN "save"
                       ELSE "delete"
        /\ op'[c].cur = op[c].cur /\ op'[c].packs = op[c].packs
        /\ op'[c].imp = op[c].imp /\ op'[c].wrote = op[c].wrote
        /\ op'[c].tries = op[c].tries
    BY <1>1, <1>2 DEF Op, SameRun
  <1>6. QED
    BY <1>1, <1>2, <1>4, <1>5

LEMMA OldPacksDeletedFields ==
  ASSUME TypeInv, NEW c \in Clients, OldPacksDeleted(c)
  PROVE  /\ OnlyOp(c) /\ op[c].pc = "delete" /\ SameRun(op[c], op'[c])
         /\ op'[c].pc = "save"
         /\ op'[c].cur = op[c].cur /\ op'[c].packs = op[c].packs
         /\ op'[c].imp = op[c].imp /\ op'[c].wrote = op[c].wrote
         /\ op'[c].tries = op[c].tries
  <1> DEFINE p == [op[c] EXCEPT !.pc = "save"]
  <1>1. op[c] \in Op /\ op[c].pc = "delete" /\ Become(c, p)
    BY OpFacts DEF OldPacksDeleted
  <1>2. op'[c] = p /\ OnlyOp(c)
    BY <1>1, BecomeStep
  <1>3. QED
    BY <1>1, <1>2 DEF Op, SameRun

LEMMA FetchFields ==
  ASSUME TypeInv, NEW c \in Clients, FetchManifest(c)
  PROVE  /\ OnlyOp(c) /\ op[c].pc = "read" /\ op[c].kind = "fetch"
         /\ \/ op'[c] = Idle
            \/ /\ SameRun(op[c], op'[c])
               /\ Len(mlog) # 0 /\ Accepts(c, Len(mlog)) /\ Fresh(c, Len(mlog))
               /\ op'[c].pc = "import" /\ op'[c].cur = Len(mlog)
               /\ op'[c].packs = PacksAt(Len(mlog))
               /\ op'[c].imp = op[c].imp /\ op'[c].wrote = op[c].wrote
               /\ op'[c].tries = op[c].tries
  <1> DEFINE n == Len(mlog)
             p == [op[c] EXCEPT !.cur = n, !.packs = PacksAt(n), !.pc = "import"]
             Good == n # 0 /\ Accepts(c, n) /\ Fresh(c, n)
  <1>1. op[c] \in Op /\ op[c].pc = "read" /\ op[c].kind = "fetch"
    BY OpFacts DEF FetchManifest
  <1>2. CASE Good
    <2>1. Become(c, p)
      BY <1>2 DEF FetchManifest
    <2>2. op'[c] = p /\ OnlyOp(c)
      BY <2>1, BecomeStep
    <2> HIDE DEF n
    <2>3. /\ SameRun(op[c], op'[c])
          /\ op'[c].pc = "import" /\ op'[c].cur = n
          /\ op'[c].packs = PacksAt(n)
          /\ op'[c].imp = op[c].imp /\ op'[c].wrote = op[c].wrote
          /\ op'[c].tries = op[c].tries
      BY <1>1, <2>2 DEF Op, SameRun
    <2>4. QED
      BY <1>1, <1>2, <2>2, <2>3 DEF n
  <1>3. CASE ~Good
    <2>1. Finish(c)
      BY <1>3 DEF FetchManifest, Become, Finish
    <2>2. QED
      BY <1>1, <2>1, FinishStep
  <1>4. QED
    BY <1>2, <1>3

LEMMA ImportFields ==
  ASSUME TypeInv, NEW c \in Clients, ImportAndUpdateRefs(c)
  PROVE  /\ OnlyOp(c) /\ op[c].pc = "import"
         /\ local' = [local EXCEPT ![c] = @ \cup DataOf(Missing(c, op[c].packs))]
         /\ \/ op'[c] = Idle
            \/ /\ SameRun(op[c], op'[c]) /\ op'[c].pc = "save"
               /\ op'[c].cur = op[c].cur /\ op'[c].packs = op[c].packs
               /\ op'[c].imp = op[c].imp \cup op[c].packs
               /\ op'[c].wrote = op[c].cur
               /\ op'[c].tries = op[c].tries
  <1> DEFINE p == [op[c] EXCEPT !.imp = @ \cup op[c].packs,
                                !.wrote = op[c].cur, !.pc = "save"]
  <1>1. op[c] \in Op /\ op[c].pc = "import"
    BY OpFacts DEF ImportAndUpdateRefs
  <1>2. local' = [local EXCEPT ![c] = @ \cup DataOf(Missing(c, op[c].packs))]
    BY DEF ImportAndUpdateRefs
  <1>3. Finish(c) \/ Become(c, p)
    BY DEF ImportAndUpdateRefs
  <1>4. CASE Finish(c)
    BY <1>1, <1>2, <1>4, FinishStep
  <1>5. CASE Become(c, p)
    <2>1. op'[c] = p /\ OnlyOp(c)
      BY <1>5, BecomeStep
    <2>2. QED
      BY <1>1, <1>2, <2>1 DEF Op, SameRun
  <1>6. QED
    BY <1>3, <1>4, <1>5

\* Published manifests stay what they are.
LEMMA LogGrows ==
  ASSUME TypeInv, [Next]_vars
  PROVE  \A n \in 1 .. Len(mlog) : n \in 1 .. Len(mlog') /\ mlog'[n] = mlog[n]
  <1>1. CASE mlog' = mlog
    BY <1>1
  <1>2. ASSUME NEW c \in Clients, CASManifest(c)
        PROVE  \A n \in 1 .. Len(mlog) : n \in 1 .. Len(mlog') /\ mlog'[n] = mlog[n]
    <2>1. Len(mlog) \in Nat
      BY OpFacts, <1>2
    <2>2. QED
      BY <1>2, <2>1, CASManifestFields
  <1>3. QED
    BY <1>1, <1>2, ManifestsStep

\* The operation has loaded a roster and been admitted.
Past(o) == o.pc \notin {"idle", "roster"}

\* A step of one client ends or begins its operation, admits it, or goes on
\* with the same arguments, keys and rosters.
LEMMA RunSteps ==
  ASSUME TypeInv, NEW c \in Clients, Begin(c) \/ Step(c) \/ Crash(c)
  PROVE  /\ OnlyOp(c)
         /\ \/ ~Past(op'[c])
            \/ Past(op[c]) /\ SameRun(op[c], op'[c])
            \/ LoadTrustedRoster(c)
  <1>1. CASE Begin(c)
    <2>1. PICK k, who, want : RefreshPackKeys(c, k, who, want)
      BY <1>1 DEF Begin, BeginPush, BeginOther
    <2>2. QED
      BY <2>1, RefreshFields DEF Past
  <1>2. ASSUME Finish(c) PROVE OnlyOp(c) /\ ~Past(op'[c])
    BY <1>2, FinishStep DEF Past, Idle
  <1>3. CASE \/ Crash(c) \/ RefuseRoster(c) \/ RosterConflict(c)
             \/ PreparePackFails(c) \/ ImportFailsInFetch(c) \/ Save(c)
    BY <1>2, <1>3 DEF Crash, RefuseRoster, RosterConflict, PreparePackFails,
       ImportFailsInFetch, ImportFails, Save
  <1>4. CASE DeleteOldPack(c)
    BY <1>4 DEF DeleteOldPack, OnlyOp, SameRun, Past
  <1>5. CASE LoadTrustedRoster(c)
    BY <1>5, LoadFields
  <1>6. CASE LoadCurrent(c) \/ FetchManifest(c)
    BY <1>6, LoadCurrentFields, FetchFields DEF Past, Idle
  <1>7. CASE PreparePack(c) \/ Repack(c) \/ ImportAndUpdateRefs(c)
    BY <1>7, PreparePackFields, RepackFields, ImportFields DEF Past, Idle
  <1>8. CASE CASManifest(c) \/ ManifestConflict(c)
    BY <1>8, CASManifestFields, ConflictFields DEF Past, Idle
  <1>9. CASE PutKeyfile(c) \/ CASRoster(c) \/ OldPacksDeleted(c)
    BY <1>9, PutKeyfileFields, CASRosterFields, OldPacksDeletedFields DEF Past
  <1>10. QED
    BY <1>1, <1>3, <1>4, <1>5, <1>6, <1>7, <1>8, <1>9 DEF Step

\* Once begun, an operation that is not admitted is over.
LEMMA EndsIdle ==
  ASSUME TypeInv, NEW c \in Clients, Step(c) \/ Crash(c), ~Past(op'[c])
  PROVE  op'[c] = Idle
  <1>1. CASE Finish(c)
    BY <1>1, FinishStep
  <1>2. CASE LoadTrustedRoster(c)
    BY <1>2, LoadFields DEF Past
  <1>3. CASE LoadCurrent(c) \/ PreparePack(c) \/ Repack(c) \/ CASManifest(c)
    BY <1>3, LoadCurrentFields, PreparePackFields, RepackFields,
       CASManifestFields DEF AfterRead, Past
  <1>4. CASE \/ ManifestConflict(c) \/ PutKeyfile(c) \/ CASRoster(c)
             \/ OldPacksDeleted(c) \/ FetchManifest(c) \/ ImportAndUpdateRefs(c)
    BY <1>4, ConflictFields, PutKeyfileFields, CASRosterFields,
       OldPacksDeletedFields, FetchFields, ImportFields DEF Past
  <1>5. CASE DeleteOldPack(c)
    BY <1>5 DEF DeleteOldPack, Past
  <1>6. QED
    BY <1>1, <1>2, <1>3, <1>4, <1>5 DEF Step, Crash, RefuseRoster,
       RosterConflict, PreparePackFails, ImportFailsInFetch, ImportFails, Save

\* Which actions write which variable.
LEMMA Writers ==
  ASSUME [Next]_vars
  PROVE  /\ rlog' = rlog \/ \E c \in Clients : CASRoster(c)
         /\ keyfile' = keyfile \/ \E c \in Clients : PutKeyfile(c)
         /\ \/ blobs' = blobs
            \/ \E c \in Clients : PreparePack(c) \/ Repack(c) \/ DeleteOldPack(c)
         /\ pinM' = pinM \/ \E c \in Clients : Save(c)
         /\ keys' = keys \/ \E c \in Clients : Save(c) \/ Begin(c)
         /\ got' = got \/ \E c \in Clients : Save(c) \/ ManifestConflict(c)
         /\ lastId' = lastId \/ \E c \in Clients : LoadTrustedRoster(c)
         /\ \/ refs' = refs
            \/ \E c \in Clients :
                 ImportAndUpdateRefs(c) \/ \E r \in Refs : Commit(c, r)
         /\ \/ local' = local
            \/ \E c \in Clients :
                 \/ PreparePack(c) \/ ImportAndUpdateRefs(c)
                 \/ ImportFails(c, op[c].packs) \/ \E r \in Refs : Commit(c, r)
  <1>1. CASE UNCHANGED vars
    BY <1>1 DEF vars, storeVars, stateFile, gitVars
  <1>2. CASE Next
    <2>1. PICK c \in Clients : \/ \E r \in Refs : Commit(c, r)
                               \/ Begin(c) \/ Step(c) \/ Crash(c)
      BY <1>2 DEF Next
    <2>2. CASE \/ \E r \in Refs : Commit(c, r)
               \/ Begin(c) \/ Crash(c)
      BY <2>2 DEF Commit, Begin, BeginPush, BeginOther, RefreshPackKeys, Crash,
                  storeVars, stateFile, gitVars
    <2>3. CASE \/ LoadTrustedRoster(c) \/ RefuseRoster(c)
               \/ LoadCurrent(c) \/ PreparePack(c) \/ PreparePackFails(c) \/ Repack(c)
      BY <2>3 DEF LoadTrustedRoster, RefuseRoster, LoadCurrent, PreparePack,
         PreparePackFails, Repack, ImportFails, storeVars, stateFile, gitVars
    <2>4. CASE \/ CASManifest(c) \/ ManifestConflict(c)
               \/ PutKeyfile(c)
               \/ CASRoster(c) \/ RosterConflict(c)
      BY <2>4 DEF CASManifest, ManifestConflict, PutKeyfile, CASRoster,
         RosterConflict, storeVars, stateFile, gitVars
    <2>5. CASE \/ DeleteOldPack(c) \/ OldPacksDeleted(c)
               \/ FetchManifest(c) \/ ImportAndUpdateRefs(c) \/ ImportFailsInFetch(c)
               \/ Save(c)
      BY <2>5 DEF DeleteOldPack, OldPacksDeleted, FetchManifest,
         ImportAndUpdateRefs, ImportFailsInFetch, ImportFails, Save, storeVars,
         stateFile, gitVars
    <2>6. QED
      BY <2>1, <2>2, <2>3, <2>4, <2>5 DEF Step
  <1>3. QED
    BY <1>1, <1>2

-----------------------------------------------------------------------------
(* Conflicts.  An attempt starts from the newest manifest, so one that finds *)
(* the pointer moved has seen another manifest committed meanwhile.          *)

Attempting == {"objects", "repack", "cas"}

ProgressInv ==
    \A c \in Clients :
        /\ pinM[c] + op[c].tries <= Len(mlog)
        /\ op[c].pc \in Attempting => pinM[c] + op[c].tries <= op[c].cur

\* A step counts a conflict only when the pointer has moved since the read, and
\* an attempt always comes from a read of the newest manifest.
LEMMA TriesStep ==
  ASSUME TypeInv, NEW c \in Clients, Begin(c) \/ Step(c) \/ Crash(c)
  PROVE  /\ OnlyOp(c)
         /\ \/ op'[c].tries = 0 /\ op'[c].pc \notin Attempting
            \/ /\ op'[c].tries = op[c].tries
               /\ op'[c].pc \in Attempting =>
                    \/ op'[c].cur = Len(mlog)
                    \/ op[c].pc \in Attempting /\ op'[c].cur = op[c].cur
            \/ /\ op'[c].tries = op[c].tries + 1 /\ op'[c].pc = "read"
               /\ op[c].pc = "cas" /\ op[c].cur # Len(mlog)
  <1>1. CASE Begin(c)
    <2>1. PICK k, who, want : RefreshPackKeys(c, k, who, want)
      BY <1>1 DEF Begin, BeginPush, BeginOther
    <2>2. QED
      BY <2>1, RefreshFields DEF Attempting
  <1>2. CASE Finish(c)
    BY <1>2, FinishStep DEF Idle, Attempting
  <1>3. CASE LoadTrustedRoster(c)
    BY <1>3, LoadFields DEF Idle, Attempting
  <1>4. CASE LoadCurrent(c) \/ PreparePack(c) \/ Repack(c) \/ CASManifest(c)
    BY <1>4, LoadCurrentFields, PreparePackFields, RepackFields,
       CASManifestFields DEF Idle, Attempting
  <1>5. CASE ManifestConflict(c)
    BY <1>5, ConflictFields DEF Idle, Attempting
  <1>6. CASE \/ PutKeyfile(c) \/ CASRoster(c) \/ OldPacksDeleted(c)
             \/ FetchManifest(c) \/ ImportAndUpdateRefs(c)
    BY <1>6, PutKeyfileFields, CASRosterFields, OldPacksDeletedFields,
       FetchFields, ImportFields DEF Idle, Attempting
  <1>7. CASE DeleteOldPack(c)
    BY <1>7 DEF DeleteOldPack, OnlyOp
  <1>8. QED
    BY <1>1, <1>2, <1>3, <1>4, <1>5, <1>6, <1>7 DEF Step, Crash, RefuseRoster,
       RosterConflict, PreparePackFails, ImportFailsInFetch, ImportFails, Save

LEMMA ProgressInductive == TypeInv /\ ProgressInv /\ [Next]_vars => ProgressInv'
  <1> SUFFICES ASSUME TypeInv, ProgressInv, [Next]_vars PROVE ProgressInv'
    OBVIOUS
  <1>1. TypeInv'
    BY TypeInductive
  <1>2. /\ Len(mlog) \in Nat /\ Len(mlog') \in Nat
        /\ \A d \in Clients : /\ pinM[d] \in Nat /\ pinM'[d] \in Nat
                             /\ op[d].tries \in Nat /\ op[d].cur \in Nat
                             /\ op[d].cur <= Len(mlog) /\ pinM'[d] <= Len(mlog')
    <2>1. Len(mlog) \in Nat /\ Len(mlog') \in Nat
      BY <1>1 DEF TypeInv, TypeOK
    <2>2. \A d \in Clients : pinM[d] \in Nat /\ pinM'[d] \in Nat
      BY <1>1 DEF TypeInv, TypeOK
    <2>3. \A d \in Clients : op[d].tries \in Nat /\ op[d].cur \in Nat
      BY OpFacts DEF Op
    <2>4. \A d \in Clients : op[d].cur <= Len(mlog) /\ pinM'[d] <= Len(mlog')
      BY <1>1 DEF TypeInv, HashesCommitted
    <2>5. QED
      BY <2>1, <2>2, <2>3, <2>4
  <1>3. Len(mlog) <= Len(mlog')
    BY <1>2, CASManifestFields, ManifestsStep
  <1>4. CASE UNCHANGED <<op, pinM>>
    BY <1>2, <1>3, <1>4 DEF ProgressInv
  <1>5. ASSUME NEW c \in Clients, Save(c) PROVE ProgressInv'
    <2>1. op'[c] = Idle /\ OnlyOp(c)
      BY <1>5, FinishStep DEF Save
    <2>2. \A d \in Clients : d # c => pinM'[d] = pinM[d]
      BY <1>5 DEF Save, TypeInv, TypeOK
    <2>3. Idle.tries = 0 /\ Idle.pc \notin Attempting
      BY DEF Idle, Attempting
    <2>4. QED
      BY <1>2, <1>3, <2>1, <2>2, <2>3 DEF ProgressInv, OnlyOp
  <1>6. ASSUME NEW c \in Clients, Begin(c) \/ Step(c) \/ Crash(c), pinM' = pinM
        PROVE  ProgressInv'
    <2>1. /\ pinM[c] + op'[c].tries <= Len(mlog')
          /\ op'[c].pc \in Attempting => pinM[c] + op'[c].tries <= op'[c].cur
      <3>1. CASE op'[c].tries = 0 /\ op'[c].pc \notin Attempting
        BY <1>2, <1>6, <3>1
      <3>2. CASE /\ op'[c].tries = op[c].tries
                 /\ op'[c].pc \in Attempting =>
                      \/ op'[c].cur = Len(mlog)
                      \/ op[c].pc \in Attempting /\ op'[c].cur = op[c].cur
        BY <1>2, <1>3, <3>2 DEF ProgressInv
      <3>3. CASE /\ op'[c].tries = op[c].tries + 1 /\ op'[c].pc = "read"
                 /\ op[c].pc = "cas" /\ op[c].cur # Len(mlog)
        BY <1>2, <1>3, <3>3 DEF ProgressInv, Attempting
      <3>4. QED
        BY <1>6, <3>1, <3>2, <3>3, TriesStep
    <2>2. OnlyOp(c)
      BY <1>6, TriesStep
    <2>3. QED
      BY <1>2, <1>3, <1>6, <2>1, <2>2 DEF ProgressInv, OnlyOp
  <1>7. QED
    <2>1. CASE UNCHANGED vars
      BY <1>4, <2>1 DEF vars, stateFile
    <2>2. ASSUME NEW c \in Clients, NEW r \in Refs, Commit(c, r) PROVE ProgressInv'
      BY <1>4, <2>2 DEF Commit, stateFile
    <2>3. ASSUME NEW c \in Clients, Begin(c) \/ Step(c) \/ Crash(c)
          PROVE  ProgressInv'
      <3>1. pinM' = pinM \/ \E d \in Clients : Save(d)
        BY Writers
      <3>2. QED
        BY <1>5, <1>6, <2>3, <3>1
    <2>4. QED
      BY <2>1, <2>2, <2>3 DEF Next

\* Every conflict a push has counted was caused by another manifest committed
\* since its pin: with any number of clients and any retry bound, a push uses up
\* its attempts only while other clients succeed.
THEOREM ConflictsMeanProgress == Spec => []ConflictsAreProgress
  <1>1. Init => ProgressInv
    BY DEF Init, ProgressInv, Idle, Attempting
  <1>2. TypeInv /\ ProgressInv /\ [Next]_vars => ProgressInv'
    BY ProgressInductive
  <1>3. ProgressInv => ConflictsAreProgress
    BY DEF ProgressInv, ConflictsAreProgress
  <1>4. QED
    BY <1>1, <1>2, <1>3, TypeInvCorrect, PTL DEF Spec

-----------------------------------------------------------------------------
\* Operations that may not begin are never in progress.
KindsAllowed == \A c \in Clients : op[c].kind \in Kinds => Budget[op[c].kind] > 0

LEMMA KindsInvariant == Spec => []KindsAllowed
  <1>1. Init => KindsAllowed
    BY DEF Init, KindsAllowed, Idle, Kinds
  <1>2. TypeInv /\ KindsAllowed /\ [Next]_vars => KindsAllowed'
    <2> SUFFICES ASSUME TypeInv, KindsAllowed, [Next]_vars PROVE KindsAllowed'
      OBVIOUS
    <2>1. CASE op' = op
      BY <2>1 DEF KindsAllowed
    <2>2. ASSUME NEW c \in Clients, Begin(c) PROVE KindsAllowed'
      <3>1. PICK k, who, want : k \in Kinds /\ RefreshPackKeys(c, k, who, want)
        <4>1. CASE BeginPush(c)
          BY <4>1 DEF BeginPush, Kinds
        <4>2. CASE BeginOther(c)
          BY <4>2 DEF BeginOther, Kinds
        <4>3. QED
          BY <2>2, <4>1, <4>2 DEF Begin
      <3>2. budget[k] \in Nat /\ budget[k] <= Budget[k] /\ Budget[k] \in Nat
        BY <3>1, EngineAssumption DEF TypeInv, TypeOK
      <3>3. Budget[k] > 0
        BY <3>1, <3>2 DEF RefreshPackKeys
      <3>4. OnlyOp(c) /\ op'[c].kind = k
        BY <3>1, RefreshFields
      <3>5. QED
        BY <3>3, <3>4 DEF KindsAllowed, OnlyOp
    <2>3. ASSUME NEW c \in Clients, Step(c) \/ Crash(c) PROVE KindsAllowed'
      <3>1. OnlyOp(c)
        BY <2>3, RunSteps
      <3>2. op'[c].kind = op[c].kind \/ op'[c] = Idle
        <4>1. CASE LoadTrustedRoster(c)
          BY <4>1, LoadFields
        <4>3. CASE Finish(c)
          BY <4>3, FinishStep
        <4>4. CASE LoadCurrent(c) \/ PreparePack(c) \/ Repack(c) \/ CASManifest(c)
          BY <4>4, LoadCurrentFields, PreparePackFields, RepackFields,
             CASManifestFields DEF SameRun
        <4>5. CASE \/ ManifestConflict(c) \/ PutKeyfile(c) \/ CASRoster(c)
                   \/ OldPacksDeleted(c) \/ FetchManifest(c) \/ ImportAndUpdateRefs(c)
          BY <4>5, ConflictFields, PutKeyfileFields, CASRosterFields,
             OldPacksDeletedFields, FetchFields, ImportFields DEF SameRun
        <4>6. CASE DeleteOldPack(c)
          BY <4>6 DEF DeleteOldPack
        <4>7. QED
          BY <2>3, <4>1, <4>3, <4>4, <4>5, <4>6 DEF Step, Crash, RefuseRoster,
             RosterConflict, PreparePackFails, ImportFailsInFetch, ImportFails, Save
      <3>3. op'[c].kind \in Kinds => Budget[op'[c].kind] > 0
        BY <3>2 DEF KindsAllowed, Idle, Kinds
      <3>4. QED
        BY <3>1, <3>3 DEF KindsAllowed, OnlyOp
    <2>4. QED
      BY <2>1, <2>2, <2>3 DEF Next, Commit, vars
  <1>3. QED
    BY <1>1, <1>2, TypeInvCorrect, PTL DEF Spec
=============================================================================
