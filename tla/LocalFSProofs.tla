---------------------------- MODULE LocalFSProofs ----------------------------
(***************************************************************************)
(* The directory store implements the pointers of store.Store, for any     *)
(* number of processes and writes, as long as nobody dies between the two  *)
(* writes of a swap.                                                       *)
(*                                                                         *)
(* A reader may hold a torn pair.  What saves the swap is that a reader    *)
(* expects no more than the version inside what it read (it reads the      *)
(* number first), that versions inside the blob only grow, and that blob   *)
(* and number agree while nobody swaps: a check that passes has then read  *)
(* the blob that is there.                                                 *)
(***************************************************************************)
EXTENDS LocalFS, TLAPS

Swapping(p) == proc[p].pc \in {"locked", "checked", "written"}
HasRead(p)  == proc[p].pc \in {"read", "locked", "checked"}

\* Blob and version agree unless a swap is between its two writes.
FilesAgree ==
    \A k \in Pointers :
        (\A p \in Procs : ~(At(p, "written") /\ proc[p].pointer = k))
            => version[k] = blob[k].version

\* Between the two writes, the blob is the successor of the base.
HalfWritten ==
    \A p \in Procs : At(p, "written") =>
        /\ proc[p].base.version = proc[p].expect
        /\ version[proc[p].pointer] = proc[p].expect
        /\ blob[proc[p].pointer].version = proc[p].expect + 1
        /\ blob[proc[p].pointer].prev = proc[p].base.id

\* The first manifest has version 1.
NoManifestAtZero ==
    blob["manifest"].version = 0 => blob["manifest"] = NoContent

\* What a process read is the blob, or older than the blob, and its swap
\* expects no more than the version it read.
ReadsAreOld ==
    \A p \in Procs : LET q == proc[p] IN
        /\ At(p, "reading") => /\ q.pointer = "manifest"
                               /\ q.expect <= blob["manifest"].version
        /\ HasRead(p) => /\ q.expect <= q.base.version
                         /\ q.base.version <= blob[q.pointer].version
                         /\ q.base.version = blob[q.pointer].version
                              => q.base = blob[q.pointer]

\* A version check that passed was passed on the blob that is there.
CheckedIsCurrent ==
    \A p \in Procs : At(p, "checked") =>
        /\ proc[p].base = blob[proc[p].pointer]
        /\ proc[p].base.version = proc[p].expect

IInv == /\ TypeOK /\ FilesAgree /\ HalfWritten /\ NoManifestAtZero
        /\ ReadsAreOld /\ CheckedIsCurrent

-----------------------------------------------------------------------------
(* Types *)

LEMMA ContentTypes ==
  /\ NoContent \in Content /\ Genesis \in Content
  /\ First \in [Pointers -> Content] /\ Idle \in Proc
  BY DEF NoContent, Genesis, Content, First, Pointers, Idle, Proc, PCs

LEMMA MadeType ==
  ASSUME TypeOK, NEW p \in Procs
  PROVE  /\ Made(p) \in Content
         /\ Made(p).version = proc[p].expect + 1
         /\ Made(p).prev = proc[p].base.id
  BY DEF TypeOK, Made, Content, Proc

\* What a process record becomes when its pc is replaced.
LEMMA Replaced ==
  ASSUME NEW q \in Proc, NEW s \in PCs
  PROVE  /\ [q EXCEPT !.pc = s] \in Proc
         /\ [q EXCEPT !.pc = s].pc = s
         /\ [q EXCEPT !.pc = s].pointer = q.pointer
         /\ [q EXCEPT !.pc = s].base = q.base
         /\ [q EXCEPT !.pc = s].expect = q.expect
  BY DEF Proc

LEMMA IdleReplaced ==
  ASSUME NEW s \in PCs, NEW n \in Nat
  PROVE  LET q == [Idle EXCEPT !.pc = s, !.expect = n]
         IN  /\ q \in Proc /\ q.pc = s /\ q.pointer = "manifest"
             /\ q.base = NoContent /\ q.expect = n
  <1>1. Idle \in Proc /\ Idle.pointer = "manifest" /\ Idle.base = NoContent
    BY ContentTypes DEF Idle
  <1>2. QED
    BY <1>1 DEF Proc

LEMMA InitIInv == Init => IInv
  <1> SUFFICES ASSUME Init PROVE IInv
    OBVIOUS
  <1>1. TypeOK
    BY ContentTypes, LocalFSAssumption
    DEF Init, TypeOK, Idle, Pointers
  <1>2. FilesAgree /\ NoManifestAtZero
    BY DEF Init, FilesAgree, NoManifestAtZero, First, NoContent, Genesis,
           Pointers
  <1>3. HalfWritten /\ ReadsAreOld /\ CheckedIsCurrent
    BY DEF Init, HalfWritten, ReadsAreOld, CheckedIsCurrent, At, HasRead, Idle
  <1>4. QED
    BY <1>1, <1>2, <1>3 DEF IInv

\* The steps that leave the files and the locks alone.
Reads(p) == GetManifest(p) \/ ReadManifestBlob(p) \/ GetRoster(p) \/ Leave(p)

LEMMA BecomeStep ==
  ASSUME TypeOK, NEW p \in Procs, NEW q \in Proc, Become(p, q)
  PROVE  /\ proc' \in [Procs -> Proc]
         /\ proc'[p] = q
         /\ \A r \in Procs : r # p => proc'[r] = proc[r]
  BY DEF TypeOK, Become

\* What a read leaves in the process that makes it.
LEMMA ReadsStep ==
  ASSUME IInv, NEW p \in Procs, Reads(p)
  PROVE  /\ proc' \in [Procs -> Proc]
         /\ proc[p].pc \in {"idle", "reading", "read"}
         /\ \A r \in Procs : r # p => proc'[r] = proc[r]
         /\ UNCHANGED <<blob, version, lock, lastId>>
         /\ \/ proc'[p].pc = "idle"
            \/ /\ proc'[p].pc = "reading"
               /\ proc'[p].pointer = "manifest"
               /\ proc'[p].expect = version["manifest"]
            \/ /\ proc'[p].pc = "read"
               /\ proc'[p].base \in {NoContent, blob[proc'[p].pointer]}
               /\ proc'[p].base = NoContent =>
                    proc'[p].pointer = "manifest" \/ blob["roster"] = NoContent
               /\ \/ proc'[p].expect = 0
                  \/ proc'[p].expect = proc'[p].base.version
                  \/ /\ proc'[p].base = blob["manifest"]
                     /\ proc'[p].pointer = "manifest"
                     /\ proc'[p].expect <= blob["manifest"].version
  <1> TypeOK
    BY DEF IInv
  <1>1. CASE GetManifest(p)
    <2> DEFINE s == IF version["manifest"] = 0 THEN "read" ELSE "reading"
               n == version["manifest"]
               q == [Idle EXCEPT !.pc = s, !.expect = n]
    <2>1. s \in PCs /\ n \in Nat
      BY DEF TypeOK, PCs, Pointers
    <2>2. Become(p, q) /\ At(p, "idle")
          /\ UNCHANGED <<blob, version, lock, lastId>>
      BY <1>1 DEF GetManifest, files
    <2>3. q \in Proc /\ q.pc = s /\ q.pointer = "manifest"
          /\ q.base = NoContent /\ q.expect = n
      <3> HIDE DEF s, n
      <3>1. QED
        BY <2>1, IdleReplaced
    <2>4. (s = "read" /\ n = 0) \/ s = "reading"
      OBVIOUS
    <2> HIDE DEF q, s
    <2>5. proc'[p] = q
      BY <2>2, <2>3, BecomeStep
    <2>6. QED
      BY <2>2, <2>3, <2>4, <2>5, BecomeStep DEF At
  <1>2. CASE ReadManifestBlob(p)
    <2> DEFINE a == proc[p]
               b == blob["manifest"]
               s == "read"
               q == [a EXCEPT !.pc = s, !.base = b]
    <2>1. q \in Proc /\ q.pc = "read" /\ q.base = blob["manifest"]
          /\ q.pointer = proc[p].pointer /\ q.expect = proc[p].expect
      <3>1. a \in Proc /\ s \in PCs /\ b \in Content
        BY DEF TypeOK, PCs, Pointers
      <3> HIDE DEF a, b, s
      <3>2. q \in Proc /\ q.pc = s /\ q.base = b
            /\ q.pointer = a.pointer /\ q.expect = a.expect
        BY <3>1 DEF Proc
      <3>3. QED
        BY <3>2 DEF a, b, s
    <2>2. Become(p, q) /\ At(p, "reading")
      BY <1>2 DEF ReadManifestBlob
    <2>3. proc'[p] = q
      BY <2>1, <2>2, BecomeStep
    <2>4. proc[p].pointer = "manifest"
          /\ proc[p].expect <= blob["manifest"].version
      BY <2>2 DEF IInv, ReadsAreOld
    <2>5. UNCHANGED <<blob, version, lock, lastId>>
      BY <1>2 DEF ReadManifestBlob, files
    <2> HIDE DEF q
    <2>6. QED
      BY <2>1, <2>2, <2>3, <2>4, <2>5, BecomeStep DEF At
  <1>3. CASE GetRoster(p)
    <2> DEFINE q == [pc |-> "read", pointer |-> "roster",
                     base |-> blob["roster"], expect |-> blob["roster"].version]
    <2>1. q \in Proc
      BY DEF TypeOK, Proc, PCs, Pointers, Content
    <2>2. Become(p, q)
      BY <1>3 DEF GetRoster
    <2>3. proc'[p] = q
      BY <2>1, <2>2, BecomeStep
    <2>4. QED
      BY <1>3, <2>1, <2>2, <2>3, BecomeStep DEF GetRoster, files, At
  <1>4. CASE Leave(p)
    <2>1. Become(p, Idle) /\ proc[p].pc \in {"reading", "read"}
      BY <1>4 DEF Leave
    <2>2. UNCHANGED <<blob, version, lock, lastId>>
      BY <1>4 DEF Leave, files
    <2>3. proc'[p].pc = "idle"
      BY <2>1, ContentTypes, BecomeStep DEF Idle
    <2>4. QED
      BY <2>1, <2>2, <2>3, ContentTypes, BecomeStep
  <1>5. QED
    BY <1>1, <1>2, <1>3, <1>4 DEF Reads

\* The blob is never older than the version file.
LEMMA VersionBound ==
  ASSUME IInv, NEW k \in Pointers
  PROVE  /\ version[k] \in Nat /\ blob[k] \in Content
         /\ blob[k].version \in Nat
         /\ FilesAgree /\ HalfWritten
  BY DEF IInv, TypeOK, Content

LEMMA NumberIsOld ==
  ASSUME IInv, NEW k \in Pointers PROVE version[k] <= blob[k].version
  <1>1. CASE \E p \in Procs : At(p, "written") /\ proc[p].pointer = k
    <2>1. PICK p \in Procs : At(p, "written") /\ proc[p].pointer = k
      BY <1>1
    <2>2. proc[p].expect \in Nat
      BY DEF IInv, TypeOK, Proc
    <2>3. QED
      BY <2>1, <2>2, VersionBound DEF HalfWritten
  <1>2. CASE \A p \in Procs : ~(At(p, "written") /\ proc[p].pointer = k)
    BY <1>2, VersionBound DEF FilesAgree
  <1>3. QED
    BY <1>1, <1>2

LEMMA ReadsInv ==
  ASSUME IInv, NEW p \in Procs, Reads(p) PROVE IInv'
  <1>1. TypeOK'
    BY ReadsStep DEF IInv, TypeOK
  <1>2. FilesAgree' /\ HalfWritten' /\ NoManifestAtZero' /\ CheckedIsCurrent'
    BY ReadsStep DEF IInv, FilesAgree, HalfWritten, NoManifestAtZero,
                     CheckedIsCurrent, At
  <1>3. ReadsAreOld'
    <2> SUFFICES ASSUME NEW r \in Procs
                 PROVE  LET q == proc'[r] IN
                   /\ At(r, "reading")' =>
                        /\ q.pointer = "manifest"
                        /\ q.expect <= blob["manifest"].version
                   /\ HasRead(r)' =>
                        /\ q.expect <= q.base.version
                        /\ q.base.version <= blob[q.pointer].version
                        /\ q.base.version = blob[q.pointer].version
                             => q.base = blob[q.pointer]
      BY ReadsStep DEF ReadsAreOld
    <2>1. CASE r # p
      BY <2>1, ReadsStep DEF IInv, ReadsAreOld, At, HasRead
    <2>2. CASE r = p
      <3>1. version["manifest"] <= blob["manifest"].version
        BY NumberIsOld DEF Pointers
      <3>2. proc'[p].pointer \in Pointers
        BY ReadsStep, <1>1 DEF TypeOK, Proc
      <3>3. blob[proc'[p].pointer].version \in Nat
        BY <3>2, VersionBound
      <3>4. QED
        BY <2>2, <3>1, <3>2, <3>3, ReadsStep DEF At, HasRead, IInv,
           NoManifestAtZero, NoContent, Pointers
    <2>3. QED
      BY <2>1, <2>2
  <1>4. QED
    BY <1>1, <1>2, <1>3 DEF IInv

-----------------------------------------------------------------------------
(* The steps of a swap *)

LEMMA MovesStep ==
  ASSUME TypeOK, NEW p \in Procs, NEW s \in PCs, Moves(p, s)
  PROVE  /\ proc' \in [Procs -> Proc]
         /\ proc'[p].pc = s
         /\ proc'[p].pointer = proc[p].pointer
         /\ proc'[p].base = proc[p].base
         /\ proc'[p].expect = proc[p].expect
         /\ \A r \in Procs : r # p => proc'[r] = proc[r]
  <1> DEFINE q == [proc[p] EXCEPT !.pc = s]
  <1>1. proc[p] \in Proc
    BY DEF TypeOK
  <1>2. /\ q \in Proc /\ q.pc = s /\ q.pointer = proc[p].pointer
        /\ q.base = proc[p].base /\ q.expect = proc[p].expect
    BY <1>1, Replaced
  <1>3. Become(p, q)
    BY DEF Moves
  <1> HIDE DEF q
  <1>4. QED
    BY <1>2, <1>3, BecomeStep

\* The locks exclude: whoever is inside a swap of a pointer is alone there.
LEMMA SwapsAlone ==
  ASSUME TypeOK, NEW p \in Procs, NEW r \in Procs, Swapping(p), Swapping(r),
         proc[p].pointer = proc[r].pointer
  PROVE  p = r
  BY DEF TypeOK, Swapping, Proc

\* A process that is in a swap and not between its writes finds blob and
\* version file in agreement.
LEMMA AgreesUnderLock ==
  ASSUME IInv, NEW p \in Procs, proc[p].pc \in {"locked", "checked"}
  PROVE  LET k == proc[p].pointer
         IN  /\ k \in Pointers
             /\ version[k] = blob[k].version
             /\ Stored(k) = blob[k].version
  <1>1. proc[p].pointer \in Pointers
    BY DEF IInv, TypeOK, Proc
  <1>2. \A r \in Procs :
          ~(At(r, "written") /\ proc[r].pointer = proc[p].pointer)
    BY SwapsAlone DEF IInv, Swapping, At
  <1>3. version[proc[p].pointer] = blob[proc[p].pointer].version
    BY <1>1, <1>2 DEF IInv, FilesAgree
  <1>4. QED
    BY <1>1, <1>3 DEF Stored, NoContent

LEMMA FlockInv ==
  ASSUME IInv, NEW p \in Procs, Flock(p) PROVE IInv'
  <1>0. TypeOK /\ "locked" \in PCs /\ Moves(p, "locked") /\ At(p, "read")
    BY DEF IInv, Flock, PCs
  <1>1. /\ proc' \in [Procs -> Proc]
        /\ proc'[p].pc = "locked" /\ proc[p].pc = "read"
        /\ proc'[p].pointer = proc[p].pointer
        /\ proc'[p].base = proc[p].base
        /\ proc'[p].expect = proc[p].expect
        /\ \A r \in Procs : r # p => proc'[r] = proc[r]
    BY <1>0, MovesStep DEF At
  <1>2. UNCHANGED <<blob, version, lastId>>
    BY DEF Flock, files
  <1>3. TypeOK'
    <2>1. proc[p].pointer \in Pointers /\ lock[proc[p].pointer] = "none"
          /\ lock' = [lock EXCEPT ![proc[p].pointer] = p]
      BY DEF Flock, IInv, TypeOK, Proc
    <2>2. QED
      BY <2>1, <1>0, <1>1, <1>2, LocalFSAssumption DEF TypeOK
  <1>4. FilesAgree' /\ HalfWritten' /\ NoManifestAtZero' /\ CheckedIsCurrent'
    BY <1>1, <1>2 DEF IInv, FilesAgree, HalfWritten, NoManifestAtZero,
                      CheckedIsCurrent, At
  <1>5. ReadsAreOld'
    BY <1>1, <1>2 DEF IInv, ReadsAreOld, HasRead, At
  <1>6. QED
    BY <1>3, <1>4, <1>5 DEF IInv

\* A check that passes was passed on what the process read.
LEMMA VersionMatchesInv ==
  ASSUME IInv, NEW p \in Procs, VersionMatches(p) PROVE IInv'
  <1>0. TypeOK /\ "checked" \in PCs /\ Moves(p, "checked")
        /\ proc[p].pc = "locked"
    BY DEF IInv, VersionMatches, PCs, At
  <1>1. /\ proc' \in [Procs -> Proc]
        /\ proc'[p].pc = "checked"
        /\ proc'[p].pointer = proc[p].pointer
        /\ proc'[p].base = proc[p].base
        /\ proc'[p].expect = proc[p].expect
        /\ \A r \in Procs : r # p => proc'[r] = proc[r]
    BY <1>0, MovesStep
  <1>2. UNCHANGED <<blob, version, lock, lastId>>
    BY DEF VersionMatches, files
  <1>3. TypeOK'
    BY <1>0, <1>1, <1>2 DEF TypeOK
  <1>4. FilesAgree' /\ HalfWritten' /\ NoManifestAtZero'
    BY <1>0, <1>1, <1>2 DEF IInv, FilesAgree, HalfWritten, NoManifestAtZero, At
  <1>5. ReadsAreOld'
    BY <1>0, <1>1, <1>2 DEF IInv, ReadsAreOld, HasRead, At
  <1>6. CheckedIsCurrent'
    <2>1. proc[p].pointer \in Pointers
          /\ blob[proc[p].pointer].version = proc[p].expect
      BY <1>0, AgreesUnderLock DEF VersionMatches
    <2>2. proc[p].expect \in Nat /\ proc[p].base.version \in Nat
      BY DEF IInv, TypeOK, Proc, Content
    <2>3. proc[p].base = blob[proc[p].pointer]
      BY <1>0, <2>1, <2>2 DEF IInv, ReadsAreOld, HasRead
    <2>4. QED
      BY <1>1, <1>2, <2>1, <2>3 DEF IInv, CheckedIsCurrent, At
  <1>7. QED
    BY <1>3, <1>4, <1>5, <1>6 DEF IInv

\* The steps that end a swap without a write.
GivesUp(p) == VersionConflict(p) \/ AbandonBeforeWriting(p)

LEMMA GivesUpInv ==
  ASSUME IInv, NEW p \in Procs, GivesUp(p) PROVE IInv'
  <1>1. /\ Become(p, Idle) /\ Unlock(p)
        /\ proc[p].pc \in {"locked", "checked"}
        /\ UNCHANGED <<blob, version, lastId>>
    BY DEF GivesUp, VersionConflict, AbandonBeforeWriting, files, At
  <1>2. /\ proc' \in [Procs -> Proc]
        /\ proc'[p].pc = "idle"
        /\ \A r \in Procs : r # p => proc'[r] = proc[r]
    BY <1>1, ContentTypes, BecomeStep DEF IInv, Idle
  <1>3. TypeOK'
    BY <1>1, <1>2, LocalFSAssumption DEF IInv, TypeOK, Unlock, Proc
  <1>4. FilesAgree' /\ HalfWritten' /\ NoManifestAtZero' /\ CheckedIsCurrent'
    BY <1>1, <1>2 DEF IInv, FilesAgree, HalfWritten, NoManifestAtZero,
                      CheckedIsCurrent, At
  <1>5. ReadsAreOld'
    BY <1>1, <1>2 DEF IInv, ReadsAreOld, HasRead, At
  <1>6. QED
    BY <1>3, <1>4, <1>5 DEF IInv

LEMMA WriteBlobStep ==
  ASSUME IInv, NEW p \in Procs, WriteBlob(p)
  PROVE  LET k == proc[p].pointer
         IN  /\ k \in Pointers
             /\ proc[p].pc = "checked"
             /\ proc[p].base = blob[k]
             /\ proc[p].expect = blob[k].version
             /\ version[k] = blob[k].version
             /\ blob' \in [Pointers -> Content]
             /\ blob'[k].version = blob[k].version + 1
             /\ blob'[k].prev = blob[k].id
             /\ \A j \in Pointers : j # k => blob'[j] = blob[j]
             /\ proc' \in [Procs -> Proc]
             /\ proc'[p].pc = "written"
             /\ proc'[p].pointer = k
             /\ proc'[p].base = proc[p].base
             /\ proc'[p].expect = proc[p].expect
             /\ \A r \in Procs : r # p => proc'[r] = proc[r]
             /\ UNCHANGED <<version, lock>>
             /\ lastId' = lastId + 1
  <1>0. TypeOK /\ "written" \in PCs /\ Moves(p, "written")
        /\ proc[p].pc = "checked" /\ At(p, "checked")
    BY DEF IInv, WriteBlob, PCs, At
  <1>1. /\ proc[p].pointer \in Pointers
        /\ version[proc[p].pointer] = blob[proc[p].pointer].version
    BY <1>0, AgreesUnderLock
  <1>2. /\ proc[p].base = blob[proc[p].pointer]
        /\ proc[p].expect = blob[proc[p].pointer].version
    BY <1>0 DEF IInv, CheckedIsCurrent
  <1>3. /\ blob' = [blob EXCEPT ![proc[p].pointer] = Made(p)]
        /\ UNCHANGED <<version, lock>>
        /\ lastId' = lastId + 1
    BY DEF WriteBlob
  <1>4. /\ Made(p) \in Content
        /\ Made(p).version = proc[p].expect + 1
        /\ Made(p).prev = proc[p].base.id
    BY <1>0, MadeType
  <1>5. /\ blob' \in [Pointers -> Content]
        /\ blob'[proc[p].pointer] = Made(p)
        /\ \A j \in Pointers : j # proc[p].pointer => blob'[j] = blob[j]
    BY <1>0, <1>1, <1>3, <1>4 DEF TypeOK
  <1>6. /\ proc' \in [Procs -> Proc]
        /\ proc'[p].pc = "written"
        /\ proc'[p].pointer = proc[p].pointer
        /\ proc'[p].base = proc[p].base
        /\ proc'[p].expect = proc[p].expect
        /\ \A r \in Procs : r # p => proc'[r] = proc[r]
    BY <1>0, MovesStep
  <1>7. QED
    BY <1>0, <1>1, <1>2, <1>3, <1>4, <1>5, <1>6

LEMMA WriteBlobInv ==
  ASSUME IInv, NEW p \in Procs, WriteBlob(p) PROVE IInv'
  <1> DEFINE k == proc[p].pointer
  <1>0. TypeOK /\ blob[k].version \in Nat /\ lastId \in Nat
    BY WriteBlobStep, VersionBound DEF IInv, TypeOK
  \* Everyone else inside a swap is inside a swap of the other pointer.
  <1>1. \A r \in Procs : r # p /\ Swapping(r) => proc[r].pointer # k
    BY <1>0, WriteBlobStep, SwapsAlone DEF Swapping
  <1>2. TypeOK'
    BY <1>0, WriteBlobStep DEF TypeOK
  <1>3. FilesAgree'
    BY WriteBlobStep DEF IInv, FilesAgree, At
  <1>4. HalfWritten'
    <2> SUFFICES ASSUME NEW r \in Procs, proc'[r].pc = "written"
                 PROVE  /\ proc'[r].base.version = proc'[r].expect
                        /\ version[proc'[r].pointer] = proc'[r].expect
                        /\ blob'[proc'[r].pointer].version
                             = proc'[r].expect + 1
                        /\ blob'[proc'[r].pointer].prev = proc'[r].base.id
      BY WriteBlobStep DEF HalfWritten, At
    <2>1. CASE r = p
      BY <2>1, WriteBlobStep
    <2>2. CASE r # p
      <3>1. proc'[r] = proc[r] /\ proc[r].pc = "written"
            /\ proc[r].pointer \in Pointers
        BY <2>2, <1>0, WriteBlobStep DEF TypeOK, Proc
      <3>2. proc[r].pointer # k
        BY <2>2, <3>1, <1>1 DEF Swapping
      <3>3. QED
        BY <3>1, <3>2, WriteBlobStep DEF IInv, HalfWritten, At
    <2>3. QED
      BY <2>1, <2>2
  <1>5. NoManifestAtZero'
    BY <1>0, WriteBlobStep DEF IInv, NoManifestAtZero, Pointers
  <1>6. ReadsAreOld'
    <2> SUFFICES ASSUME NEW r \in Procs, r # p
                 PROVE  LET q == proc[r] IN
                   /\ At(r, "reading") =>
                        /\ q.pointer = "manifest"
                        /\ q.expect <= blob'["manifest"].version
                   /\ HasRead(r) =>
                        /\ q.expect <= q.base.version
                        /\ q.base.version <= blob'[q.pointer].version
                        /\ q.base.version = blob'[q.pointer].version
                             => q.base = blob'[q.pointer]
      BY WriteBlobStep DEF ReadsAreOld, At, HasRead
    <2>1. /\ proc[r].pointer \in Pointers /\ proc[r].expect \in Nat
          /\ proc[r].base.version \in Nat
          /\ \A j \in Pointers : blob[j].version \in Nat
      BY <1>0 DEF TypeOK, Proc, Content
    <2>2. \A j \in Pointers : \/ blob'[j] = blob[j]
                              \/ blob'[j].version = blob[j].version + 1
      BY WriteBlobStep
    <2>3. QED
      BY <2>1, <2>2 DEF IInv, ReadsAreOld, Pointers
  <1>7. CheckedIsCurrent'
    BY <1>0, <1>1, WriteBlobStep DEF IInv, TypeOK, Proc, CheckedIsCurrent, At,
       Swapping
  <1>8. QED
    BY <1>2, <1>3, <1>4, <1>5, <1>6, <1>7 DEF IInv

LEMMA WriteVersionStep ==
  ASSUME IInv, NEW p \in Procs, WriteVersion(p)
  PROVE  LET k == proc[p].pointer
         IN  /\ k \in Pointers
             /\ proc[p].pc = "written"
             /\ version' \in [Pointers -> Nat]
             /\ version'[k] = blob[k].version
             /\ \A j \in Pointers : j # k => version'[j] = version[j]
             /\ proc' \in [Procs -> Proc]
             /\ proc'[p].pc = "idle"
             /\ \A r \in Procs : r # p => proc'[r] = proc[r]
             /\ lock' = [lock EXCEPT ![k] = "none"]
             /\ UNCHANGED <<blob, lastId>>
  <1>1. proc[p].pointer \in Pointers /\ proc[p].expect \in Nat
        /\ At(p, "written") /\ proc[p].pc = "written"
        /\ version' = [version EXCEPT ![proc[p].pointer] = proc[p].expect + 1]
    BY DEF IInv, TypeOK, Proc, WriteVersion, At
  <1>2. /\ proc' \in [Procs -> Proc]
        /\ proc'[p].pc = "idle"
        /\ \A r \in Procs : r # p => proc'[r] = proc[r]
    BY ContentTypes, BecomeStep DEF IInv, Idle, WriteVersion
  <1>3. blob[proc[p].pointer].version = proc[p].expect + 1
    BY <1>1 DEF IInv, HalfWritten
  <1>4. QED
    BY <1>1, <1>2, <1>3 DEF WriteVersion, Unlock, IInv, TypeOK

LEMMA WriteVersionInv ==
  ASSUME IInv, NEW p \in Procs, WriteVersion(p) PROVE IInv'
  <1> DEFINE k == proc[p].pointer
  <1>0. TypeOK
    BY DEF IInv
  <1>1. \A r \in Procs : r # p /\ Swapping(r) => proc[r].pointer # k
    BY <1>0, WriteVersionStep, SwapsAlone DEF Swapping
  <1>2. TypeOK'
    BY <1>0, WriteVersionStep, LocalFSAssumption DEF TypeOK, Proc
  <1>3. FilesAgree'
    BY WriteVersionStep DEF IInv, FilesAgree, At
  <1>4. HalfWritten'
    BY <1>0, <1>1, WriteVersionStep DEF IInv, TypeOK, Proc, HalfWritten, At,
       Swapping
  <1>5. NoManifestAtZero' /\ CheckedIsCurrent'
    BY WriteVersionStep DEF IInv, NoManifestAtZero, CheckedIsCurrent, At
  <1>6. ReadsAreOld'
    BY WriteVersionStep DEF IInv, ReadsAreOld, HasRead, At
  <1>7. QED
    BY <1>2, <1>3, <1>4, <1>5, <1>6 DEF IInv

-----------------------------------------------------------------------------
(* Safety *)

LEMMA NextIInv == IInv /\ [Next]_vars => IInv'
  <1> SUFFICES ASSUME IInv, [Next]_vars PROVE IInv'
    OBVIOUS
  <1>1. CASE UNCHANGED vars
    BY <1>1 DEF vars, IInv, TypeOK, FilesAgree, HalfWritten, NoManifestAtZero,
                ReadsAreOld, CheckedIsCurrent, At, HasRead
  <1>2. ASSUME NEW p \in Procs, Reads(p) PROVE IInv'
    BY <1>2, ReadsInv
  <1>3. ASSUME NEW p \in Procs, Flock(p) PROVE IInv'
    BY <1>3, FlockInv
  <1>4. ASSUME NEW p \in Procs, VersionMatches(p) PROVE IInv'
    BY <1>4, VersionMatchesInv
  <1>5. ASSUME NEW p \in Procs, GivesUp(p) PROVE IInv'
    BY <1>5, GivesUpInv
  <1>6. ASSUME NEW p \in Procs, WriteBlob(p) PROVE IInv'
    BY <1>6, WriteBlobInv
  <1>7. ASSUME NEW p \in Procs, WriteVersion(p) PROVE IInv'
    BY <1>7, WriteVersionInv
  <1>8. QED
    BY <1>1, <1>2, <1>3, <1>4, <1>5, <1>6, <1>7 DEF Next, Reads, GivesUp

\* The files, the locks and the reads stay in the relation the swap relies
\* on (GetManifest, CASManifest, CASRoster, withLock).
THEOREM FilesInvariant == Spec => []IInv
  BY InitIInv, NextIInv, PTL DEF Spec

\* Type correctness, with the lock held by whoever swaps and by nobody else.
THEOREM TypeCorrect == Spec => []TypeOK
  <1>1. IInv => TypeOK
    BY DEF IInv
  <1>2. QED
    BY <1>1, FilesInvariant, PTL

\* However the unlocked reads interleave with the swaps of other processes,
\* a swap whose version check passed replaces the very content its caller
\* read and built on.
THEOREM SwapsBuildOnReads == Spec => []SwapBuildsOnRead
  <1>1. IInv => SwapBuildsOnRead
    BY DEF IInv, CheckedIsCurrent, SwapBuildsOnRead
  <1>2. QED
    BY <1>1, FilesInvariant, PTL

-----------------------------------------------------------------------------
(* Refinement *)

Wrote(p, k) == At(p, "written") /\ proc[p].pointer = k

\* What a pointer holds, before a step and after it.
LEMMA HeldIs ==
  ASSUME TypeOK, NEW k \in Pointers
  PROVE  /\ (\A r \in Procs : ~Wrote(r, k)) => Held(k) = blob[k]
         /\ \A p \in Procs : Wrote(p, k) => Held(k) = proc[p].base
  <1> DEFINE S == {r \in Procs : At(r, "written") /\ proc[r].pointer = k}
             B == {proc[r].base : r \in S}
  <1>1. Held(k) = IF S = {} THEN blob[k] ELSE CHOOSE q \in B : TRUE
    BY DEF Held
  <1>2. (\A r \in Procs : ~Wrote(r, k)) => S = {}
    BY DEF Wrote
  <1>3. ASSUME NEW p \in Procs, Wrote(p, k) PROVE S = {p} /\ B = {proc[p].base}
    <2>1. \A r \in S : r = p
      BY <1>3, SwapsAlone DEF Wrote, At, Swapping
    <2>2. S = {p}
      BY <1>3, <2>1 DEF Wrote
    <2> HIDE DEF S
    <2>3. QED
      BY <2>2
  <1> HIDE DEF S, B
  <1>4. \A c : (CHOOSE q \in {c} : TRUE) = c
    OBVIOUS
  <1>5. QED
    BY <1>1, <1>2, <1>3, <1>4

LEMMA HeldWillBe ==
  ASSUME TypeOK', NEW k \in Pointers
  PROVE  /\ (\A r \in Procs : ~Wrote(r, k)') => Held(k)' = blob'[k]
         /\ \A p \in Procs : Wrote(p, k)' => Held(k)' = proc'[p].base
  <1> DEFINE S == {r \in Procs : At(r, "written")' /\ proc'[r].pointer = k}
             B == {proc'[r].base : r \in S}
  <1>1. Held(k)' = IF S = {} THEN blob'[k] ELSE CHOOSE q \in B : TRUE
    BY DEF Held
  <1>2. (\A r \in Procs : ~Wrote(r, k)') => S = {}
    BY DEF Wrote
  <1>3. ASSUME NEW p \in Procs, Wrote(p, k)'
        PROVE  S = {p} /\ B = {proc'[p].base}
    <2>1. \A r \in S : r = p
      BY <1>3 DEF Wrote, At, TypeOK, Proc
    <2>2. S = {p}
      BY <1>3, <2>1 DEF Wrote
    <2> HIDE DEF S
    <2>3. QED
      BY <2>2
  <1> HIDE DEF S, B
  <1>4. \A c : (CHOOSE q \in {c} : TRUE) = c
    OBVIOUS
  <1>5. QED
    BY <1>1, <1>2, <1>3, <1>4

\* A step that writes no file, and that no process between its writes takes,
\* leaves what the pointers hold.
LEMMA QuietStep ==
  ASSUME TypeOK, TypeOK', UNCHANGED blob, NEW p \in Procs,
         ~At(p, "written"), ~At(p, "written")',
         \A r \in Procs : r # p => proc'[r] = proc[r]
  PROVE  \A k \in Pointers : Held(k)' = Held(k)
  <1> TAKE k \in Pointers
  <1>1. \A r \in Procs : Wrote(r, k)' <=> Wrote(r, k)
    BY DEF Wrote, At
  <1>2. \A r \in Procs : Wrote(r, k) => proc'[r].base = proc[r].base
    BY DEF Wrote, At
  <1>3. QED
    BY <1>1, <1>2, HeldIs, HeldWillBe

\* Writing the blob does not swap yet: the pointer holds the base.
LEMMA WriteBlobQuiet ==
  ASSUME IInv, IInv', NEW p \in Procs, WriteBlob(p)
  PROVE  \A k \in Pointers : Held(k)' = Held(k)
  <1> TAKE k \in Pointers
  <1>0. TypeOK /\ TypeOK'
    BY DEF IInv
  <1>1. CASE proc[p].pointer = k
    <2>1. \A r \in Procs : ~Wrote(r, k)
      BY <1>0, <1>1, WriteBlobStep, SwapsAlone DEF Wrote, At, Swapping
    <2>2. Wrote(p, k)' /\ proc'[p].base = blob[k]
      BY <1>1, WriteBlobStep DEF Wrote, At
    <2>3. QED
      BY <1>0, <2>1, <2>2, HeldIs, HeldWillBe
  <1>2. CASE proc[p].pointer # k
    <2>1. \A r \in Procs : Wrote(r, k)' <=> Wrote(r, k)
      BY <1>2, WriteBlobStep DEF Wrote, At
    <2>2. \A r \in Procs : Wrote(r, k) => proc'[r].base = proc[r].base
      BY <1>2, WriteBlobStep DEF Wrote, At
    <2>3. blob'[k] = blob[k]
      BY <1>2, WriteBlobStep
    <2>4. QED
      BY <1>0, <2>1, <2>2, <2>3, HeldIs, HeldWillBe
  <1>3. QED
    BY <1>1, <1>2

\* Writing the version swaps.
LEMMA WriteVersionSwaps ==
  ASSUME IInv, IInv', NEW p \in Procs, WriteVersion(p),
         NEW k \in Pointers, k = proc[p].pointer
  PROVE  /\ Held(k)' \in Content
         /\ Held(k)'.version = Held(k).version + 1
         /\ Held(k)'.prev = Held(k).id
         /\ \A j \in Pointers : j # k => Held(j)' = Held(j)
  <1>0. TypeOK /\ TypeOK' /\ k \in Pointers /\ Wrote(p, k)
    BY WriteVersionStep DEF IInv, Wrote, At
  <1>1. Held(k) = proc[p].base
    BY <1>0, HeldIs
  <1>2. Held(k)' = blob[k]
    <2>1. \A r \in Procs : r # p => ~Wrote(r, k)
      BY <1>0, SwapsAlone DEF Wrote, At, Swapping
    <2>2. \A r \in Procs : ~Wrote(r, k)'
      BY <2>1, WriteVersionStep DEF Wrote, At
    <2>3. blob'[k] = blob[k]
      BY WriteVersionStep
    <2>4. QED
      BY <1>0, <2>2, <2>3, HeldWillBe
  <1>3. /\ blob[k] \in Content
        /\ blob[k].version = proc[p].base.version + 1
        /\ blob[k].prev = proc[p].base.id
    BY <1>0 DEF IInv, HalfWritten, TypeOK, Wrote
  <1>4. ASSUME NEW j \in Pointers, j # k PROVE Held(j)' = Held(j)
    <2>1. \A r \in Procs : Wrote(r, j)' <=> Wrote(r, j)
      BY <1>4, WriteVersionStep DEF Wrote, At
    <2>2. \A r \in Procs : Wrote(r, j) => proc'[r].base = proc[r].base
      BY <1>4, WriteVersionStep DEF Wrote, At
    <2>3. blob'[j] = blob[j]
      BY WriteVersionStep
    <2>4. QED
      BY <1>0, <2>1, <2>2, <2>3, HeldIs, HeldWillBe
  <1>5. QED
    BY <1>0, <1>1, <1>2, <1>3, <1>4

PointerHead == [k \in Pointers |-> Held(k)]

LEMMA PromisedInit == Init => Promised!Init
  <1> SUFFICES ASSUME Init PROVE \A k \in Pointers : Held(k) = First[k]
    BY DEF Promised!Init, First
  <1> TAKE k \in Pointers
  <1>1. TypeOK
    BY InitIInv DEF IInv
  <1>2. \A r \in Procs : ~Wrote(r, k)
    BY DEF Init, Wrote, At, Idle
  <1>3. QED
    BY <1>1, <1>2, HeldIs DEF Init

LEMMA PromisedNext ==
  IInv /\ IInv' /\ [Next]_vars => [Promised!Next]_PointerHead
  <1> SUFFICES ASSUME IInv, IInv', [Next]_vars
               PROVE  [Promised!Next]_PointerHead
    OBVIOUS
  <1>0. TypeOK /\ TypeOK'
    BY DEF IInv
  <1>1. ASSUME \A k \in Pointers : Held(k)' = Held(k)
        PROVE  UNCHANGED PointerHead
    BY <1>1 DEF PointerHead
  <1>2. CASE UNCHANGED vars
    <2>1. \A k \in Pointers : Held(k)' = Held(k)
      BY <1>2 DEF vars, Held, At
    <2>2. QED
      BY <1>1, <2>1
  <1>3. ASSUME NEW p \in Procs, Reads(p) PROVE UNCHANGED PointerHead
    <2>1. /\ UNCHANGED blob /\ ~At(p, "written") /\ ~At(p, "written")'
          /\ \A r \in Procs : r # p => proc'[r] = proc[r]
      BY <1>3, ReadsStep DEF At
    <2>2. QED
      BY <1>0, <1>1, <2>1, QuietStep
  <1>4. ASSUME NEW p \in Procs, Flock(p) PROVE UNCHANGED PointerHead
    <2>1. Moves(p, "locked") /\ "locked" \in PCs /\ UNCHANGED blob
          /\ ~At(p, "written")
      BY <1>4 DEF Flock, PCs, At, files
    <2>2. ~At(p, "written")' /\ \A r \in Procs : r # p => proc'[r] = proc[r]
      BY <1>0, <2>1, MovesStep DEF At
    <2>3. QED
      BY <1>0, <1>1, <2>1, <2>2, QuietStep
  <1>5. ASSUME NEW p \in Procs, VersionMatches(p) PROVE UNCHANGED PointerHead
    <2>1. Moves(p, "checked") /\ "checked" \in PCs /\ UNCHANGED blob
          /\ ~At(p, "written")
      BY <1>5 DEF VersionMatches, PCs, At, files
    <2>2. ~At(p, "written")' /\ \A r \in Procs : r # p => proc'[r] = proc[r]
      BY <1>0, <2>1, MovesStep DEF At
    <2>3. QED
      BY <1>0, <1>1, <2>1, <2>2, QuietStep
  <1>6. ASSUME NEW p \in Procs, GivesUp(p) PROVE UNCHANGED PointerHead
    <2>1. Become(p, Idle) /\ UNCHANGED blob /\ ~At(p, "written")
      BY <1>6 DEF GivesUp, VersionConflict, AbandonBeforeWriting, At, files
    <2>2. ~At(p, "written")' /\ \A r \in Procs : r # p => proc'[r] = proc[r]
      BY <1>0, <2>1, ContentTypes, BecomeStep DEF At, Idle
    <2>3. QED
      BY <1>0, <1>1, <2>1, <2>2, QuietStep
  <1>7. ASSUME NEW p \in Procs, WriteBlob(p) PROVE UNCHANGED PointerHead
    BY <1>1, <1>7, WriteBlobQuiet
  <1>8. ASSUME NEW p \in Procs, WriteVersion(p) PROVE Promised!Next
    <2>0. PICK k \in Pointers : k = proc[p].pointer
      BY <1>8, WriteVersionStep
    <2>1. /\ PointerHead'[k] \in Content
          /\ PointerHead'[k].version = PointerHead[k].version + 1
          /\ PointerHead'[k].prev = PointerHead[k].id
      BY <1>8, <2>0, WriteVersionSwaps DEF PointerHead
    <2>2. PointerHead' = [PointerHead EXCEPT ![k] = PointerHead'[k]]
      BY <1>8, <2>0, WriteVersionSwaps DEF PointerHead
    <2>3. Promised!Swap(k)
      BY <2>1, <2>2 DEF Promised!Swap, PointerHead
    <2>4. QED
      BY <2>1, <2>3 DEF Promised!Next
  <1>9. QED
    BY <1>2, <1>3, <1>4, <1>5, <1>6, <1>7, <1>8 DEF Next, Reads, GivesUp

\* CASManifest and CASRoster over two files, against readers that take no
\* lock, do what store.Store promises: each swap is one step of a pointer
\* that holds one content at a time.
THEOREM StoreImplementsPointers == Spec => ImplementsPointers
  BY FilesInvariant, PromisedInit, PromisedNext, PTL
  DEF Spec, ImplementsPointers, Promised!Spec, PointerHead
=============================================================================
