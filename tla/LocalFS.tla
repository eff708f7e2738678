------------------------------ MODULE LocalFS ------------------------------
(***************************************************************************)
(* The directory store of Tier 1 (internal/store/localfs): a pointer is    *)
(* two files, a blob and a version, each replaced by a rename.  Readers    *)
(* take no lock and read the files one after the other; a swap holds the   *)
(* pointer's file lock while it reads the version and writes both files.   *)
(*                                                                         *)
(* The processes are clients of the store: one reads a pointer, makes the  *)
(* content that follows what it read, and swaps.  The version a swap       *)
(* expects is the one GetManifest returned for the manifest, and the one   *)
(* written inside the roster for the roster: the helper drops the version  *)
(* GetRoster returns, so the second read of GetRoster is left out.         *)
(*                                                                         *)
(* The repo has been initialised: it has a genesis roster, of version 0,   *)
(* and no manifest.                                                        *)
(***************************************************************************)
EXTENDS Naturals

CONSTANTS
    Procs,      \* client processes
    MaxWrites   \* bound: contents written after the genesis

ASSUME LocalFSAssumption == MaxWrites \in Nat /\ "none" \notin Procs

VARIABLES
    blob,       \* pointer: the content of its blob file
    version,    \* pointer: the number in its version file
    lock,       \* pointer: the process that holds its lock, or "none"
    proc,       \* process: what it is doing
    lastId      \* contents made so far

vars == <<blob, version, lock, proc, lastId>>
files == <<blob, version>>

Pointers == {"manifest", "roster"}
Content == [id : Nat, version : Nat, prev : Nat]
NoContent == [id |-> 0, version |-> 0, prev |-> 0]
Genesis == [id |-> 1, version |-> 0, prev |-> 0]
First == [k \in Pointers |-> IF k = "roster" THEN Genesis ELSE NoContent]

\* base is the content the process read, expect the version its swap expects.
PCs == {"idle", "reading", "read", "locked", "checked", "written"}
Proc == [pc : PCs, pointer : Pointers, base : Content, expect : Nat]
Idle == [pc |-> "idle", pointer |-> "manifest",
         base |-> NoContent, expect |-> 0]

At(p, pc) == proc[p].pc = pc
Become(p, q) == proc' = [proc EXCEPT ![p] = q]
Moves(p, pc) == Become(p, [proc[p] EXCEPT !.pc = pc])
Unlock(p) == lock' = [lock EXCEPT ![proc[p].pointer] = "none"]

Init ==
    /\ blob = First
    /\ version = [k \in Pointers |-> 0]
    /\ lock = [k \in Pointers |-> "none"]
    /\ proc = [p \in Procs |-> Idle]
    /\ lastId = 1

-----------------------------------------------------------------------------
(* Reading                                                                 *)

\* readVersion; version 0 stands for "no manifest yet".
GetManifest(p) ==
    /\ At(p, "idle")
    /\ Become(p, [Idle EXCEPT
           !.pc = IF version["manifest"] = 0 THEN "read" ELSE "reading",
           !.expect = version["manifest"]])
    /\ UNCHANGED <<files, lock, lastId>>

ReadManifestBlob(p) ==
    /\ At(p, "reading")
    /\ Become(p, [proc[p] EXCEPT !.pc = "read", !.base = blob["manifest"]])
    /\ UNCHANGED <<files, lock, lastId>>

GetRoster(p) ==
    /\ At(p, "idle")
    /\ Become(p, [pc |-> "read", pointer |-> "roster", base |-> blob["roster"],
                  expect |-> blob["roster"].version])
    /\ UNCHANGED <<files, lock, lastId>>

\* An operation that only reads (Fetch), or a process that dies without a lock.
Leave(p) ==
    /\ proc[p].pc \in {"reading", "read"}
    /\ Become(p, Idle)
    /\ UNCHANGED <<files, lock, lastId>>

-----------------------------------------------------------------------------
(* CASManifest and CASRoster                                               *)

\* Bug variant: the lock does not exclude.
FlockShared(p) ==
    /\ At(p, "read")
    /\ lock' = [lock EXCEPT ![proc[p].pointer] = p]
    /\ Moves(p, "locked")
    /\ UNCHANGED <<files, lastId>>

Flock(p) ==
    /\ At(p, "read")
    /\ lock[proc[p].pointer] = "none"
    /\ lock' = [lock EXCEPT ![proc[p].pointer] = p]
    /\ Moves(p, "locked")
    /\ UNCHANGED <<files, lastId>>

\* The stored version; a roster that is absent counts as version 0.
Stored(k) == IF k = "roster" /\ blob[k] = NoContent THEN 0 ELSE version[k]

\* Bug variant: only an expectation from the future conflicts.
VersionNotOlder(p) ==
    /\ At(p, "locked")
    /\ Stored(proc[p].pointer) >= proc[p].expect
    /\ Moves(p, "checked")
    /\ UNCHANGED <<files, lock, lastId>>

VersionMatches(p) ==
    /\ At(p, "locked")
    /\ Stored(proc[p].pointer) = proc[p].expect
    /\ Moves(p, "checked")
    /\ UNCHANGED <<files, lock, lastId>>

VersionConflict(p) ==
    /\ At(p, "locked")
    /\ Stored(proc[p].pointer) # proc[p].expect
    /\ Become(p, Idle)
    /\ Unlock(p)
    /\ UNCHANGED <<files, lastId>>

\* The content a swap puts: it follows the content read, under the version
\* after the expected one.
Made(p) == [id |-> lastId + 1, version |-> proc[p].expect + 1,
            prev |-> proc[p].base.id]

\* Bug variant: the lock is released before the version is written.
WriteBlobUnlocks(p) ==
    /\ At(p, "checked")
    /\ lastId < MaxWrites + 1
    /\ blob' = [blob EXCEPT ![proc[p].pointer] = Made(p)]
    /\ lastId' = lastId + 1
    /\ Moves(p, "written")
    /\ Unlock(p)
    /\ UNCHANGED version

WriteBlob(p) ==
    /\ At(p, "checked")
    /\ lastId < MaxWrites + 1
    /\ blob' = [blob EXCEPT ![proc[p].pointer] = Made(p)]
    /\ lastId' = lastId + 1
    /\ Moves(p, "written")
    /\ UNCHANGED <<version, lock>>

WriteVersion(p) ==
    /\ At(p, "written")
    /\ version' = [version EXCEPT ![proc[p].pointer] = proc[p].expect + 1]
    /\ Become(p, Idle)
    /\ Unlock(p)
    /\ UNCHANGED <<blob, lastId>>

\* A death, or a failed write, under the lock: the system releases the lock.
AbandonBeforeWriting(p) ==
    /\ proc[p].pc \in {"locked", "checked"}
    /\ Become(p, Idle)
    /\ Unlock(p)
    /\ UNCHANGED <<files, lastId>>

AbandonHalfWritten(p) ==
    /\ At(p, "written")
    /\ Become(p, Idle)
    /\ Unlock(p)
    /\ UNCHANGED <<files, lastId>>

-----------------------------------------------------------------------------
Next == \E p \in Procs :
    \/ GetManifest(p) \/ ReadManifestBlob(p) \/ GetRoster(p) \/ Leave(p)
    \/ Flock(p) \/ VersionMatches(p) \/ VersionConflict(p)
    \/ WriteBlob(p) \/ WriteVersion(p)
    \/ AbandonBeforeWriting(p)

Spec == Init /\ [][Next]_vars

\* The same processes, which may die between the two writes of a swap.
CrashSpec == Init /\ [][Next \/ \E p \in Procs : AbandonHalfWritten(p)]_vars

-----------------------------------------------------------------------------
(* Properties                                                              *)

\* The type of every variable; a process that holds a lock is inside a swap
\* of that pointer, and one that is inside a swap holds its lock (withLock).
TypeOK ==
    /\ blob \in [Pointers -> Content]
    /\ version \in [Pointers -> Nat]
    /\ lock \in [Pointers -> Procs \cup {"none"}]
    /\ proc \in [Procs -> Proc]
    /\ lastId \in Nat
    /\ \A p \in Procs, k \in Pointers :
         lock[k] = p <=> /\ proc[p].pc \in {"locked", "checked", "written"}
                         /\ proc[p].pointer = k

\* A swap whose version check passed replaces the content its caller built
\* on.  GetManifest can return the blob of one manifest with the version of
\* an earlier one, and a blob whose version is not written yet: such a
\* caller must lose (GetManifest, CASManifest).
SwapBuildsOnRead ==
    \A p \in Procs : At(p, "checked") => proc[p].base = blob[proc[p].pointer]

\* What a pointer holds: a swap takes effect when its version is written.
Held(k) ==
    LET swapping == {p \in Procs : At(p, "written") /\ proc[p].pointer = k}
    IN  IF swapping = {} THEN blob[k]
        ELSE (CHOOSE q \in {proc[p].base : p \in swapping} : TRUE)

Promised == INSTANCE PointerStore
                WITH Contents <- Content,
                     head <- [k \in Pointers |-> Held(k)]

\* The two files, the unlocked reads and the locked swap implement the
\* pointer that store.Store promises.
ImplementsPointers == Promised!Spec

\* While nobody swaps, blob and version file are those of one swap: "CASManifest
\* atomically swaps the manifest to (blob, newVersion)" (store.go).
SwapIsAtomic ==
    \A k \in Pointers : lock[k] = "none" => version[k] = blob[k].version
=============================================================================
