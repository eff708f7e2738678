-------------------------- MODULE WorkspaceProofs ---------------------------
(***************************************************************************)
(* The properties of Workspace, for any number of processes, operations,   *)
(* keys and manifests.                                                     *)
(*                                                                         *)
(* The temporary file has one name for all, so everything rests on who     *)
(* uses it: as long as nobody loads the state while another process has    *)
(* yet to save its own, at most one process is between its Load and the    *)
(* end of its Save (Alone), and what it is about to write covers what is   *)
(* there (SaveInv).                                                        *)
(***************************************************************************)
EXTENDS Workspace, FiniteSetTheorems, TLAPS

Window == {"rotated", "work", "open", "write", "rename"}
Busy(o) == o.pc # "idle"
Cloning(o) == Busy(o) /\ o.kind = "clone"

\* What holds of an operation o while the server is s, in every state.
OpOK(o, s) ==
    /\ o.fd # 0 <=> o.pc = "write"
    /\ o.pc \notin {"idle", "init", "cleanup"} => o.key # 0
    /\ o.pc \in {"init", "checkout", "cleanup"} => o.kind = "clone"
    /\ o.pc = "rotated" => o.kind = "remove"
    /\ o.round = "again" => o.kind = "push"
    /\ (o.kind = "remove" /\ o.pc \in {"rotated", "work"}) => o.key < s.key
    /\ o.created => given # "directory"
    /\ o.manifest <= Len(s.sealed)

OpInv == \A p \in Procs : OpOK(op[p], server)

\* The user's own directory stays; an empty one, and a file, are the user's.
DirInv ==
    /\ given = "directory" => dir # "absent"
    /\ dir = "empty" => given = "directory"
    /\ dir = "file" => given = "file"

\* A clone runs alone, and one process is in the window of a Load and a Save.
Alone ==
    \A p, q \in Procs : p # q =>
        /\ Cloning(op[p]) => ~Busy(op[q])
        /\ op[p].pc \in Window => op[q].pc \notin Window

\* What a clone, and what another process, sees of the directory d.
DirOK(o, d) ==
    /\ Cloning(o) => /\ d # "cloned"
                     /\ o.pc = "init" => (o.created <=> d # "empty")
                     /\ o.pc \notin {"init", "cleanup"} => d = "half"
    /\ (Busy(o) /\ ~Cloning(o)) => d = "cloned"

DirSeen == \A p \in Procs : DirOK(op[p], dir)

\* s does not drop or move back anything that state l has.
Covers(s, l) ==
    /\ l.keys \subseteq s.keys
    /\ l.roster <= s.roster
    /\ l.manifest <= s.manifest

\* No pin is ahead of the server v.
Behind(s, v) == s.roster <= v.key /\ s.manifest <= Len(v.sealed)

\* The Save that operation o is about to make, with state l in state.json,
SaveOK(o, l, v) ==
    /\ o.pc \in Window \ {"rotated"} => Covers(o.st, l) /\ Behind(o.st, v)
    /\ o.pc = "rotated" => l.roster <= o.key
    /\ (o.pc = "work" /\ o.kind = "remove") => o.st.roster <= o.key
    /\ (o.pc = "work" /\ o.kind \in {"clone", "fetch"}) => o.st.manifest <= o.manifest

\* and the files it makes it with.
FileOK(o) ==
    /\ o.pc = "write" => o.fd = tmpName /\ inode[tmpName] = Empty
    /\ o.pc = "rename" => tmpName # 0 /\ inode[tmpName] = Holds(o.st)

SaveInv ==
    /\ Readable
    /\ Behind(Loaded, server)
    /\ \A p \in Procs : SaveOK(op[p], Loaded, server) /\ FileOK(op[p])

\* A clone that fails leaves nothing behind, if it made the directory.
Retriable ==
    (~killed /\ given # "directory") =>
        /\ \A p \in Procs : Cloning(op[p]) => op[p].created
        /\ dir = "half" => \E p \in Procs : Cloning(op[p])

\* No operation gets past git init on a file, and no state file is at a path
\* that a clone may use.
PathInv ==
    /\ dir = "file" => \A p \in Procs : op[p].pc \in {"idle", "init", "cleanup"}
    /\ dir \in Unused => stateName = 0 /\ tmpName = 0

Basic == TypeOK /\ OpInv /\ DirInv /\ Manifest # 0
Quiet == Alone /\ DirSeen /\ SaveInv /\ Retriable
IInv == Basic /\ (~overlapped => Quiet)

-----------------------------------------------------------------------------
(* Types *)

LEMMA StateTypes ==
  /\ NoState \in State
  /\ Empty \in Content /\ Garbage \in Content
  /\ \A s \in State : Holds(s) \in Content /\ Holds(s).kind = "state"
                      /\ Holds(s).state = s
  /\ \A c \in Content : c.state \in State
  /\ Empty.kind = "empty" /\ Garbage.kind = "garbage"
  /\ Idle \in Op /\ Idle.pc = "idle"
  <1>1. 0 \in 0 .. MaxKey /\ 0 \in 0 .. MaxManifest
    BY WorkspaceAssumption
  <1>2. NoState \in State
    BY <1>1 DEF NoState, State
  <1>3. Idle \in Op
    BY <1>1, <1>2 DEF Idle, Op, PCs, Kinds, Rounds
  <1>4. /\ Empty \in Content /\ Garbage \in Content
        /\ Empty.kind = "empty" /\ Garbage.kind = "garbage"
    BY DEF Content, Empty, Garbage
  <1>5. ASSUME NEW s \in State
        PROVE  Holds(s) \in Content /\ Holds(s).kind = "state" /\ Holds(s).state = s
    BY DEF Content, Holds
  <1>6. ASSUME NEW c \in Content
        PROVE  c.state \in State
    <2>1. CASE c \in {Empty, Garbage}
      BY <2>1, <1>2 DEF Empty, Garbage
    <2>2. CASE c \in {Holds(s) : s \in State}
      BY <2>2, <1>5
    <2>3. QED
      BY <2>1, <2>2 DEF Content
  <1>7. Idle.pc = "idle"
    BY DEF Idle
  <1>8. QED
    BY <1>2, <1>3, <1>4, <1>5, <1>6, <1>7

LEMMA OneMore ==
  ASSUME NEW S, NEW x, IsFiniteSet(S), NEW k \in Nat, Cardinality(S) <= k
  PROVE  IsFiniteSet(S \cup {x}) /\ Cardinality(S \cup {x}) <= k + 1
  <1>1. Cardinality(S) \in Nat
    BY FS_CardinalityType
  <1>2. /\ IsFiniteSet(S \cup {x})
        /\ Cardinality(S \cup {x}) =
             IF x \in S THEN Cardinality(S) ELSE Cardinality(S) + 1
    BY FS_AddElement
  <1>3. QED
    BY <1>1, <1>2

\* There are more inodes than the other processes and state.json can name.
LEMMA InodeFree ==
  ASSUME TypeOK, OpInv, NEW p \in Procs, At(p, "open")
  PROVE  Inodes \ ({stateName} \cup {op[q].fd : q \in Procs}) # {}
  <1> DEFINE others == Procs \ {p}
             fds == {op[q].fd : q \in others}
             used == {stateName} \cup {op[q].fd : q \in Procs}
             n == Cardinality(Procs)
  <1>1. IsFiniteSet(others) /\ Cardinality(others) = n - 1 /\ n \in Nat
    BY WorkspaceAssumption, FS_RemoveElement, FS_CardinalityType
  <1>2. IsFiniteSet(fds) /\ Cardinality(fds) <= n - 1
    <2> DEFINE f == [q \in others |-> op[q].fd]
    <2>1. f \in Surjection(others, fds)
      BY DEF Surjection
    <2>2. QED
      BY <2>1, <1>1, FS_Surjection
  <1>3. IsFiniteSet(fds \cup {stateName}) /\ Cardinality(fds \cup {stateName}) <= n
    <2>1. n - 1 \in Nat
      BY <1>1, FS_CardinalityType
    <2>2. IsFiniteSet(fds \cup {stateName}) /\ Cardinality(fds \cup {stateName}) <= (n - 1) + 1
      BY <1>2, <2>1, OneMore
    <2>3. QED
      BY <1>1, <2>2
  <1>4. IsFiniteSet(Inodes) /\ Cardinality(Inodes) = n + 2
    BY <1>1, FS_Interval DEF Inodes
  <1>5. \E i \in Inodes : i \notin fds \cup {stateName}
    <2> SUFFICES ASSUME Inodes \subseteq fds \cup {stateName} PROVE FALSE
      OBVIOUS
    <2>1. Cardinality(Inodes) <= Cardinality(fds \cup {stateName})
      BY <1>3, FS_Subset
    <2>2. QED
      BY <2>1, <1>1, <1>3, <1>4, FS_CardinalityType
  <1>6. used \subseteq {stateName, 0} \cup fds
    BY DEF OpInv, OpOK, At
  <1> QED
    BY <1>5, <1>6 DEF Inodes

LEMMA LoadedType == TypeOK => Loaded \in State
  <1> SUFFICES ASSUME TypeOK PROVE Loaded \in State
    OBVIOUS
  <1> QED
    BY StateTypes DEF TypeOK, Loaded

-----------------------------------------------------------------------------
(* Steps of one operation that leave the files alone                       *)

\* The server v only gains keys and manifests.
Grows(v) ==
    /\ v \in [key : Keys, sealed : Seq(Keys)]
    /\ server.key <= v.key
    /\ Len(server.sealed) <= Len(v.sealed)
    /\ Len(v.sealed) <= MaxManifest

LEMMA SameServer == TypeOK => Grows(server)
  BY DEF TypeOK, Grows, Manifest, Keys

LEMMA GrowsKeepsOp ==
  ASSUME TypeOK, NEW o \in Op, OpOK(o, server), NEW v, Grows(v)
  PROVE  OpOK(o, v)
  <1>1. server.key <= v.key /\ server.key \in Nat /\ v.key \in Nat
    BY DEF TypeOK, Grows, Keys
  <1>2. /\ Len(server.sealed) <= Len(v.sealed)
        /\ Len(server.sealed) \in Nat /\ Len(v.sealed) \in Nat
    BY DEF TypeOK, Grows
  <1>3. o.key \in Nat /\ o.manifest \in Nat
    BY DEF Op
  <1> QED
    BY <1>1, <1>2, <1>3 DEF OpOK

LEMMA GrowsKeepsSave ==
  ASSUME TypeOK, NEW v, Grows(v)
  PROVE  /\ \A s \in State : Behind(s, server) => Behind(s, v)
         /\ \A l : \A o \in Op : SaveOK(o, l, server) => SaveOK(o, l, v)
  <1>1. server.key <= v.key /\ server.key \in Nat /\ v.key \in Nat
    BY DEF TypeOK, Grows, Keys
  <1>2. /\ Len(server.sealed) <= Len(v.sealed)
        /\ Len(server.sealed) \in Nat /\ Len(v.sealed) \in Nat
    BY DEF TypeOK, Grows
  <1>3. \A s \in State : Behind(s, server) => Behind(s, v)
    BY <1>1, <1>2 DEF Behind, State
  <1> QED
    BY <1>3 DEF SaveOK, Op

\* Operation p turns into n, and does so without touching a file.
Turns(p, n) ==
    /\ n \in Op
    /\ op' = [op EXCEPT ![p] = n]
    /\ given' = given
    /\ Grows(server')

GoesOn(p, n) == Turns(p, n) /\ UNCHANGED files

LEMMA OpsGoOn ==
  ASSUME TypeOK, OpInv, NEW p \in Procs, NEW n, Turns(p, n), OpOK(n, server')
  PROVE  OpInv'
  <1> SUFFICES ASSUME NEW q \in Procs PROVE OpOK(op[q], server)'
    BY DEF OpInv
  <1>1. CASE q = p
    BY <1>1 DEF TypeOK, Turns, OpOK
  <1>2. CASE q # p
    <2>1. op'[q] = op[q] /\ op[q] \in Op /\ OpOK(op[q], server)
      BY <1>2 DEF TypeOK, Turns, OpInv
    <2>2. OpOK(op[q], server')
      BY <2>1, GrowsKeepsOp DEF Turns
    <2> QED
      BY <2>1, <2>2 DEF Turns, OpOK
  <1> QED
    BY <1>1, <1>2

\* A process enters the window of a Load and a Save when no other is in it.
Enters(p, n) == n.pc \in Window => op[p].pc \in Window \/ Windows(p) = {}

LEMMA WindowsAre == \A p \in Procs : Windows(p) = {q \in Procs \ {p} : op[q].pc \in Window}
  BY DEF Windows, Window

LEMMA AloneGoesOn ==
  ASSUME TypeOK, Alone, NEW p \in Procs, NEW n, Turns(p, n), Enters(p, n),
         Cloning(n) => Cloning(op[p]), Busy(n) => Busy(op[p])
  PROVE  Alone'
  <1> SUFFICES ASSUME NEW q \in Procs, NEW r \in Procs, q # r
               PROVE  /\ Cloning(op'[q]) => ~Busy(op'[r])
                      /\ op'[q].pc \in Window => op'[r].pc \notin Window
    BY DEF Alone, Cloning, Busy
  <1>1. op'[q] = (IF q = p THEN n ELSE op[q]) /\ op'[r] = (IF r = p THEN n ELSE op[r])
    BY DEF TypeOK, Turns
  <1>2. Cloning(op'[q]) => ~Busy(op'[r])
    BY <1>1 DEF Alone
  <1>3. op'[q].pc \in Window => op'[r].pc \notin Window
    BY <1>1, WindowsAre DEF Alone, Enters
  <1> QED
    BY <1>2, <1>3

LEMMA SavesGoOn ==
  ASSUME TypeOK, SaveInv, NEW p \in Procs, NEW n, GoesOn(p, n),
         n.pc \notin {"write", "rename"}, SaveOK(n, Loaded, server')
  PROVE  SaveInv'
  <1> DEFINE L == Loaded
  <1>1. Loaded' = Loaded /\ (Readable => Readable')
    BY DEF GoesOn, Turns, files, Loaded, Readable
  <1>4. Grows(server')
    BY DEF GoesOn, Turns
  <1>5. Behind(Loaded, server)'
    BY <1>1, <1>4, LoadedType, GrowsKeepsSave DEF SaveInv, Behind
  <1>6. ASSUME NEW q \in Procs
        PROVE  (SaveOK(op[q], Loaded, server) /\ FileOK(op[q]))'
    <2>1. CASE q = p
      <3>1. op'[q] = n
        BY <2>1 DEF TypeOK, GoesOn, Turns
      <3>2. FileOK(n)' /\ SaveOK(n, Loaded', server')
        BY <1>1 DEF FileOK
      <3> QED
        BY <3>1, <3>2 DEF FileOK, SaveOK
    <2>2. CASE q # p
      <3>1. op'[q] = op[q] /\ op[q] \in Op
        BY <2>2 DEF TypeOK, GoesOn, Turns
      <3>2. SaveOK(op[q], Loaded, server) /\ FileOK(op[q])
        BY DEF SaveInv
      <3>3. SaveOK(op[q], Loaded, server')
        BY <3>1, <3>2, <1>4, GrowsKeepsSave
      <3>4. FileOK(op[q])'
        BY <3>1, <3>2 DEF FileOK, GoesOn, Turns, files
      <3> QED
        BY <1>1, <3>1, <3>3, <3>4 DEF SaveOK
    <2> QED
      BY <2>1, <2>2
  <1> QED
    BY <1>1, <1>5, <1>6 DEF SaveInv

\* n is operation o later, in the same directory.
Kept(o, n) ==
    Busy(n) => /\ Busy(o)
               /\ n.kind = o.kind /\ n.created = o.created
               /\ n.pc # "init"
               /\ n.pc # "cleanup" => o.pc \notin {"init", "cleanup"}

LEMMA DirGoesOn ==
  ASSUME TypeOK, NEW p \in Procs, NEW n, Turns(p, n), Kept(op[p], n), dir' = dir
  PROVE  /\ DirInv => DirInv'
         /\ DirSeen => DirSeen'
         /\ (Retriable /\ (killed => killed')
               /\ (Cloning(op[p]) => Cloning(n) \/ killed')) => Retriable'
  <1>1. \A q \in Procs : op'[q] = IF q = p THEN n ELSE op[q]
    BY DEF TypeOK, Turns
  <1>2. given' = given
    BY DEF Turns
  <1>3. DirInv => DirInv'
    BY <1>2 DEF DirInv
  <1>4. ASSUME DirSeen PROVE DirSeen'
    <2>1. DirOK(n, dir)
      BY <1>4 DEF DirSeen, DirOK, Kept, Cloning, Busy
    <2> QED
      BY <1>1, <1>4, <2>1 DEF DirSeen, DirOK, Cloning, Busy
  <1>5. ASSUME Retriable, killed => killed', Cloning(op[p]) => Cloning(n) \/ killed'
        PROVE  Retriable'
    <2> SUFFICES ASSUME ~killed', given' # "directory"
                 PROVE  /\ \A q \in Procs : Cloning(op'[q]) => op'[q].created
                        /\ dir' = "half" => \E q \in Procs : Cloning(op'[q])
      BY DEF Retriable, Cloning, Busy
    <2>1. /\ \A q \in Procs : Cloning(op[q]) => op[q].created
          /\ dir = "half" => \E q \in Procs : Cloning(op[q])
      BY <1>2, <1>5 DEF Retriable
    <2>2. Cloning(n) => Cloning(op[p]) /\ n.created = op[p].created
      BY DEF Kept, Cloning
    <2> QED
      BY <1>1, <1>5, <2>1, <2>2
  <1> QED
    BY <1>3, <1>4, <1>5

LEMMA TypesGoOn ==
  ASSUME TypeOK, NEW p \in Procs, NEW n, GoesOn(p, n),
         dir' \in Paths, ops' \in 0 .. MaxOps,
         overlapped' \in BOOLEAN, killed' \in BOOLEAN
  PROVE  TypeOK'
  BY DEF TypeOK, GoesOn, Turns, Grows, files, Manifest

LEMMA GrowsKeepsManifest == ASSUME IInv, Grows(server') PROVE Manifest' # 0
  BY DEF IInv, Basic, TypeOK, Manifest, Grows

\* The steps inside an operation, but for those on files and directory.
LEMMA Continues ==
  ASSUME IInv, NEW p \in Procs, NEW n, GoesOn(p, n), OpOK(n, server'),
         Kept(op[p], n), UNCHANGED <<dir, ops>>,
         killed' \in BOOLEAN, killed => killed',
         Cloning(op[p]) => Cloning(n) \/ killed',
         overlapped' \in BOOLEAN, overlapped => overlapped',
         n.pc \notin {"write", "rename"},
         ~overlapped' => Enters(p, n),
         (~overlapped' /\ Quiet) => SaveOK(n, Loaded, server')
  PROVE  IInv'
  <1>1. TypeOK /\ OpInv /\ DirInv /\ Turns(p, n)
    BY DEF IInv, Basic, GoesOn
  <1>2. TypeOK'
    BY <1>1, TypesGoOn DEF TypeOK
  <1>3. OpInv' /\ DirInv'
    BY <1>1, OpsGoOn, DirGoesOn
  <1>5. Manifest' # 0
    BY GrowsKeepsManifest DEF GoesOn, Turns
  <1>4. ASSUME ~overlapped' PROVE Quiet'
    <2>1. Alone /\ DirSeen /\ SaveInv /\ Retriable
      BY <1>4 DEF IInv, Quiet
    <2>2. (Cloning(n) => Cloning(op[p])) /\ (Busy(n) => Busy(op[p]))
      BY DEF Kept, Cloning
    <2>3. Alone'
      BY <1>1, <1>4, <2>1, <2>2, AloneGoesOn
    <2>4. SaveInv'
      BY <1>1, <1>4, <2>1, SavesGoOn DEF Quiet
    <2>5. DirSeen' /\ Retriable'
      BY <1>1, <2>1, DirGoesOn
    <2> QED
      BY <2>3, <2>4, <2>5 DEF Quiet
  <1> QED
    BY <1>2, <1>3, <1>4, <1>5 DEF IInv, Basic

-----------------------------------------------------------------------------
(* Ends and failures *)

LEMMA IdleOK ==
  ASSUME NEW v, Len(v.sealed) \in Nat
  PROVE  OpOK(Idle, v)
  BY DEF OpOK, Idle

LEMMA FailedOK ==
  ASSUME NEW o \in Op, OpOK(o, server), o.fd = 0, TypeOK
  PROVE  /\ Failed(o) \in Op
         /\ OpOK(Failed(o), server)
         /\ Kept(o, Failed(o)) \/ ~Busy(o)
         /\ Cloning(o) => Cloning(Failed(o))
         /\ Failed(o).pc \in {"idle", "cleanup"}
  <1>1. CASE o.kind = "clone"
    <2>1. Failed(o) = [o EXCEPT !.pc = "cleanup"]
      BY <1>1 DEF Failed
    <2> QED
      BY <1>1, <2>1 DEF Op, PCs, OpOK, Kept, Cloning, Busy
  <1>2. CASE o.kind # "clone"
    <2>1. Failed(o) = Idle
      BY <1>2 DEF Failed
    <2>2. OpOK(Idle, server)
      BY IdleOK DEF TypeOK
    <2> QED
      BY <1>2, <2>1, <2>2, StateTypes DEF Kept, Cloning, Busy
  <1> QED
    BY <1>1, <1>2

LEMMA ServerBefore ==
  ASSUME IInv
  PROVE  /\ TypeOK /\ Grows(server) /\ Loaded \in State
         /\ server.key \in Nat /\ server.key <= MaxKey /\ MaxKey \in Nat
         /\ Len(server.sealed) \in Nat /\ Len(server.sealed) <= MaxManifest
         /\ overlapped \in BOOLEAN /\ killed \in BOOLEAN
  BY SameServer, LoadedType, WorkspaceAssumption
     DEF IInv, Basic, TypeOK, Keys, Manifest

LEMMA Before ==
  ASSUME IInv, NEW p \in Procs
  PROVE  /\ TypeOK /\ op[p] \in Op /\ OpOK(op[p], server) /\ Grows(server)
         /\ Loaded \in State /\ op[p].st \in State
         /\ server.key \in Nat /\ server.key <= MaxKey
         /\ Len(server.sealed) \in Nat /\ Len(server.sealed) <= MaxManifest
         /\ overlapped \in BOOLEAN /\ killed \in BOOLEAN
  BY ServerBefore DEF IInv, Basic, TypeOK, OpInv, Op

LEMMA KillStep == ASSUME IInv, NEW p \in Procs, Kill(p) PROVE IInv'
  <1>1. GoesOn(p, Idle) /\ OpOK(Idle, server') /\ Kept(op[p], Idle)
    BY Before, StateTypes, IdleOK DEF Kill, Become, GoesOn, Turns, Kept, Busy
  <1>2. SaveOK(Idle, Loaded, server') /\ Enters(p, Idle)
    BY StateTypes DEF SaveOK, Enters, Window
  <1> QED
    BY <1>1, <1>2, Before, StateTypes, Continues DEF Kill

LEMMA FailsStep == ASSUME IInv, NEW p \in Procs, Fails(p) PROVE IInv'
  <1> DEFINE n == Failed(op[p])
  <1>1. op[p].fd = 0 /\ Busy(op[p])
    BY Before DEF Fails, OpOK, Busy
  <1>2. GoesOn(p, n) /\ OpOK(n, server') /\ Kept(op[p], n)
    BY <1>1, Before, FailedOK DEF Fails, Become, GoesOn, Turns, history
  <1>3. n.pc \in {"idle", "cleanup"} /\ (Cloning(op[p]) => Cloning(n))
    BY <1>1, Before, FailedOK
  <1>4. SaveOK(n, Loaded, server') /\ Enters(p, n)
    BY <1>3 DEF SaveOK, Enters, Window
  <1> HIDE DEF n
  <1> QED
    BY <1>2, <1>3, <1>4, Before, Continues DEF Fails, history

-----------------------------------------------------------------------------
(* Load *)

\* What is common to the steps of Load.
LEMMA LoadStep ==
  ASSUME IInv, NEW p \in Procs, NEW n \in Op, Become(p, n),
         UNCHANGED <<server, dir, given, files, ops, killed>>,
         overlapped' = (overlapped \/ Windows(p) # {}),
         OpOK(n, server), Kept(op[p], n), Cloning(op[p]) => Cloning(n),
         n.pc \notin {"write", "rename"},
         Quiet => SaveOK(n, Loaded, server)
  PROVE  IInv'
  <1>1. GoesOn(p, n)
    BY Before DEF Become, GoesOn, Turns
  <1>2. ~overlapped' => Enters(p, n)
    BY DEF Enters
  <1> QED
    BY <1>1, <1>2, Before, Continues

LEMMA LoadKeysStep ==
  ASSUME IInv, NEW p \in Procs, LoadForKeys(p),
         UNCHANGED <<server, dir, given, files, ops, killed>>,
         overlapped' = (overlapped \/ Windows(p) # {})
  PROVE  IInv'
  <1> DEFINE o == op[p]
  <1>1. o \in Op /\ OpOK(o, server) /\ Loaded \in State /\ o.pc = "load" /\ o.round = "keys"
    BY Before DEF LoadForKeys, At
  <1>2. CASE o.key \in Loaded.keys
    <2> DEFINE n == [o EXCEPT !.round = "roster"]
    <2>1. Become(p, n) /\ n \in Op /\ n.pc = "load"
      BY <1>1, <1>2 DEF LoadForKeys, Op, Rounds
    <2>2. OpOK(n, server) /\ Kept(o, n) /\ (Cloning(o) => Cloning(n))
      BY <1>1 DEF OpOK, Kept, Cloning, Busy, Op
    <2>3. SaveOK(n, Loaded, server)
      BY <2>1 DEF SaveOK, Window
    <2> QED
      BY <2>1, <2>2, <2>3, LoadStep
  <1>3. CASE o.key \notin Loaded.keys
    <2> DEFINE s == [Loaded EXCEPT !.keys = @ \cup {o.key}]
               n == [o EXCEPT !.st = s, !.pc = "open"]
    <2>1. o.key \in Keys
      BY <1>1 DEF OpOK, Op, Keys
    <2>2. /\ s \in State /\ s.keys = Loaded.keys \cup {o.key}
          /\ s.roster = Loaded.roster /\ s.manifest = Loaded.manifest
      BY <1>1, <2>1 DEF State
    <2> HIDE DEF s
    <2>3. Become(p, n) /\ n \in Op /\ n.pc = "open" /\ n.st = s
      BY <1>1, <1>3, <2>2 DEF LoadForKeys, Op, PCs, s
    <2>4. OpOK(n, server) /\ Kept(o, n) /\ (Cloning(o) => Cloning(n))
      BY <1>1 DEF OpOK, Kept, Cloning, Busy, Op
    <2>5. Quiet => SaveOK(n, Loaded, server)
      BY <1>1, <2>2, <2>3 DEF SaveOK, Window, Covers, Behind, Quiet, SaveInv, State
    <2> HIDE DEF n
    <2> QED
      BY <2>3, <2>4, <2>5, LoadStep
  <1> QED
    BY <1>2, <1>3

\* An operation that loads and fails or ends.
LEMMA LoadEnds ==
  ASSUME IInv, NEW p \in Procs, op[p].pc \in {"load", "rotated"},
         \/ Become(p, Failed(op[p]))
         \/ Become(p, Idle) /\ op[p].kind # "clone",
         UNCHANGED <<server, dir, given, files, ops, killed>>,
         overlapped' = (overlapped \/ Windows(p) # {})
  PROVE  IInv'
  <1> DEFINE n == Failed(op[p])
  <1>1. op[p].fd = 0 /\ Busy(op[p])
    BY Before DEF OpOK, Busy
  <1>2. /\ n \in Op /\ OpOK(n, server) /\ Kept(op[p], n)
        /\ Cloning(op[p]) => Cloning(n)
        /\ n.pc \in {"idle", "cleanup"}
    BY <1>1, Before, FailedOK
  <1>3. Become(p, n)
    BY DEF Failed
  <1>4. SaveOK(n, Loaded, server)
    BY <1>2 DEF SaveOK, Window
  <1> HIDE DEF n
  <1> QED
    BY <1>2, <1>3, <1>4, LoadStep

\* An operation that loads and goes on without a Save.
LEMMA LoadMoves ==
  ASSUME IInv, NEW p \in Procs, op[p].pc = "load", NEW n \in Op, Become(p, n),
         UNCHANGED <<server, dir, given, files, ops, killed>>,
         overlapped' = (overlapped \/ Windows(p) # {}),
         \/ n = [op[p] EXCEPT !.round = "final"]
         \/ n = [op[p] EXCEPT !.pc = "checkout"] /\ op[p].kind = "clone"
  PROVE  IInv'
  <1>1. op[p] \in Op /\ OpOK(op[p], server)
    BY Before
  <1>2. OpOK(n, server) /\ Kept(op[p], n) /\ (Cloning(op[p]) => Cloning(n))
    BY <1>1 DEF OpOK, Kept, Cloning, Busy, Op
  <1>3. n.pc \in {"load", "checkout"}
    BY <1>1 DEF Op
  <1>4. SaveOK(n, Loaded, server)
    BY <1>3 DEF SaveOK, Window
  <1> QED
    BY <1>2, <1>3, <1>4, LoadStep

LEMMA LoadRosterStep ==
  ASSUME IInv, NEW p \in Procs, LoadForRoster(p),
         UNCHANGED <<server, dir, given, files, ops, killed>>,
         overlapped' = (overlapped \/ Windows(p) # {})
  PROVE  IInv'
  <1> DEFINE o == op[p]
  <1>1. o \in Op /\ OpOK(o, server) /\ Loaded \in State /\ o.pc = "load" /\ o.round = "roster"
    BY Before DEF LoadForRoster, At
  <1>2. PICK r \in 1 .. server.key :
          \/ Become(p, [o EXCEPT !.round = "final"])
          \/ Become(p, Failed(o))
          \/ /\ r # Loaded.roster
             /\ Loaded.roster = 0 \/ r = Loaded.roster + 1
             /\ Become(p, [o EXCEPT !.st = [Loaded EXCEPT !.roster = r], !.pc = "open"])
    BY DEF LoadForRoster
  <1>3. CASE Become(p, [o EXCEPT !.round = "final"])
    <2>1. [o EXCEPT !.round = "final"] \in Op
      BY <1>1 DEF Op, Rounds
    <2> QED
      BY <1>1, <1>3, <2>1, LoadMoves
  <1>4. CASE Become(p, Failed(o))
    BY <1>1, <1>4, LoadEnds
  <1>5. CASE /\ Loaded.roster = 0 \/ r = Loaded.roster + 1
             /\ Become(p, [o EXCEPT !.st = [Loaded EXCEPT !.roster = r], !.pc = "open"])
    <2> DEFINE s == [Loaded EXCEPT !.roster = r]
               n == [o EXCEPT !.st = s, !.pc = "open"]
    <2>1. r \in 0 .. MaxKey /\ r <= server.key /\ server.key \in Nat
      BY Before, WorkspaceAssumption
    <2>2. /\ s \in State /\ s.keys = Loaded.keys
          /\ s.roster = r /\ s.manifest = Loaded.manifest
      BY <1>1, <2>1 DEF State
    <2> HIDE DEF s
    <2>3. Become(p, n) /\ n \in Op /\ n.pc = "open" /\ n.st = s
      BY <1>1, <1>5, <2>2 DEF Op, PCs, s
    <2>4. OpOK(n, server) /\ Kept(o, n) /\ (Cloning(o) => Cloning(n))
      BY <1>1 DEF OpOK, Kept, Cloning, Busy, Op
    <2>5. Quiet => SaveOK(n, Loaded, server)
      BY <1>1, <1>5, <2>1, <2>2, <2>3
         DEF SaveOK, Window, Covers, Behind, Quiet, SaveInv, State
    <2> HIDE DEF n
    <2> QED
      BY <2>3, <2>4, <2>5, LoadStep
  <1> QED
    BY <1>2, <1>3, <1>4, <1>5

LEMMA LoadFetchStep ==
  ASSUME IInv, NEW p \in Procs, LoadForFetch(p),
         UNCHANGED <<server, dir, given, files, ops, killed>>,
         overlapped' = (overlapped \/ Windows(p) # {})
  PROVE  IInv'
  <1> DEFINE o == op[p]
  <1>1. /\ o \in Op /\ OpOK(o, server) /\ Loaded \in State
        /\ o.pc = "load" /\ o.round = "final" /\ o.kind \in {"clone", "fetch"}
    BY Before DEF LoadForFetch, At
  <1>2. PICK m \in 1 .. Manifest :
          \/ /\ Loaded.manifest = 0 \/ m = Loaded.manifest + 1
             /\ Become(p, [o EXCEPT !.st = Loaded, !.manifest = m, !.pc = "work"])
          \/ Become(p, IF o.kind = "clone" THEN [o EXCEPT !.pc = "checkout"] ELSE Idle)
          \/ Become(p, Failed(o))
    BY DEF LoadForFetch
  <1>3. CASE Become(p, IF o.kind = "clone" THEN [o EXCEPT !.pc = "checkout"] ELSE Idle)
    <2>1. [o EXCEPT !.pc = "checkout"] \in Op
      BY <1>1 DEF Op, PCs
    <2> QED
      BY <1>1, <1>3, <2>1, LoadMoves, LoadEnds
  <1>4. CASE Become(p, Failed(o))
    BY <1>1, <1>4, LoadEnds
  <1>5. CASE /\ Loaded.manifest = 0 \/ m = Loaded.manifest + 1
             /\ Become(p, [o EXCEPT !.st = Loaded, !.manifest = m, !.pc = "work"])
    <2> DEFINE n == [o EXCEPT !.st = Loaded, !.manifest = m, !.pc = "work"]
    <2>1. m \in 0 .. MaxManifest /\ m <= Len(server.sealed) /\ Len(server.sealed) \in Nat
      BY Before, WorkspaceAssumption DEF Manifest
    <2>2. /\ Become(p, n) /\ n \in Op /\ n.pc = "work" /\ n.st = Loaded
          /\ n.manifest = m /\ n.kind = o.kind
      BY <1>1, <1>5, <2>1 DEF Op, PCs
    <2>3. OpOK(n, server) /\ Kept(o, n) /\ (Cloning(o) => Cloning(n))
      BY <1>1, <2>1 DEF OpOK, Kept, Cloning, Busy, Op
    <2>4. Quiet => SaveOK(n, Loaded, server)
      BY <1>1, <1>5, <2>1, <2>2
         DEF SaveOK, Window, Covers, Behind, Quiet, SaveInv, State
    <2> HIDE DEF n
    <2> QED
      BY <2>2, <2>3, <2>4, LoadStep
  <1> QED
    BY <1>2, <1>3, <1>4, <1>5

\* Push and RemoveMember.
LEMMA LoadOtherStep ==
  ASSUME IInv, NEW p \in Procs, LoadForPush(p) \/ LoadForRemove(p),
         UNCHANGED <<server, dir, given, files, ops, killed>>,
         overlapped' = (overlapped \/ Windows(p) # {})
  PROVE  IInv'
  <1> DEFINE o == op[p]
             n == [o EXCEPT !.st = Loaded, !.pc = "work"]
  <1>1. /\ o \in Op /\ OpOK(o, server) /\ Loaded \in State
        /\ \/ o.pc = "load" /\ o.kind = "push"
           \/ o.pc = "rotated" /\ o.kind = "remove"
    BY Before DEF LoadForPush, LoadForRemove, At, OpOK
  <1>2. Become(p, n) /\ n \in Op /\ n.pc = "work" /\ n.st = Loaded /\ n.kind = o.kind
        /\ n.key = o.key
    BY <1>1 DEF LoadForPush, LoadForRemove, Op, PCs
  <1>3. OpOK(n, server) /\ Kept(o, n) /\ (Cloning(o) => Cloning(n))
    BY <1>1 DEF OpOK, Kept, Cloning, Busy, Op
  <1>4. Quiet => SaveOK(n, Loaded, server)
    <2> SUFFICES ASSUME Quiet PROVE SaveOK(n, Loaded, server)
      OBVIOUS
    <2>1. SaveOK(o, Loaded, server) /\ Behind(Loaded, server)
      BY DEF Quiet, SaveInv
    <2>2. o.kind = "remove" => Loaded.roster <= o.key
      BY <1>1, <2>1 DEF SaveOK
    <2>3. Covers(Loaded, Loaded)
      BY <1>1 DEF Covers, State
    <2> HIDE DEF n
    <2> QED
      BY <1>1, <1>2, <2>1, <2>2, <2>3 DEF SaveOK, Window
  <1> HIDE DEF n
  <1> QED
    BY <1>2, <1>3, <1>4, LoadStep

LEMMA LoadIsAStep == ASSUME IInv, NEW p \in Procs, Load(p) PROVE IInv'
  <1>1. UNCHANGED <<server, dir, given, files, ops, killed>>
        /\ overlapped' = (overlapped \/ Windows(p) # {})
    BY DEF Load
  <1>2. CASE LoadFails(p)
    BY <1>1, <1>2, LoadEnds DEF LoadFails
  <1> QED
    BY <1>1, <1>2, LoadKeysStep, LoadRosterStep, LoadFetchStep, LoadOtherStep DEF Load

-----------------------------------------------------------------------------
(* Work *)

LEMMA SealedGrows ==
  ASSUME IInv, NEW k \in Keys, Manifest < MaxManifest, server' = Sealed(k)
  PROVE  /\ Grows(server')
         /\ server'.key = server.key
         /\ Len(server'.sealed) = Len(server.sealed) + 1
  <1>1. server \in [key : Keys, sealed : Seq(Keys)] /\ MaxManifest \in Nat
    BY WorkspaceAssumption DEF IInv, Basic, TypeOK
  <1>2. /\ Append(server.sealed, k) \in Seq(Keys)
        /\ Len(Append(server.sealed, k)) = Len(server.sealed) + 1
        /\ Len(server.sealed) \in Nat
    BY <1>1
  <1>3. /\ server' \in [key : Keys, sealed : Seq(Keys)]
        /\ server'.key = server.key /\ server'.sealed = Append(server.sealed, k)
    BY <1>1, <1>2 DEF Sealed
  <1>4. server.key \in Nat /\ Len(server.sealed) < MaxManifest
    BY <1>1 DEF Keys, Manifest
  <1> QED
    BY <1>1, <1>2, <1>3, <1>4 DEF Grows

LEMMA KeyGrows ==
  ASSUME IInv, server.key < MaxKey, server' = [server EXCEPT !.key = @ + 1]
  PROVE  /\ Grows(server')
         /\ server'.key = server.key + 1
         /\ server'.sealed = server.sealed
  <1>1. server \in [key : Keys, sealed : Seq(Keys)] /\ MaxKey \in Nat
    BY WorkspaceAssumption DEF IInv, Basic, TypeOK
  <1>2. server.key \in Nat /\ server.key + 1 \in Keys
    BY <1>1 DEF Keys
  <1>3. /\ server' \in [key : Keys, sealed : Seq(Keys)]
        /\ server'.key = server.key + 1 /\ server'.sealed = server.sealed
    BY <1>1, <1>2
  <1> QED
    <2>1. Len(server.sealed) <= Len(server.sealed) /\ server.key <= server.key + 1
      BY <1>2, ServerBefore
    <2> QED
      BY <2>1, <1>3, ServerBefore DEF Grows

LEMMA RotateStep == ASSUME IInv, NEW p \in Procs, Rotate(p) PROVE IInv'
  <1> DEFINE o == op[p]
             n == [o EXCEPT !.pc = "rotated"]
  <1>1. /\ o \in Op /\ OpOK(o, server) /\ o.pc = "load" /\ o.kind = "remove"
        /\ server.key = o.key
    BY Before DEF Rotate, At
  <1>2. Grows(server') /\ server'.key = server.key + 1 /\ server'.sealed = server.sealed
    BY KeyGrows DEF Rotate
  <1>3. GoesOn(p, n) /\ n.pc = "rotated" /\ n.key = o.key /\ n.kind = "remove"
    BY <1>1, <1>2 DEF Rotate, Moves, Become, GoesOn, Turns, Op, PCs
  <1>4. OpOK(n, server') /\ Kept(o, n) /\ (Cloning(o) => Cloning(n))
    BY <1>1, <1>2, <1>3, Before DEF OpOK, Kept, Cloning, Busy, Op
  <1>5. Quiet => SaveOK(n, Loaded, server')
    BY <1>1, <1>3 DEF SaveOK, Window, Quiet, SaveInv, Behind
  <1>6. ~overlapped' => Enters(p, n)
    BY DEF Enters, Rotate
  <1> HIDE DEF n
  <1> QED
    BY <1>3, <1>4, <1>5, <1>6, Before, Continues DEF Rotate

LEMMA ImportStep == ASSUME IInv, NEW p \in Procs, Import(p) PROVE IInv'
  <1> DEFINE o == op[p]
             s == [o.st EXCEPT !.manifest = o.manifest]
             n == [o EXCEPT !.st = s, !.pc = "open"]
  <1>1. /\ o \in Op /\ OpOK(o, server) /\ o.st \in State /\ Loaded \in State
        /\ o.pc = "work" /\ o.kind \in {"clone", "fetch"}
    BY Before DEF Import, At
  <1>2. /\ s \in State /\ s.keys = o.st.keys /\ s.roster = o.st.roster
        /\ s.manifest = o.manifest
    BY <1>1 DEF State, Op
  <1>3. op' = [op EXCEPT ![p] = n]
    BY <1>1 DEF Import, Become, Op
  <1> HIDE DEF s
  <1>4. GoesOn(p, n) /\ n.pc = "open" /\ n.st = s
    BY <1>1, <1>2, <1>3, Before DEF Import, GoesOn, Turns, Op, PCs
  <1>5. OpOK(n, server') /\ Kept(o, n) /\ (Cloning(o) => Cloning(n))
    BY <1>1 DEF Import, OpOK, Kept, Cloning, Busy, Op
  <1>6. Quiet => SaveOK(n, Loaded, server)
    <2> SUFFICES ASSUME Quiet PROVE SaveOK(n, Loaded, server)
      OBVIOUS
    <2>1. SaveOK(o, Loaded, server)
      BY DEF Quiet, SaveInv
    <2>2. Covers(o.st, Loaded) /\ Behind(o.st, server) /\ o.st.manifest <= o.manifest
      BY <1>1, <2>1 DEF SaveOK, Window
    <2>3. Covers(s, Loaded) /\ Behind(s, server)
      BY <1>1, <1>2, <2>2 DEF Covers, Behind, State, OpOK, Op
    <2> QED
      BY <1>4, <2>3 DEF SaveOK
  <1>7. Enters(p, n)
    BY <1>1 DEF Enters, Window
  <1> HIDE DEF n
  <1> QED
    BY <1>4, <1>5, <1>6, <1>7, Before, Continues DEF Import, history

LEMMA PublishStep ==
  ASSUME IInv, NEW p \in Procs, Publish(p) \/ PublishConflicts(p)
  PROVE  IInv'
  <1> DEFINE o == op[p]
             s == [o.st EXCEPT !.manifest = Manifest + 1]
             t == IF Publish(p) THEN s ELSE o.st
             n == IF Publish(p) THEN [o EXCEPT !.st = s, !.pc = "open"]
                  ELSE [o EXCEPT !.round = "again", !.pc = "open"]
  <1>1. /\ o \in Op /\ OpOK(o, server) /\ o.st \in State /\ Loaded \in State
        /\ o.pc = "work" /\ o.kind = "push"
    BY Before DEF Publish, PublishConflicts, At
  <1>2. /\ Grows(server') /\ server'.key = server.key
        /\ Len(server'.sealed) = Len(server.sealed) + 1
    <2>1. o.key \in Keys
      BY <1>1 DEF OpOK, Op, Keys
    <2> QED
      BY <2>1, SealedGrows DEF Publish, PublishConflicts
  <1>3. /\ t \in State /\ t.keys = o.st.keys /\ t.roster = o.st.roster
        /\ t.manifest \in {o.st.manifest, Len(server.sealed) + 1}
    <2>1. TypeOK /\ Manifest < MaxManifest
      BY Before DEF Publish, PublishConflicts
    <2>2. Len(server.sealed) + 1 \in 0 .. MaxManifest
      BY <2>1, WorkspaceAssumption DEF TypeOK, Manifest
    <2> QED
      BY <1>1, <2>2 DEF State, Manifest
  <1>4. op' = [op EXCEPT ![p] = n]
    BY <1>1 DEF Publish, PublishConflicts, Become, Op
  <1>5. n \in Op /\ n.pc = "open" /\ n.st = t /\ n.kind = "push"
        /\ n.key = o.key /\ n.manifest = o.manifest /\ n.created = o.created /\ n.fd = o.fd
    BY <1>1, <1>3 DEF Op, PCs, Rounds
  <1> HIDE DEF n, t
  <1>6. GoesOn(p, n)
    BY <1>2, <1>4, <1>5 DEF Publish, PublishConflicts, GoesOn, Turns
  <1>7. OpOK(n, server') /\ Kept(o, n) /\ (Cloning(o) => Cloning(n))
    BY <1>1, <1>2, <1>5, Before DEF OpOK, Kept, Cloning, Busy, Op
  <1>8. Quiet => SaveOK(n, Loaded, server')
    <2> SUFFICES ASSUME Quiet PROVE SaveOK(n, Loaded, server')
      OBVIOUS
    <2>1. SaveOK(o, Loaded, server) /\ Behind(Loaded, server)
      BY DEF Quiet, SaveInv
    <2>2. Covers(o.st, Loaded) /\ Behind(o.st, server)
      BY <1>1, <2>1 DEF SaveOK, Window
    <2>3. Covers(t, Loaded) /\ Behind(t, server')
      BY <1>1, <1>2, <1>3, <2>1, <2>2, Before DEF Covers, Behind, State
    <2> QED
      BY <1>5, <2>3 DEF SaveOK
  <1>9. Enters(p, n)
    BY <1>1 DEF Enters, Window
  <1> QED
    BY <1>5, <1>6, <1>7, <1>8, <1>9, Before, Continues DEF Publish, PublishConflicts, history

LEMMA RepublishStep == ASSUME IInv, NEW p \in Procs, Republish(p) PROVE IInv'
  <1> DEFINE o == op[p]
             s == [keys |-> o.st.keys \cup {o.key + 1}, roster |-> o.key + 1,
                   manifest |-> Manifest + 1]
             n == [o EXCEPT !.pc = "open", !.st = s]
  <1>1. /\ o \in Op /\ OpOK(o, server) /\ o.st \in State /\ Loaded \in State
        /\ o.pc = "work" /\ o.kind = "remove" /\ o.key < server.key
        /\ o.key + 1 \in Keys
    BY Before, WorkspaceAssumption DEF Republish, At, OpOK, Op, Keys
  <1>2. /\ Grows(server') /\ server'.key = server.key
        /\ Len(server'.sealed) = Len(server.sealed) + 1
    BY <1>1, SealedGrows DEF Republish
  <1>3. /\ s \in State /\ o.st.keys \subseteq s.keys /\ s.roster = o.key + 1
        /\ s.manifest = Len(server.sealed) + 1
    BY <1>1, Before, WorkspaceAssumption DEF State, Republish, Manifest, Keys
  <1> HIDE DEF s
  <1>4. n \in Op /\ n.pc = "open" /\ n.st = s /\ n.kind = "remove"
    BY <1>1, <1>3 DEF Op, PCs
  <1>5. GoesOn(p, n)
    BY <1>2, <1>4 DEF Republish, Become, GoesOn, Turns, s
  <1>6. OpOK(n, server') /\ Kept(o, n) /\ (Cloning(o) => Cloning(n))
    BY <1>1, <1>2, <1>4, Before DEF OpOK, Kept, Cloning, Busy, Op
  <1>7. Quiet => SaveOK(n, Loaded, server')
    <2> SUFFICES ASSUME Quiet PROVE SaveOK(n, Loaded, server')
      OBVIOUS
    <2>1. SaveOK(o, Loaded, server) /\ Behind(Loaded, server)
      BY DEF Quiet, SaveInv
    <2>2. Covers(o.st, Loaded) /\ o.st.roster <= o.key
      BY <1>1, <2>1 DEF SaveOK, Window
    <2>3. Covers(s, Loaded) /\ Behind(s, server')
      BY <1>1, <1>2, <1>3, <2>1, <2>2, Before DEF Covers, Behind, State, Op
    <2> HIDE DEF n
    <2> QED
      BY <1>4, <2>3 DEF SaveOK
  <1>8. Enters(p, n)
    BY <1>1 DEF Enters, Window
  <1> HIDE DEF n
  <1> QED
    BY <1>4, <1>5, <1>6, <1>7, <1>8, Before, Continues DEF Republish, history


-----------------------------------------------------------------------------
(* The other members, and beginnings *)

\* A step that leaves the operations alone is a step of each of them.
LEMMA OthersStep == ASSUME IInv, OtherPublishes \/ OtherRotates PROVE IInv'
  <1>1. UNCHANGED <<dir, given, files, op, ops, history>>
    BY DEF OtherPublishes, OtherRotates
  <1>2. Grows(server')
    <2>1. CASE OtherRotates
      BY <2>1, KeyGrows DEF OtherRotates
    <2>2. CASE OtherPublishes
      <3>1. PICK k \in {server.sealed[Manifest], server.sealed[Manifest] + 1} :
              k <= server.key /\ Manifest < MaxManifest /\ server' = Sealed(k)
        BY <2>2 DEF OtherPublishes
      <3>2. k \in Keys
        <4>1. server.sealed \in Seq(Keys) /\ Manifest \in 1 .. Len(server.sealed)
          BY DEF IInv, Basic, TypeOK, Manifest
        <4>2. server.sealed[Manifest] \in Keys
          BY <4>1
        <4> QED
          BY <3>1, <4>2, ServerBefore DEF Keys
      <3> QED
        BY <3>1, <3>2, SealedGrows
    <2> QED
      BY <1>1, <2>1, <2>2
  <1>3. TypeOK'
    BY <1>1, <1>2 DEF IInv, Basic, TypeOK, Grows, Manifest, files, history
  <1>4. OpInv'
    <2> SUFFICES ASSUME NEW p \in Procs PROVE OpOK(op[p], server)'
      BY DEF OpInv
    <2>1. OpOK(op[p], server')
      BY <1>2, Before, GrowsKeepsOp
    <2> QED
      BY <1>1, <2>1 DEF OpOK
  <1>5. DirInv' /\ Manifest' # 0
    BY <1>1, <1>2, GrowsKeepsManifest DEF IInv, Basic, DirInv
  <1>6. ASSUME ~overlapped' PROVE Quiet'
    <2>1. Quiet
      BY <1>1, <1>6 DEF IInv, history
    <2>2. Alone' /\ DirSeen' /\ Retriable'
      BY <1>1, <2>1 DEF Quiet, Alone, DirSeen, DirOK, Retriable, Cloning, Busy, history
    <2>3. Loaded' = Loaded /\ (Readable => Readable')
      BY <1>1 DEF files, Loaded, Readable
    <2>4. SaveInv'
      <3>1. Behind(Loaded, server)'
        BY <1>2, <2>1, <2>3, LoadedType, GrowsKeepsSave
           DEF IInv, Basic, Quiet, SaveInv, Behind
      <3>2. ASSUME NEW p \in Procs PROVE (SaveOK(op[p], Loaded, server) /\ FileOK(op[p]))'
        <4>1. SaveOK(op[p], Loaded, server')
          BY <1>2, <2>1, Before, GrowsKeepsSave DEF Quiet, SaveInv
        <4> QED
          BY <1>1, <2>1, <2>3, <4>1 DEF Quiet, SaveInv, SaveOK, FileOK, files
      <3> QED
        BY <2>1, <2>3, <3>1, <3>2 DEF Quiet, SaveInv
    <2> QED
      BY <2>2, <2>4 DEF Quiet
  <1> QED
    BY <1>3, <1>4, <1>5, <1>6 DEF IInv, Basic

\* Alone, whoever runs a clone.
LEMMA CloneAlone ==
  ASSUME Alone, NEW p \in Procs, Cloning(op[p])
  PROVE  \A q \in Procs \ {p} : ~Busy(op[q])
  BY DEF Alone

LEMMA NotBusyOK ==
  ASSUME NEW o, ~Busy(o)
  PROVE  /\ \A d : DirOK(o, d)
         /\ \A l, v : SaveOK(o, l, v)
         /\ o.pc \notin Window /\ ~Cloning(o)
         /\ o.pc = "idle"
  BY DEF DirOK, SaveOK, Busy, Cloning, Window

LEMMA BeginCloneStep == ASSUME IInv, NEW p \in Procs, BeginClone(p) PROVE IInv'
  <1> DEFINE n == [Idle EXCEPT !.pc = "init", !.kind = "clone",
                               !.created = (dir # "empty")]
  <1>1. /\ TypeOK /\ OpInv /\ DirInv /\ Manifest # 0
        /\ op[p].pc = "idle" /\ dir \in Unused
        /\ UNCHANGED <<server, dir, given, files, killed>>
    BY DEF IInv, Basic, BeginClone, At
  <1>2. /\ n \in Op /\ n.pc = "init" /\ n.kind = "clone"
        /\ n.created = (dir # "empty") /\ n.fd = 0 /\ n.key = 0 /\ n.manifest = 0
        /\ n.round = "keys"
    BY StateTypes DEF Idle, Op, PCs, Kinds, Rounds
  <1>3. op' = [op EXCEPT ![p] = n]
    BY DEF BeginClone, Become
  <1> HIDE DEF n
  <1>4. GoesOn(p, n) /\ Turns(p, n)
    BY <1>1, <1>2, <1>3, Before DEF GoesOn, Turns
  <1>5. OpOK(n, server')
    <2>1. n.created => given # "directory"
      BY <1>1, <1>2 DEF DirInv, Unused
    <2>2. n.manifest <= Len(server'.sealed)
      BY <1>1, <1>2, Before
    <2> QED
      BY <1>2, <2>1, <2>2 DEF OpOK
  <1>6. TypeOK' /\ OpInv' /\ DirInv' /\ Manifest' # 0
    <2>1. ops' \in 0 .. MaxOps /\ overlapped' \in BOOLEAN /\ killed' \in BOOLEAN
      BY <1>1, Before, WorkspaceAssumption DEF BeginClone, TypeOK
    <2> QED
      BY <1>1, <1>4, <1>5, <2>1, TypesGoOn, OpsGoOn DEF TypeOK, DirInv, Manifest
  <1>7. ASSUME ~overlapped' PROVE Quiet'
    <2>1. Quiet /\ \A q \in Procs \ {p} : ~Busy(op[q])
      BY <1>7, Before DEF BeginClone, IInv, Others, Busy, At
    <2>2. \A q \in Procs : op'[q] = IF q = p THEN n ELSE op[q]
      BY <1>1, <1>3 DEF TypeOK
    <2>3. Alone'
      BY <1>2, <2>1, <2>2, NotBusyOK DEF Alone, Cloning, Busy, Window
    <2>4. DirSeen'
      BY <1>1, <1>2, <2>1, <2>2, NotBusyOK DEF DirSeen, DirOK, Cloning, Busy, Unused
    <2>5. SaveInv'
      <3>1. SaveOK(n, Loaded, server')
        BY <1>2 DEF SaveOK, Window
      <3> QED
        BY <1>1, <1>2, <1>4, <2>1, <3>1, SavesGoOn DEF Quiet
    <2>6. Retriable'
      BY <1>1, <1>2, <2>1, <2>2, NotBusyOK DEF Retriable, Cloning, Busy, DirInv, Unused
    <2> QED
      BY <2>3, <2>4, <2>5, <2>6 DEF Quiet
  <1> QED
    BY <1>6, <1>7 DEF IInv, Basic

LEMMA BeginOtherStep == ASSUME IInv, NEW p \in Procs, BeginOther(p) PROVE IInv'
  <1>0. PICK what \in {"fetch", "push", "remove"}, k \in 1 .. server.key :
          Become(p, [Idle EXCEPT !.pc = "load", !.kind = what, !.key = k])
    BY DEF BeginOther
  <1> DEFINE n == [Idle EXCEPT !.pc = "load", !.kind = what, !.key = k]
  <1>1. /\ TypeOK /\ OpInv /\ DirInv /\ Manifest # 0
        /\ op[p].pc = "idle" /\ dir = "cloned"
        /\ UNCHANGED <<server, dir, given, files, killed>>
    BY DEF IInv, Basic, BeginOther, At
  <1>2. /\ n \in Op /\ n.pc = "load" /\ n.kind \in {"fetch", "push", "remove"}
        /\ ~n.created /\ n.fd = 0 /\ n.key # 0 /\ n.manifest = 0
        /\ n.round = "keys"
    <2>1. k \in 0 .. MaxKey /\ k # 0
      BY Before, WorkspaceAssumption
    <2> QED
      BY <2>1, StateTypes DEF Idle, Op, PCs, Kinds, Rounds
  <1>3. op' = [op EXCEPT ![p] = n]
    BY <1>0 DEF Become
  <1> HIDE DEF n
  <1>4. GoesOn(p, n) /\ Turns(p, n)
    BY <1>1, <1>2, <1>3, Before DEF GoesOn, Turns
  <1>5. OpOK(n, server')
    BY <1>1, <1>2, Before DEF OpOK
  <1>6. TypeOK' /\ OpInv' /\ DirInv' /\ Manifest' # 0
    <2>1. ops' \in 0 .. MaxOps /\ overlapped' \in BOOLEAN /\ killed' \in BOOLEAN
      BY <1>1, Before, WorkspaceAssumption DEF BeginOther, TypeOK
    <2> QED
      BY <1>1, <1>4, <1>5, <2>1, TypesGoOn, OpsGoOn DEF TypeOK, DirInv, Manifest
  <1>7. ASSUME ~overlapped' PROVE Quiet'
    <2>1. Quiet /\ \A q \in Procs \ {p} : ~Cloning(op[q])
      BY <1>7, Before DEF BeginOther, IInv, Others, Busy, Cloning, At
    <2>2. \A q \in Procs : op'[q] = IF q = p THEN n ELSE op[q]
      BY <1>1, <1>3 DEF TypeOK
    <2>3. ~Cloning(n) /\ n.pc \notin Window
      BY <1>2 DEF Cloning, Window
    <2>4. Alone'
      <3> SUFFICES ASSUME NEW q \in Procs, NEW r \in Procs, q # r
                   PROVE  /\ Cloning(op'[q]) => ~Busy(op'[r])
                          /\ op'[q].pc \in Window => op'[r].pc \notin Window
        BY DEF Alone, Cloning, Busy
      <3> QED
        BY <2>1, <2>2, <2>3 DEF Quiet, Alone
    <2>5. DirSeen'
      BY <1>1, <1>2, <2>1, <2>2, <2>3 DEF DirSeen, DirOK, Cloning, Busy, Quiet
    <2>6. SaveInv'
      <3>1. SaveOK(n, Loaded, server')
        BY <1>2 DEF SaveOK, Window
      <3> QED
        BY <1>1, <1>2, <1>4, <2>1, <3>1, SavesGoOn DEF Quiet
    <2>7. Retriable'
      BY <1>1, <2>1, <2>2, <2>3 DEF Retriable, Cloning, Busy
    <2> QED
      BY <2>4, <2>5, <2>6, <2>7 DEF Quiet
  <1> QED
    BY <1>6, <1>7 DEF IInv, Basic

-----------------------------------------------------------------------------
(* The directory *)

LEMMA GitInitStep == ASSUME IInv, NEW p \in Procs, GitInit(p) PROVE IInv'
  <1> DEFINE o == op[p]
  <1>0. PICK k \in 1 .. server.key : Become(p, [o EXCEPT !.pc = "load", !.key = k])
    BY DEF GitInit
  <1> DEFINE n == [o EXCEPT !.pc = "load", !.key = k]
  <1>1. /\ TypeOK /\ OpInv /\ DirInv /\ Manifest # 0
        /\ o \in Op /\ OpOK(o, server) /\ o.pc = "init" /\ o.kind = "clone"
        /\ UNCHANGED <<server, given, files, ops, history>>
        /\ dir' = IF dir = "cloned" THEN dir ELSE "half"
    BY Before DEF IInv, Basic, GitInit, At, OpOK
  <1>2. /\ n \in Op /\ n.pc = "load" /\ n.kind = "clone" /\ n.key # 0
        /\ n.created = o.created
    <2>1. k \in 0 .. MaxKey /\ k # 0
      BY Before, WorkspaceAssumption
    <2> QED
      BY <1>1, <2>1 DEF Op, PCs
  <1>3. GoesOn(p, n) /\ Turns(p, n)
    BY <1>0, <1>1, <1>2, Before DEF GoesOn, Turns, Become
  <1>4. OpOK(n, server')
    BY <1>1, <1>2 DEF OpOK, Op
  <1> HIDE DEF n
  <1>5. TypeOK' /\ OpInv' /\ DirInv' /\ Manifest' # 0
    <2>1. /\ ops' \in 0 .. MaxOps /\ overlapped' \in BOOLEAN /\ killed' \in BOOLEAN
          /\ dir' \in Paths
      BY <1>1 DEF TypeOK, Paths, history
    <2> QED
      BY <1>1, <1>3, <1>4, <2>1, TypesGoOn, OpsGoOn DEF DirInv, Manifest
  <1>6. ASSUME ~overlapped' PROVE Quiet'
    <2>1. Quiet
      BY <1>1, <1>6 DEF IInv, history
    <2>2. \A q \in Procs \ {p} : ~Busy(op[q])
      BY <1>1, <2>1, CloneAlone DEF Quiet, Cloning, Busy
    <2>3. \A q \in Procs : op'[q] = IF q = p THEN n ELSE op[q]
      BY <1>1, <1>3 DEF TypeOK, Turns
    <2>4. dir' = "half"
      BY <1>1, <2>1 DEF Quiet, DirSeen, DirOK, Cloning, Busy
    <2>5. Alone'
      BY <1>2, <2>2, <2>3, NotBusyOK DEF Alone, Cloning, Busy, Window
    <2>6. DirSeen'
      BY <1>2, <2>2, <2>3, <2>4, NotBusyOK DEF DirSeen, DirOK, Cloning, Busy
    <2>7. SaveInv'
      <3>1. SaveOK(n, Loaded, server')
        BY <1>2 DEF SaveOK, Window
      <3> QED
        BY <1>1, <1>2, <1>3, <2>1, <3>1, SavesGoOn DEF Quiet
    <2>8. Retriable'
      BY <1>1, <1>2, <2>1, <2>2, <2>3, NotBusyOK
         DEF Quiet, Retriable, Cloning, Busy, history
    <2> QED
      BY <2>5, <2>6, <2>7, <2>8 DEF Quiet
  <1> QED
    BY <1>5, <1>6 DEF IInv, Basic

LEMMA CheckoutStep == ASSUME IInv, NEW p \in Procs, Checkout(p) PROVE IInv'
  <1> DEFINE o == op[p]
  <1>1. /\ TypeOK /\ OpInv /\ DirInv /\ Manifest # 0
        /\ OpOK(o, server) /\ o.pc = "checkout" /\ o.kind = "clone"
        /\ UNCHANGED <<server, given, files, ops, history>>
        /\ dir' = "cloned"
    BY Before DEF IInv, Basic, Checkout, At, OpOK
  <1>2. GoesOn(p, Idle) /\ Turns(p, Idle) /\ OpOK(Idle, server')
    BY <1>1, Before, StateTypes, IdleOK DEF GoesOn, Turns, Become, Checkout
  <1>3. TypeOK' /\ OpInv' /\ DirInv' /\ Manifest' # 0
    <2>1. /\ ops' \in 0 .. MaxOps /\ overlapped' \in BOOLEAN /\ killed' \in BOOLEAN
          /\ dir' \in Paths
      BY <1>1 DEF TypeOK, history, Paths
    <2> QED
      BY <1>1, <1>2, <2>1, TypesGoOn, OpsGoOn DEF DirInv, Manifest
  <1>4. ASSUME ~overlapped' PROVE Quiet'
    <2>1. Quiet
      BY <1>1, <1>4 DEF IInv, history
    <2>2. \A q \in Procs : ~Busy(op'[q])
      BY <1>1, <1>2, <2>1, CloneAlone, StateTypes DEF TypeOK, Turns, Quiet, Cloning, Busy
    <2>3. Alone' /\ DirSeen' /\ Retriable'
      BY <1>1, <2>2, NotBusyOK DEF Alone, DirSeen, DirOK, Retriable, Cloning, Busy, Window
    <2>4. SaveInv'
      <3>1. SaveOK(Idle, Loaded, server') /\ Idle.pc \notin {"write", "rename"}
        BY StateTypes, NotBusyOK DEF Busy
      <3> QED
        BY <1>1, <1>2, <2>1, <3>1, SavesGoOn DEF Quiet
    <2> QED
      BY <2>3, <2>4 DEF Quiet
  <1> QED
    BY <1>3, <1>4 DEF IInv, Basic

LEMMA CleanupStep == ASSUME IInv, NEW p \in Procs, Cleanup(p) PROVE IInv'
  <1> DEFINE o == op[p]
  <1>1. /\ TypeOK /\ OpInv /\ DirInv /\ Manifest # 0
        /\ OpOK(o, server) /\ o.pc = "cleanup" /\ o.kind = "clone"
        /\ UNCHANGED <<server, given, inode, ops, history>>
    BY Before DEF IInv, Basic, Cleanup, At, OpOK
  <1>2. \/ o.created /\ dir' = "absent" /\ stateName' = 0 /\ tmpName' = 0
        \/ ~o.created /\ UNCHANGED <<dir, stateName, tmpName>>
    BY <1>1, Before DEF Cleanup, Op
  <1>3. Turns(p, Idle) /\ OpOK(Idle, server')
    BY <1>1, Before, StateTypes, IdleOK DEF Turns, Become, Cleanup
  <1>4. TypeOK'
    BY <1>1, <1>2, <1>3 DEF TypeOK, Turns, Manifest, history, Paths
  <1>5. OpInv' /\ DirInv' /\ Manifest' # 0
    BY <1>1, <1>2, <1>3, OpsGoOn DEF DirInv, OpOK, Manifest
  <1>6. ASSUME ~overlapped' PROVE Quiet'
    <2>1. Quiet
      BY <1>1, <1>6 DEF IInv, history
    <2>2. \A q \in Procs : ~Busy(op'[q])
      BY <1>1, <1>3, <2>1, CloneAlone, StateTypes DEF TypeOK, Turns, Quiet, Cloning, Busy
    <2>3. Alone' /\ DirSeen'
      BY <2>2, NotBusyOK DEF Alone, DirSeen, DirOK, Cloning, Busy, Window
    <2>4. Retriable'
      BY <1>1, <1>2, <2>1, <2>2 DEF Quiet, Retriable, Cloning, Busy, history
    <2>5. Readable' /\ Behind(Loaded, server)'
      <3>1. CASE stateName' = 0
        <4>1. Loaded' = NoState
          BY <3>1 DEF Loaded
        <4> QED
          BY <1>1, <3>1, <4>1, Before DEF Readable, Behind, NoState
      <3>2. CASE stateName' = stateName
        BY <1>1, <2>1, <3>2 DEF Quiet, SaveInv, Readable, Loaded, Behind
      <3> QED
        BY <1>2, <3>1, <3>2
    <2>6. SaveInv'
      <3>1. \A q \in Procs : (SaveOK(op[q], Loaded, server) /\ FileOK(op[q]))'
        BY <2>2 DEF SaveOK, FileOK, Busy, Window
      <3> QED
        BY <2>5, <3>1 DEF SaveInv
    <2> QED
      BY <2>3, <2>4, <2>6 DEF Quiet
  <1> QED
    BY <1>4, <1>5, <1>6 DEF IInv, Basic

-----------------------------------------------------------------------------
(* Save *)

\* The inode that OpenTmp takes is not the one of state.json.
LEMMA OpenTmpInode ==
  ASSUME IInv, NEW p \in Procs, OpenTmp(p)
  PROVE  \E i \in Inodes :
            /\ i # stateName
            /\ tmpName' = i /\ inode' = [inode EXCEPT ![i] = Empty]
            /\ op' = [op EXCEPT ![p] = [op[p] EXCEPT !.fd = i, !.pc = "write"]]
  <1> DEFINE used == {stateName, tmpName} \cup {op[q].fd : q \in Procs}
             i == IF tmpName # 0 THEN tmpName ELSE CHOOSE i \in Inodes \ used : TRUE
  <1>1. /\ tmpName' = i /\ inode' = [inode EXCEPT ![i] = Empty]
        /\ op' = [op EXCEPT ![p] = [op[p] EXCEPT !.fd = i, !.pc = "write"]]
    BY DEF OpenTmp, Become
  <1>2. TypeOK /\ OpInv /\ At(p, "open")
    BY DEF IInv, Basic, OpenTmp
  <1>3. i \in Inodes /\ i # stateName
    <2>1. CASE tmpName # 0
      BY <1>2, <2>1 DEF TypeOK
    <2>2. CASE tmpName = 0
      <3>1. Inodes \ used # {}
        <4>1. Inodes \ ({stateName} \cup {op[q].fd : q \in Procs}) # {}
          BY <1>2, InodeFree
        <4> QED
          BY <2>2, <4>1 DEF Inodes
      <3> QED
        BY <2>2, <3>1
    <2> QED
      BY <2>1, <2>2
  <1> HIDE DEF i
  <1> QED
    BY <1>1, <1>3

LEMMA OpenTmpStep == ASSUME IInv, NEW p \in Procs, OpenTmp(p) PROVE IInv'
  <1> DEFINE o == op[p]
  <1>0. PICK i \in Inodes :
            /\ i # stateName
            /\ tmpName' = i /\ inode' = [inode EXCEPT ![i] = Empty]
            /\ op' = [op EXCEPT ![p] = [o EXCEPT !.fd = i, !.pc = "write"]]
    BY OpenTmpInode
  <1> DEFINE n == [o EXCEPT !.fd = i, !.pc = "write"]
  <1>1. /\ TypeOK /\ OpInv /\ DirInv /\ Manifest # 0
        /\ o \in Op /\ OpOK(o, server) /\ o.pc = "open"
        /\ UNCHANGED <<server, given, stateName, ops, history>>
        /\ dir' = IF dir \in {"absent", "empty"} THEN "half" ELSE dir
    BY Before DEF IInv, Basic, OpenTmp, At
  <1>2. /\ n \in Op /\ n.pc = "write" /\ n.fd = i /\ i # 0
        /\ n.kind = o.kind /\ n.created = o.created /\ n.st = o.st
    <2>1. i # 0
      BY DEF Inodes
    <2> QED
      BY <1>1, <2>1 DEF Op, PCs
  <1>3. Turns(p, n)
    BY <1>0, <1>1, <1>2, Before DEF Turns
  <1>4. OpOK(n, server')
    BY <1>1, <1>2 DEF OpOK, Op
  <1>5. Kept(o, n) /\ (Cloning(o) => Cloning(n)) /\ (Cloning(n) => Cloning(o))
        /\ (Busy(n) => Busy(o)) /\ Enters(p, n)
    BY <1>1, <1>2 DEF Kept, Cloning, Busy, Enters, Window
  <1> HIDE DEF n
  <1>6. TypeOK'
    BY <1>0, <1>1, <1>3, StateTypes DEF TypeOK, Turns, Manifest, history, Paths
  <1>7. OpInv' /\ DirInv' /\ Manifest' # 0
    BY <1>1, <1>3, <1>4, OpsGoOn DEF DirInv, Manifest
  <1>8. ASSUME ~overlapped' PROVE Quiet'
    <2>1. Alone /\ DirSeen /\ SaveInv /\ Retriable
      BY <1>1, <1>8 DEF IInv, Quiet, history
    <2>2. dir' = dir
      BY <1>1, <2>1 DEF DirSeen, DirOK, Cloning, Busy
    <2>3. Alone' /\ DirSeen' /\ Retriable'
      BY <1>1, <1>3, <1>5, <2>1, <2>2, AloneGoesOn, DirGoesOn DEF history
    <2>4. Loaded' = Loaded /\ Readable'
      BY <1>0, <1>1, <2>1 DEF SaveInv, Loaded, Readable, TypeOK
    <2>5. ASSUME NEW q \in Procs PROVE (SaveOK(op[q], Loaded, server) /\ FileOK(op[q]))'
      <3>1. CASE q = p
        <4>1. op'[q] = n
          BY <1>1, <1>3, <3>1 DEF TypeOK, Turns
        <4>2. SaveOK(n, Loaded, server)
          BY <1>1, <1>2, <2>1 DEF SaveInv, SaveOK, Window
        <4>3. tmpName' = i /\ inode'[i] = Empty
          BY <1>0, <1>1 DEF TypeOK
        <4> QED
          BY <1>1, <1>2, <2>4, <4>1, <4>2, <4>3 DEF SaveOK, FileOK
      <3>2. CASE q # p
        <4>1. op'[q] = op[q] /\ op[q].pc \notin Window
          BY <1>1, <1>3, <2>1, <3>2 DEF TypeOK, Turns, Alone, Window
        <4>2. SaveOK(op[q], Loaded, server)
          BY <2>1 DEF SaveInv
        <4> QED
          BY <1>1, <2>4, <4>1, <4>2 DEF SaveOK, FileOK, Window
      <3> QED
        BY <3>1, <3>2
    <2>6. SaveInv'
      BY <1>1, <2>1, <2>4, <2>5 DEF SaveInv, Behind
    <2> QED
      BY <2>3, <2>6 DEF Quiet
  <1> QED
    BY <1>6, <1>7, <1>8 DEF IInv, Basic

LEMMA WriteTmpStep == ASSUME IInv, NEW p \in Procs, WriteTmp(p) PROVE IInv'
  <1> DEFINE o == op[p]
             n == [o EXCEPT !.fd = 0, !.pc = "rename"]
  <1>1. /\ TypeOK /\ OpInv /\ DirInv /\ Manifest # 0
        /\ o \in Op /\ OpOK(o, server) /\ o.pc = "write" /\ o.fd \in Inodes
        /\ UNCHANGED <<server, dir, given, stateName, tmpName, ops, history>>
    BY Before DEF IInv, Basic, WriteTmp, At, OpOK, Op
  <1>2. /\ n \in Op /\ n.pc = "rename" /\ n.fd = 0
        /\ n.kind = o.kind /\ n.created = o.created /\ n.st = o.st
    BY <1>1 DEF Op, PCs
  <1>3. Turns(p, n)
    BY <1>1, <1>2, Before DEF Turns, WriteTmp, Become
  <1>4. OpOK(n, server')
    BY <1>1, <1>2 DEF OpOK, Op
  <1>5. Kept(o, n) /\ (Cloning(o) => Cloning(n)) /\ (Cloning(n) => Cloning(o))
        /\ (Busy(n) => Busy(o)) /\ Enters(p, n)
    BY <1>1, <1>2 DEF Kept, Cloning, Busy, Enters, Window
  <1>6. \/ inode' = [inode EXCEPT ![o.fd] = Holds(o.st)]
        \/ inode' = [inode EXCEPT ![o.fd] = Garbage] /\ inode[o.fd].kind # "empty"
    BY DEF WriteTmp
  <1> HIDE DEF n
  <1>7. TypeOK'
    <2>1. inode' \in [Inodes -> Content]
      BY <1>1, <1>6, Before, StateTypes DEF TypeOK
    <2> QED
      BY <1>1, <1>3, <2>1 DEF TypeOK, Turns, Manifest, history
  <1>8. OpInv' /\ DirInv' /\ Manifest' # 0
    BY <1>1, <1>3, <1>4, OpsGoOn DEF DirInv, Manifest
  <1>9. ASSUME ~overlapped' PROVE Quiet'
    <2>1. Alone /\ DirSeen /\ SaveInv /\ Retriable
      BY <1>1, <1>9 DEF IInv, Quiet, history
    <2>2. Alone' /\ DirSeen' /\ Retriable'
      BY <1>1, <1>3, <1>5, <2>1, AloneGoesOn, DirGoesOn DEF history
    <2>3. o.fd = tmpName /\ inode[o.fd] = Empty
      BY <1>1, <2>1 DEF SaveInv, FileOK
    <2>4. inode' = [inode EXCEPT ![tmpName] = Holds(o.st)] /\ tmpName # stateName
      BY <1>1, <1>6, <2>3, StateTypes DEF TypeOK, Inodes
    <2>5. Loaded' = Loaded /\ Readable'
      BY <1>1, <2>1, <2>4 DEF SaveInv, Loaded, Readable, TypeOK
    <2>6. ASSUME NEW q \in Procs PROVE (SaveOK(op[q], Loaded, server) /\ FileOK(op[q]))'
      <3>1. CASE q = p
        <4>1. op'[q] = n
          BY <1>1, <1>3, <3>1 DEF TypeOK, Turns
        <4>2. SaveOK(n, Loaded, server)
          BY <1>1, <1>2, <2>1 DEF SaveInv, SaveOK, Window
        <4>3. tmpName' = tmpName /\ inode'[tmpName] = Holds(o.st) /\ tmpName # 0
          BY <1>1, <2>3, <2>4 DEF TypeOK, Inodes
        <4> QED
          BY <1>1, <1>2, <2>5, <4>1, <4>2, <4>3 DEF SaveOK, FileOK
      <3>2. CASE q # p
        <4>1. op'[q] = op[q] /\ op[q].pc \notin Window
          BY <1>1, <1>3, <2>1, <3>2 DEF TypeOK, Turns, Alone, Window
        <4>2. SaveOK(op[q], Loaded, server)
          BY <2>1 DEF SaveInv
        <4> QED
          BY <1>1, <2>5, <4>1, <4>2 DEF SaveOK, FileOK, Window
      <3> QED
        BY <3>1, <3>2
    <2>7. SaveInv'
      BY <1>1, <2>1, <2>5, <2>6 DEF SaveInv, Behind
    <2> QED
      BY <2>2, <2>7 DEF Quiet
  <1> QED
    BY <1>7, <1>8, <1>9 DEF IInv, Basic

LEMMA AfterSaveOK ==
  ASSUME TypeOK, NEW o \in Op, OpOK(o, server), o.pc = "rename"
  PROVE  LET n == AfterSave(o) IN
         /\ n \in Op /\ OpOK(n, server) /\ Kept(o, n)
         /\ Cloning(o) => Cloning(n)
         /\ n.pc \in {"idle", "cleanup", "load", "work", "checkout"}
         /\ n.pc = "work" => n.st = o.st /\ n.kind = "push"
  <1>1. o.fd = 0 /\ Busy(o) /\ o.round \in Rounds
    BY DEF OpOK, Busy, Op
  <1>2. /\ Failed(o) \in Op /\ OpOK(Failed(o), server) /\ Kept(o, Failed(o))
        /\ Cloning(o) => Cloning(Failed(o))
        /\ Failed(o).pc \in {"idle", "cleanup"}
    BY <1>1, FailedOK
  <1>3. CASE o.round = "keys"
    <2>1. AfterSave(o) = [o EXCEPT !.pc = "load", !.round = "roster"]
      BY <1>3 DEF AfterSave
    <2> QED
      BY <1>3, <2>1 DEF Op, PCs, Rounds, OpOK, Kept, Cloning, Busy
  <1>4. CASE o.round = "roster"
    <2>1. CASE o.st.roster = o.key
      <3>1. AfterSave(o) = [o EXCEPT !.pc = "load", !.round = "final"]
        BY <1>4, <2>1 DEF AfterSave
      <3> QED
        BY <1>4, <3>1 DEF Op, PCs, Rounds, OpOK, Kept, Cloning, Busy
    <2>2. CASE o.st.roster # o.key
      <3>1. AfterSave(o) = Failed(o)
        BY <1>4, <2>2 DEF AfterSave
      <3> QED
        BY <1>2, <3>1
    <2> QED
      BY <2>1, <2>2
  <1>5. CASE o.round = "again"
    <2>1. AfterSave(o) = [o EXCEPT !.pc = "work", !.round = "final"]
      BY <1>5 DEF AfterSave
    <2>2. o.kind = "push"
      BY <1>5 DEF OpOK
    <2> QED
      BY <1>5, <2>1, <2>2 DEF Op, PCs, Rounds, OpOK, Kept, Cloning, Busy
  <1>6. CASE o.round = "final"
    <2>1. CASE o.kind = "clone"
      <3>1. AfterSave(o) = [o EXCEPT !.pc = "checkout"]
        BY <1>6, <2>1 DEF AfterSave
      <3> QED
        BY <1>6, <2>1, <3>1 DEF Op, PCs, OpOK, Kept, Cloning, Busy
    <2>2. CASE o.kind # "clone"
      <3>1. AfterSave(o) = Idle
        BY <1>6, <2>2 DEF AfterSave
      <3>2. OpOK(Idle, server)
        BY IdleOK DEF TypeOK
      <3> QED
        BY <2>2, <3>1, <3>2, StateTypes DEF Kept, Cloning, Busy
    <2> QED
      BY <2>1, <2>2
  <1> QED
    BY <1>1, <1>3, <1>4, <1>5, <1>6 DEF Rounds

LEMMA RenameTmpStep == ASSUME IInv, NEW p \in Procs, RenameTmp(p) PROVE IInv'
  <1> DEFINE o == op[p]
             n == IF tmpName = 0 /\ o.round # "again" THEN Failed(o) ELSE AfterSave(o)
  <1>1. /\ TypeOK /\ OpInv /\ DirInv /\ Manifest # 0
        /\ o \in Op /\ OpOK(o, server) /\ o.pc = "rename" /\ o.fd = 0
        /\ UNCHANGED <<server, dir, given, ops, history>>
    BY Before DEF IInv, Basic, RenameTmp, At, OpOK
  <1>2. \/ tmpName = 0 /\ UNCHANGED files
        \/ /\ tmpName # 0 /\ stateName' = tmpName /\ tmpName' = 0
           /\ inode' = [i \in Inodes |->
                          IF i = stateName /\ \A q \in Procs : op[q].fd # i
                          THEN Empty ELSE inode[i]]
    BY DEF RenameTmp
  <1>3. op' = [op EXCEPT ![p] = n]
    BY DEF RenameTmp, Become
  <1>4. /\ n \in Op /\ OpOK(n, server) /\ Kept(o, n)
        /\ Cloning(o) => Cloning(n)
        /\ n.pc \in {"idle", "cleanup", "load", "work", "checkout"}
        /\ n.pc = "work" => n.st = o.st /\ n.kind = "push"
    <2>1. Busy(o)
      BY <1>1 DEF Busy
    <2> QED
      BY <1>1, <2>1, AfterSaveOK, FailedOK
  <1> HIDE DEF n
  <1>5. Turns(p, n) /\ OpOK(n, server')
    BY <1>1, <1>3, <1>4, Before DEF Turns
  <1>6. (Cloning(n) => Cloning(o)) /\ (Busy(n) => Busy(o)) /\ Enters(p, n)
    BY <1>1, <1>4 DEF Kept, Cloning, Enters, Window
  <1>7. TypeOK'
    <2>1. inode' \in [Inodes -> Content]
      BY <1>1, <1>2, StateTypes DEF TypeOK, files
    <2>2. /\ stateName' \in {0} \cup Inodes /\ tmpName' \in {0} \cup Inodes
          /\ stateName' = 0 \/ stateName' # tmpName'
      BY <1>1, <1>2 DEF TypeOK, files
    <2> QED
      BY <1>1, <1>5, <2>1, <2>2 DEF TypeOK, Turns, Manifest, history
  <1>8. OpInv' /\ DirInv' /\ Manifest' # 0
    BY <1>1, <1>5, OpsGoOn DEF DirInv, Manifest
  <1>9. ASSUME ~overlapped' PROVE Quiet'
    <2>1. Alone /\ DirSeen /\ SaveInv /\ Retriable
      BY <1>1, <1>9 DEF IInv, Quiet, history
    <2>2. Alone' /\ DirSeen' /\ Retriable'
      BY <1>1, <1>4, <1>5, <1>6, <2>1, AloneGoesOn, DirGoesOn DEF history
    <2>3. /\ tmpName # 0 /\ inode[tmpName] = Holds(o.st)
          /\ Covers(o.st, Loaded) /\ Behind(o.st, server) /\ o.st \in State
      BY <1>1, <2>1, Before DEF SaveInv, FileOK, SaveOK, Window
    <2>4. Loaded' = o.st /\ Readable'
      <3>1. stateName' = tmpName /\ inode'[tmpName] = Holds(o.st)
        BY <1>1, <1>2, <2>3 DEF TypeOK
      <3> QED
        BY <2>3, <3>1, StateTypes DEF Loaded, Readable
    <2>5. ASSUME NEW q \in Procs PROVE (SaveOK(op[q], Loaded, server) /\ FileOK(op[q]))'
      <3>1. CASE q = p
        <4>1. op'[q] = n
          BY <1>1, <1>5, <3>1 DEF TypeOK, Turns
        <4>2. n.pc = "work" => Covers(n.st, o.st) /\ Behind(n.st, server)
          BY <1>4, <2>3 DEF Covers, State
        <4>3. SaveOK(n, o.st, server)
          BY <1>4, <4>2 DEF SaveOK, Window
        <4> QED
          BY <1>1, <1>4, <2>4, <4>1, <4>3 DEF SaveOK, FileOK
      <3>2. CASE q # p
        <4>1. op'[q] = op[q] /\ op[q].pc \notin Window
          BY <1>1, <1>5, <2>1, <3>2 DEF TypeOK, Turns, Alone, Window
        <4> QED
          BY <4>1 DEF SaveOK, FileOK, Window
      <3> QED
        BY <3>1, <3>2
    <2>6. SaveInv'
      BY <1>1, <2>3, <2>4, <2>5 DEF SaveInv, Behind
    <2> QED
      BY <2>2, <2>6 DEF Quiet
  <1> QED
    BY <1>7, <1>8, <1>9 DEF IInv, Basic

-----------------------------------------------------------------------------
(* The theorems *)

LEMMA InitIInv == Init => IInv
  <1> SUFFICES ASSUME Init PROVE IInv
    OBVIOUS
  <1>1. /\ server \in [key : Keys, sealed : Seq(Keys)]
        /\ server.key = 1 /\ Len(server.sealed) = 1
    <2>1. 1 \in Keys
      BY WorkspaceAssumption DEF Keys
    <2>2. <<1>> \in Seq(Keys) /\ Len(<<1>>) = 1
      BY <2>1
    <2> QED
      BY <2>1, <2>2 DEF Init
  <1>2. TypeOK
    <2>1. /\ inode \in [Inodes -> Content] /\ op \in [Procs -> Op]
          /\ ops \in 0 .. MaxOps /\ Manifest <= MaxManifest
      BY <1>1, StateTypes, WorkspaceAssumption DEF Init, Manifest
    <2>2. dir \in Paths /\ given \in {"nothing", "directory", "file"}
      BY DEF Init, Paths
    <2> QED
      BY <1>1, <2>1, <2>2 DEF Init, TypeOK
  <1>3. \A p \in Procs : op[p] = Idle /\ ~Busy(op[p])
    BY StateTypes DEF Init, Busy
  <1>4. OpInv /\ DirInv /\ Manifest # 0
    BY <1>1, <1>3, IdleOK DEF Init, OpInv, DirInv, Manifest
  <1>5. Alone /\ DirSeen /\ Retriable
    BY <1>3, NotBusyOK DEF Init, Alone, DirSeen, Retriable
  <1>6. SaveInv
    <2>1. Readable /\ Behind(Loaded, server)
      BY <1>1 DEF Init, Readable, Behind, Loaded, NoState
    <2>2. \A p \in Procs : SaveOK(op[p], Loaded, server) /\ FileOK(op[p])
      BY <1>3 DEF SaveOK, FileOK, Window, Busy
    <2> QED
      BY <2>1, <2>2 DEF SaveInv
  <1> QED
    BY <1>2, <1>4, <1>5, <1>6 DEF IInv, Basic, Quiet

LEMMA StutterIInv == IInv /\ UNCHANGED vars => IInv'
  <1> SUFFICES ASSUME IInv, UNCHANGED vars PROVE IInv'
    OBVIOUS
  <1> USE DEF vars, files, history
  <1>1. Basic'
    BY DEF IInv, Basic, TypeOK, OpInv, OpOK, DirInv, Manifest
  <1>2. Quiet => Quiet'
    <2>1. Alone /\ DirSeen /\ Retriable => Alone' /\ DirSeen' /\ Retriable'
      BY DEF Alone, DirSeen, DirOK, Retriable, Cloning, Busy
    <2>2. Loaded' = Loaded /\ (Readable => Readable')
      BY DEF Loaded, Readable
    <2>3. SaveInv => SaveInv'
      BY <2>2 DEF SaveInv, SaveOK, FileOK, Behind
    <2> QED
      BY <2>1, <2>3 DEF Quiet
  <1> QED
    BY <1>1, <1>2 DEF IInv

LEMMA NextIInv == IInv /\ [Next]_vars => IInv'
  <1> SUFFICES ASSUME IInv, [Next]_vars PROVE IInv'
    OBVIOUS
  <1>1. ASSUME NEW p \in Procs, Step(p) PROVE IInv'
    BY <1>1, BeginCloneStep, GitInitStep, BeginOtherStep, LoadIsAStep, RotateStep,
       ImportStep, PublishStep, RepublishStep, OpenTmpStep, WriteTmpStep,
       RenameTmpStep, CheckoutStep, CleanupStep, FailsStep, KillStep DEF Step
  <1> QED
    BY <1>1, OthersStep, StutterIInv DEF Next

\* The invariant that the module's comment explains (the whole module).
THEOREM WorkspaceInvariant == Spec => []IInv
  BY InitIInv, NextIInv, PTL DEF Spec

\* Every variable keeps its type, and OpenTmp always finds a free inode.
THEOREM TypeCorrect == Spec => []TypeOK
  <1>1. IInv => TypeOK
    BY DEF IInv, Basic
  <1> QED
    BY <1>1, WorkspaceInvariant, PTL

\* The state file is whole whenever it is read (Store.Save), for any number of
\* processes that die anywhere, as long as no two of them save at once.
THEOREM StateAlwaysReadable == Spec => []StateReadable
  <1>1. IInv => StateReadable
    BY DEF IInv, Quiet, SaveInv, StateReadable
  <1> QED
    BY <1>1, WorkspaceInvariant, PTL

LEMMA PathStep == ASSUME TypeOK, PathInv, NEW p \in Procs, Step(p) PROVE PathInv'
  <1> DEFINE Waits(o) == o.pc \in {"idle", "init", "cleanup"}
  <1>1. /\ \A q \in Procs : dir = "file" => Waits(op[q])
        /\ dir \in Unused => stateName = 0 /\ tmpName = 0
        /\ op[p] \in Op /\ dir \in Paths
    BY DEF PathInv, TypeOK
  <1>2. ASSUME NEW n, Become(p, n), dir' = dir, UNCHANGED <<stateName, tmpName>>,
               dir = "file" => Waits(n)
        PROVE  PathInv'
    <2>1. \A q \in Procs : op'[q] = IF q = p THEN n ELSE op[q]
      BY <1>2 DEF Become, TypeOK
    <2> QED
      BY <1>1, <1>2, <2>1 DEF PathInv
  <1>3. CASE BeginClone(p)
    <2> DEFINE n == [Idle EXCEPT !.pc = "init", !.kind = "clone",
                                 !.created = (dir # "empty")]
    <2>1. Become(p, n) /\ dir' = dir /\ UNCHANGED <<stateName, tmpName>>
      BY <1>3 DEF BeginClone, files
    <2>2. Waits(n)
      BY DEF Idle
    <2> QED
      BY <1>2, <2>1, <2>2
  <1>4. CASE GitInit(p) \/ Checkout(p)
    <2>1. dir' \in {"half", "cloned"}
      BY <1>4 DEF GitInit, Checkout
    <2> QED
      BY <2>1 DEF PathInv, Unused
  <1>5. CASE BeginOther(p)
    <2>1. dir' = "cloned"
      BY <1>5 DEF BeginOther
    <2> QED
      BY <2>1 DEF PathInv, Unused
  <1>6. CASE Load(p) \/ Rotate(p) \/ Import(p) \/ Publish(p) \/ PublishConflicts(p)
             \/ Republish(p) \/ WriteTmp(p)
    <2>1. op[p].pc \in {"load", "rotated", "work", "write"}
      BY <1>6 DEF Load, LoadForKeys, LoadForRoster, LoadForFetch, LoadForPush,
                  LoadForRemove, LoadFails, Rotate, Import, Publish, PublishConflicts,
                  Republish, WriteTmp, At
    <2>2. dir # "file"
      BY <1>1, <2>1
    <2>3. dir' = dir /\ UNCHANGED <<stateName, tmpName>>
      BY <1>6 DEF Load, Rotate, Import, Publish, PublishConflicts, Republish, WriteTmp,
                  files
    <2> QED
      BY <1>1, <2>2, <2>3 DEF PathInv
  <1>7. CASE OpenTmp(p)
    <2>1. op[p].pc = "open"
      BY <1>7 DEF OpenTmp, At
    <2>2. dir # "file"
      BY <1>1, <2>1
    <2>3. dir' \in {"half", "cloned"}
      BY <1>1, <1>7, <2>2 DEF OpenTmp, Paths
    <2> QED
      BY <2>3 DEF PathInv, Unused
  <1>8. CASE RenameTmp(p)
    <2>1. op[p].pc = "rename" /\ dir' = dir
      BY <1>8 DEF RenameTmp, At
    <2>2. dir # "file"
      BY <1>1, <2>1
    <2>3. dir \in Unused => tmpName = 0 /\ UNCHANGED <<stateName, tmpName>>
      BY <1>1, <1>8 DEF RenameTmp, files
    <2> QED
      BY <1>1, <2>1, <2>2, <2>3 DEF PathInv
  <1>9. CASE Cleanup(p)
    <2>1. \/ dir' = "absent" /\ stateName' = 0 /\ tmpName' = 0
          \/ UNCHANGED <<dir, stateName, tmpName>>
      BY <1>9 DEF Cleanup
    <2>2. Become(p, Idle) /\ Waits(Idle)
      BY <1>9, StateTypes DEF Cleanup
    <2>3. CASE UNCHANGED <<dir, stateName, tmpName>>
      BY <1>2, <2>2, <2>3
    <2> QED
      BY <2>1, <2>3 DEF PathInv
  <1>10. CASE Fails(p) \/ Kill(p)
    <2>1. /\ Become(p, Failed(op[p])) \/ Become(p, Idle)
          /\ dir' = dir /\ UNCHANGED <<stateName, tmpName>>
      BY <1>10 DEF Fails, Kill, files
    <2>2. Waits(Failed(op[p])) /\ Waits(Idle)
      BY <1>1, StateTypes DEF Failed, Op
    <2> QED
      BY <1>2, <2>1, <2>2
  <1> QED
    BY <1>3, <1>4, <1>5, <1>6, <1>7, <1>8, <1>9, <1>10 DEF Step

\* Nothing waits behind git init on a file, and nothing that a clone may start
\* from holds a state file (nonEmptyDir, GitInit, Cleanup).
THEOREM PathInvariant == Spec => []PathInv
  <1>1. Init => PathInv
    BY StateTypes DEF Init, PathInv, Unused
  <1>2. TypeOK /\ PathInv /\ [Next]_vars => PathInv'
    <2> SUFFICES ASSUME TypeOK, PathInv, [Next]_vars PROVE PathInv'
      OBVIOUS
    <2>1. CASE UNCHANGED vars
      BY <2>1 DEF PathInv, vars, files
    <2>2. CASE OtherPublishes \/ OtherRotates
      BY <2>2 DEF OtherPublishes, OtherRotates, PathInv, files
    <2> QED
      BY <2>1, <2>2, PathStep DEF Next
  <1> QED
    BY <1>1, <1>2, TypeCorrect, PTL DEF Spec

\* A clone that failed, wherever it failed, leaves nothing in the way of the next
\* one (cmdClone), neither files nor a pin: where the user had made no directory
\* at the path, no process died inside an operation, no two processes overlapped
\* (as in StateIsKept), and the state file is inside the directory.
THEOREM ClonesRetriable == Spec => []CloneRetriable
  <1>1. IInv /\ PathInv => CloneRetriable
    <2> SUFFICES ASSUME IInv, PathInv, ~killed, ~overlapped, given # "directory",
                        \A p \in Procs : At(p, "idle")
                 PROVE  /\ dir # "half"
                        /\ dir # "cloned" => stateName = 0 /\ tmpName = 0
      BY DEF CloneRetriable
    <2>1. dir # "half"
      BY DEF IInv, Quiet, Retriable, Cloning, Busy, At
    <2> QED
      BY <2>1 DEF IInv, Basic, TypeOK, Paths, Unused, PathInv
  <1> QED
    BY <1>1, WorkspaceInvariant, PathInvariant, PTL

\* Every step keeps what state.json holds, or the step removes it.
LEMMA StepKeeps ==
  ASSUME IInv, [Next]_vars, ~overlapped', stateName' # 0
  PROVE  Covers(Loaded', Loaded)
  <1>1. Loaded \in State /\ TypeOK
    BY ServerBefore
  <1>2. Covers(Loaded, Loaded)
    BY <1>1 DEF Covers, State
  <1>3. CASE UNCHANGED files
    BY <1>2, <1>3 DEF files, Loaded
  <1>4. ASSUME NEW p \in Procs, OpenTmp(p) PROVE Covers(Loaded', Loaded)
    <2>1. PICK i \in Inodes : i # stateName /\ inode' = [inode EXCEPT ![i] = Empty]
      BY <1>4, OpenTmpInode
    <2>2. Loaded' = Loaded
      BY <1>1, <1>4, <2>1 DEF OpenTmp, Loaded, TypeOK
    <2> QED
      BY <1>2, <2>2
  <1>5. ASSUME NEW p \in Procs, WriteTmp(p) PROVE Covers(Loaded', Loaded)
    <2>1. SaveInv /\ stateName' = stateName /\ tmpName # stateName /\ op[p].pc = "write"
      BY <1>1, <1>5 DEF WriteTmp, IInv, Quiet, history, At, TypeOK
    <2>2. op[p].fd # stateName
      BY <2>1 DEF SaveInv, FileOK
    <2>3. Loaded' = Loaded
      BY <1>1, <1>5, <2>1, <2>2 DEF WriteTmp, Loaded, TypeOK
    <2> QED
      BY <1>2, <2>3
  <1>6. ASSUME NEW p \in Procs, RenameTmp(p) PROVE Covers(Loaded', Loaded)
    <2>1. /\ SaveInv /\ op[p].pc = "rename" /\ op[p] \in Op /\ op[p].st \in State
          /\ OpInv
      BY <1>6, Before DEF RenameTmp, IInv, Basic, Quiet, history, At
    <2>2. /\ tmpName # 0 /\ inode[tmpName] = Holds(op[p].st)
          /\ Covers(op[p].st, Loaded)
      BY <2>1 DEF SaveInv, FileOK, SaveOK, Window
    <2>3. stateName' = tmpName /\ inode'[tmpName] = inode[tmpName]
      BY <1>1, <1>6, <2>2 DEF RenameTmp, TypeOK
    <2>4. Loaded' = op[p].st
      BY <2>1, <2>2, <2>3, StateTypes DEF Loaded
    <2> QED
      BY <2>2, <2>4
  <1>7. ASSUME NEW p \in Procs, Cleanup(p) PROVE Covers(Loaded', Loaded)
    <2>1. Loaded' = Loaded
      BY <1>7 DEF Cleanup, Loaded
    <2> QED
      BY <1>2, <2>1
  <1>8. ASSUME NEW p \in Procs, Step(p) PROVE Covers(Loaded', Loaded)
    BY <1>3, <1>4, <1>5, <1>6, <1>7, <1>8
       DEF Step, BeginClone, GitInit, BeginOther, Load, Rotate, Import, Publish,
           PublishConflicts, Republish, Checkout, Fails, Kill
  <1> QED
    BY <1>3, <1>8 DEF Next, vars, OtherPublishes, OtherRotates

\* No operation, failure or death drops a key or moves a pin back, for any
\* sequence of them (State.RepoKeys, loadTrustedRoster, Fetch), but for a clone
\* that removes the directory it made.  This is said of runs up to the first
\* time that a process loads the state or swaps the roster while another one is
\* between a Load and its Save, or between RemoveMember's swap and the Load after
\* it, or that a clone runs next to another process: after that it is not true.
THEOREM StateIsKept == Spec => StateKept
  <1>1. IInv /\ [Next]_vars =>
          [ (~overlapped' /\ stateName' # 0 /\ Readable) =>
              /\ Loaded.keys \subseteq Loaded'.keys
              /\ Loaded.roster <= Loaded'.roster
              /\ Loaded.manifest <= Loaded'.manifest ]_vars
    BY StepKeeps DEF Covers
  <1> QED
    BY <1>1, WorkspaceInvariant, PTL DEF Spec, StateKept

\* Of directories, a clone removes none but the one it made (cmdClone's cleanup):
\* never one that the user had there, nor a completed clone unless another
\* process ran at the same time.  A file at the path is another matter: the
\* cleanup does remove it (OnlyDirectoriesRemoved is false).
THEOREM ClonesRemoveOwn == Spec => RemovesOwn
  <1>1. ASSUME IInv, NEW p \in Procs, Step(p),
               dir \in {"empty", "half", "cloned"}, dir' = "absent"
        PROVE  given # "directory" /\ (overlapped \/ dir # "cloned")
    <2>1. Cleanup(p) /\ op[p].created
      BY <1>1 DEF Step, BeginClone, GitInit, BeginOther, Load, Rotate, Import, Publish,
           PublishConflicts, Republish, Checkout, Fails, Kill, OpenTmp, WriteTmp,
           RenameTmp, Cleanup
    <2>2. op[p].pc = "cleanup" /\ op[p].kind = "clone" /\ given # "directory"
      BY <1>1, <2>1, Before DEF Cleanup, At, OpOK
    <2>3. ~overlapped => dir # "cloned"
      BY <1>1, <2>2 DEF IInv, Quiet, DirSeen, DirOK, Cloning, Busy
    <2> QED
      BY <2>2, <2>3
  <1>2. IInv /\ [Next]_vars =>
          [ (dir \in {"empty", "half", "cloned"} /\ dir' = "absent") =>
              given # "directory" /\ (overlapped \/ dir # "cloned") ]_vars
    BY <1>1 DEF Next, OtherPublishes, OtherRotates, vars
  <1> QED
    BY <1>2, WorkspaceInvariant, PTL DEF Spec, RemovesOwn
=============================================================================
