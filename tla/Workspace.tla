----------------------------- MODULE Workspace -----------------------------
(***************************************************************************)
(* One directory of a user, in which encgit processes clone, fetch, push   *)
(* and remove members: the life of the directory (cmd/encgit/clone.go) and *)
(* of the state file in it (internal/localstate), file operation by file   *)
(* operation.                                                              *)
(*                                                                         *)
(* Every operation goes through rounds of Load, change and Save: the       *)
(* keyfile's key (refreshPackKeys), the roster pin (loadTrustedRoster) and *)
(* what the operation itself records.  Save writes a temporary file of one *)
(* fixed name and renames it, so two processes may write into one inode.   *)
(*                                                                         *)
(* The server is reduced to the newest repo key, which numbers the roster  *)
(* as well since both change together, and to the keys that the manifests  *)
(* were encrypted to.  It may answer a read with anything it ever held.    *)
(***************************************************************************)
EXTENDS Naturals, FiniteSets, Sequences

CONSTANTS
    Procs,         \* encgit processes in this directory
    MaxKey,        \* bound: repo keys
    MaxManifest,   \* bound: manifests
    MaxOps         \* bound: operations begun

ASSUME WorkspaceAssumption ==
    /\ IsFiniteSet(Procs)
    /\ MaxKey \in Nat \ {0}
    /\ MaxManifest \in Nat \ {0}
    /\ MaxOps \in Nat

VARIABLES
    server,      \* newest repo key, and the key of each manifest so far
    dir,         \* what is at the path of the directory
    given,       \* what the user had there before any clone
    stateName,   \* inode that state.json names (0: no such file)
    tmpName,     \* inode that state.json.tmp names (0: no such file)
    inode,       \* what the inodes hold
    op,          \* process: the operation in progress
    ops,         \* operations begun so far
    overlapped,  \* history: a process loaded the state while another one had
                 \* yet to save its own, or a clone ran next to another process
    killed       \* history: a process died inside an operation

files   == <<stateName, tmpName, inode>>
history == <<overlapped, killed>>
vars == <<server, dir, given, files, op, ops, history>>

-----------------------------------------------------------------------------
(* Data *)

Keys == 1 .. MaxKey
State == [keys : SUBSET Keys, roster : 0 .. MaxKey, manifest : 0 .. MaxManifest]
NoState == [keys |-> {}, roster |-> 0, manifest |-> 0]

\* What is in an inode: a state that parses, nothing yet, or two states mixed.
Empty   == [kind |-> "empty", state |-> NoState]
Garbage == [kind |-> "garbage", state |-> NoState]
Holds(s) == [kind |-> "state", state |-> s]
Content == {Empty, Garbage} \cup {Holds(s) : s \in State}
Inodes == 1 .. Cardinality(Procs) + 2

\* A state is longer the more keys and packs it lists.
Size(s) == Cardinality(s.keys) + s.manifest

Kinds == {"none", "clone", "fetch", "push", "remove"}
Rounds == {"keys", "roster", "final", "again"}
PCs == {"idle", "init", "load", "rotated", "work", "open", "write", "rename",
        "checkout", "cleanup"}

\* key is the repo key unwrapped at the start, manifest the version to pin, st
\* the state in memory, fd the inode of the temporary file once it is open,
\* created whether a clone saw no directory before it made one.
Op == [pc : PCs, kind : Kinds, round : Rounds, key : 0 .. MaxKey,
       manifest : 0 .. MaxManifest, st : State, fd : {0} \cup Inodes,
       created : BOOLEAN]
Idle == [pc |-> "idle", kind |-> "none", round |-> "keys", key |-> 0,
         manifest |-> 0, st |-> NoState, fd |-> 0, created |-> FALSE]

At(p, pc) == op[p].pc = pc
Become(p, o) == op' = [op EXCEPT ![p] = o]
Moves(p, pc) == Become(p, [op[p] EXCEPT !.pc = pc])

\* The path is absent, an empty directory, a directory that no clone completed,
\* a clone, or a file: anything that is no directory, a dangling link included.
\* A directory that cannot be listed is treated as an empty one.
Paths == {"absent", "empty", "half", "cloned", "file"}
Unused == {"absent", "empty", "file"}

\* A clone that fails cleans up; everything else just returns.
Failed(o) == IF o.kind = "clone" THEN [o EXCEPT !.pc = "cleanup"] ELSE Idle

Init ==
    /\ server = [key |-> 1, sealed |-> <<1>>]
    /\ given \in {"nothing", "directory", "file"}
    /\ dir = CASE given = "nothing"   -> "absent"
               [] given = "directory" -> "empty"
               [] given = "file"      -> "file"
    /\ stateName = 0
    /\ tmpName = 0
    /\ inode = [i \in Inodes |-> Empty]
    /\ op = [p \in Procs |-> Idle]
    /\ ops = 0
    /\ overlapped = FALSE
    /\ killed = FALSE

-----------------------------------------------------------------------------
(* The other members                                                       *)

Manifest == Len(server.sealed)
Sealed(k) == [server EXCEPT !.sealed = Append(@, k)]

\* A push keeps the key of the manifest; a rotation re-issues it under the next.
OtherPublishes ==
    \E k \in {server.sealed[Manifest], server.sealed[Manifest] + 1} :
        /\ k <= server.key
        /\ Manifest < MaxManifest
        /\ server' = Sealed(k)
        /\ UNCHANGED <<dir, given, files, op, ops, history>>

OtherRotates ==
    /\ server.key < MaxKey
    /\ server' = [server EXCEPT !.key = @ + 1]
    /\ UNCHANGED <<dir, given, files, op, ops, history>>

-----------------------------------------------------------------------------
(* Beginning                                                               *)

Others(p) == {q \in Procs \ {p} : ~At(q, "idle")}

\* Bug variant: to look for the directory after git init.
BeginCloneLooksLate(p) ==
    /\ At(p, "idle")
    /\ ops < MaxOps
    /\ dir \in Unused
    /\ ops' = ops + 1
    /\ overlapped' = (overlapped \/ Others(p) # {})
    /\ Become(p, [Idle EXCEPT !.pc = "init", !.kind = "clone"])
    /\ UNCHANGED <<server, dir, given, files, killed>>

\* cmdClone up to the look at the directory: nonEmptyDir refuses what has
\* entries, dirExists decides about the cleanup.  A file has no entries and does
\* not exist as a directory.
BeginClone(p) ==
    /\ At(p, "idle")
    /\ ops < MaxOps
    /\ dir \in Unused
    /\ ops' = ops + 1
    /\ overlapped' = (overlapped \/ Others(p) # {})
    /\ Become(p, [Idle EXCEPT !.pc = "init", !.kind = "clone",
                              !.created = (dir # "empty")])
    /\ UNCHANGED <<server, dir, given, files, killed>>

\* git init, which fails on a file, then Open with its GetKeyfile.
GitInit(p) ==
    /\ At(p, "init")
    /\ dir # "file"
    /\ dir' = IF dir = "cloned" THEN dir ELSE "half"
    /\ \E k \in 1 .. server.key : Become(p, [op[p] EXCEPT !.pc = "load", !.key = k])
    /\ UNCHANGED <<server, given, files, ops, history>>

\* fetch, push or member-remove in a clone.
BeginOther(p) ==
    \E what \in {"fetch", "push", "remove"}, k \in 1 .. server.key :
        /\ At(p, "idle")
        /\ ops < MaxOps
        /\ dir = "cloned"
        /\ ops' = ops + 1
        /\ overlapped' = (overlapped \/ \E q \in Others(p) : op[q].kind = "clone")
        /\ Become(p, [Idle EXCEPT !.pc = "load", !.kind = what, !.key = k])
        /\ UNCHANGED <<server, dir, given, files, killed>>

-----------------------------------------------------------------------------
(* Load                                                                    *)

\* A process has yet to save what it decided on: from the Load, or from the
\* rotation that the Load follows, to the end of the Save.
Windows(p) == {q \in Procs \ {p} :
                 op[q].pc \in {"rotated", "work", "open", "write", "rename"}}

\* A missing file is the zero state; one that does not parse is an error.
Readable == stateName # 0 => inode[stateName].kind = "state"
Loaded == IF stateName = 0 THEN NoState ELSE inode[stateName].state

\* Bug variant: to keep the current key only.
LoadForKeysForgets(p) ==
    LET o == op[p] IN
    /\ At(p, "load")
    /\ o.round = "keys"
    /\ Become(p, IF o.key \in Loaded.keys
                 THEN [o EXCEPT !.round = "roster"]
                 ELSE [o EXCEPT !.st = [Loaded EXCEPT !.keys = {o.key}], !.pc = "open"])

\* refreshPackKeys: AddKey, and a Save if the key is new.
LoadForKeys(p) ==
    LET o == op[p] IN
    /\ At(p, "load")
    /\ o.round = "keys"
    /\ Become(p, IF o.key \in Loaded.keys
                 THEN [o EXCEPT !.round = "roster"]
                 ELSE [o EXCEPT !.st = [Loaded EXCEPT !.keys = @ \cup {o.key}],
                                !.pc = "open"])

\* loadTrustedRoster: the roster r is the first one seen, the pinned one, or its
\* direct successor; checkKeyfileGeneration compares it with the key.
LoadForRoster(p) ==
    LET o == op[p] IN
    \E r \in 1 .. server.key :
        /\ At(p, "load")
        /\ o.round = "roster"
        /\ \/ /\ r = Loaded.roster
              /\ Become(p, IF r = o.key THEN [o EXCEPT !.round = "final"]
                                        ELSE Failed(o))
           \/ /\ r # Loaded.roster
              /\ Loaded.roster = 0 \/ r = Loaded.roster + 1
              /\ Become(p, [o EXCEPT !.st = [Loaded EXCEPT !.roster = r],
                                     !.pc = "open"])
           \/ /\ Loaded.roster # 0
              /\ r \notin {Loaded.roster, Loaded.roster + 1}
              /\ Become(p, Failed(o))

\* Fetch: the manifest m decrypts, and is the first one, the pinned one, or the
\* direct successor of the pinned one.
LoadForFetch(p) ==
    LET o == op[p] IN
    \E m \in 1 .. Manifest :
        /\ At(p, "load")
        /\ o.round = "final"
        /\ o.kind \in {"clone", "fetch"}
        /\ \/ /\ server.sealed[m] = o.key
              /\ Loaded.manifest = 0 \/ m = Loaded.manifest + 1
              /\ Become(p, [o EXCEPT !.st = Loaded, !.manifest = m, !.pc = "work"])
           \/ /\ server.sealed[m] = o.key
              /\ m = Loaded.manifest
              /\ Become(p, IF o.kind = "clone" THEN [o EXCEPT !.pc = "checkout"]
                                               ELSE Idle)
           \/ /\ \/ server.sealed[m] # o.key
                 \/ Loaded.manifest # 0 /\ m \notin {Loaded.manifest, Loaded.manifest + 1}
              /\ Become(p, Failed(o))

\* Push loads the state before it reads the manifest, RemoveMember after it
\* swapped roster and keyfile.
LoadForPush(p) ==
    /\ At(p, "load")
    /\ op[p].round = "final"
    /\ op[p].kind = "push"
    /\ Become(p, [op[p] EXCEPT !.st = Loaded, !.pc = "work"])

LoadForRemove(p) ==
    /\ At(p, "rotated")
    /\ Become(p, [op[p] EXCEPT !.st = Loaded, !.pc = "work"])

LoadFails(p) ==
    /\ op[p].pc \in {"load", "rotated"}
    /\ ~Readable
    /\ Become(p, Failed(op[p]))

Load(p) ==
    /\ \/ Readable /\ \/ LoadForKeys(p) \/ LoadForRoster(p) \/ LoadForFetch(p)
                      \/ LoadForPush(p) \/ LoadForRemove(p)
       \/ LoadFails(p)
    /\ overlapped' = (overlapped \/ Windows(p) # {})
    /\ UNCHANGED <<server, dir, given, files, ops, killed>>

-----------------------------------------------------------------------------
(* Work                                                                    *)

\* RemoveMember's CASRoster and PutKeyfile.  The new key is in memory only.
Rotate(p) ==
    /\ At(p, "load")
    /\ op[p].round = "final"
    /\ op[p].kind = "remove"
    /\ server.key = op[p].key
    /\ server.key < MaxKey
    /\ server' = [server EXCEPT !.key = @ + 1]
    /\ Moves(p, "rotated")
    /\ overlapped' = (overlapped \/ Windows(p) # {})
    /\ UNCHANGED <<dir, given, files, ops, killed>>

\* Fetch imports and pins the manifest it accepted.
Import(p) ==
    LET o == op[p] IN
    /\ At(p, "work")
    /\ o.kind \in {"clone", "fetch"}
    /\ Become(p, [o EXCEPT !.st.manifest = o.manifest, !.pc = "open"])
    /\ UNCHANGED <<server, dir, given, files, ops, history>>

\* One attempt of Push: it reads a manifest under its key and publishes the next,
Publish(p) ==
    LET o == op[p] IN
    /\ At(p, "work")
    /\ o.kind = "push"
    /\ server.sealed[Manifest] = o.key
    /\ Manifest < MaxManifest
    /\ server' = Sealed(o.key)
    /\ Become(p, [o EXCEPT !.st.manifest = Manifest + 1, !.pc = "open"])
    /\ UNCHANGED <<dir, given, files, ops, history>>

\* or another member publishes in between: Push saves and tries again.
PublishConflicts(p) ==
    LET o == op[p] IN
    /\ At(p, "work")
    /\ o.kind = "push"
    /\ server.sealed[Manifest] = o.key
    /\ Manifest < MaxManifest
    /\ server' = Sealed(o.key)
    /\ Become(p, [o EXCEPT !.round = "again", !.pc = "open"])
    /\ UNCHANGED <<dir, given, files, ops, history>>

\* RemoveMember re-issues the manifest under the new key, and pins.
Republish(p) ==
    LET o == op[p] IN
    /\ At(p, "work")
    /\ o.kind = "remove"
    /\ server.sealed[Manifest] = o.key
    /\ Manifest < MaxManifest
    /\ server' = Sealed(o.key + 1)
    /\ Become(p, [o EXCEPT !.pc = "open",
                           !.st = [keys |-> o.st.keys \cup {o.key + 1},
                                   roster |-> o.key + 1,
                                   manifest |-> Manifest + 1]])
    /\ UNCHANGED <<dir, given, files, ops, history>>

-----------------------------------------------------------------------------
(* Save                                                                    *)

\* Bug variant: to open state.json itself.
OpenState(p) ==
    LET used == {stateName, tmpName} \cup {op[q].fd : q \in Procs}
        i == IF stateName # 0 THEN stateName
             ELSE CHOOSE i \in Inodes \ used : TRUE
    IN  /\ At(p, "open")
        /\ dir' = IF dir \in {"absent", "empty"} THEN "half" ELSE dir
        /\ stateName' = i
        /\ inode' = [inode EXCEPT ![i] = Empty]
        /\ Become(p, [op[p] EXCEPT !.fd = i, !.pc = "write"])
        /\ UNCHANGED <<server, given, tmpName, ops, history>>

\* MkdirAll, and os.WriteFile's open, which creates or truncates.
OpenTmp(p) ==
    LET used == {stateName, tmpName} \cup {op[q].fd : q \in Procs}
        i == IF tmpName # 0 THEN tmpName
             ELSE CHOOSE i \in Inodes \ used : TRUE
    IN  /\ At(p, "open")
        /\ dir' = IF dir \in {"absent", "empty"} THEN "half" ELSE dir
        /\ tmpName' = i
        /\ inode' = [inode EXCEPT ![i] = Empty]
        /\ Become(p, [op[p] EXCEPT !.fd = i, !.pc = "write"])
        /\ UNCHANGED <<server, given, stateName, ops, history>>

\* os.WriteFile's write and close.  What another process wrote into the inode
\* shows behind a shorter state.
WriteTmp(p) ==
    LET o == op[p]
        old == inode[o.fd]
        covers == old.kind = "empty" \/ (old.kind = "state" /\ Size(o.st) >= Size(old.state))
    IN  /\ At(p, "write")
        /\ inode' = [inode EXCEPT ![o.fd] = IF covers THEN Holds(o.st) ELSE Garbage]
        /\ Become(p, [o EXCEPT !.fd = 0, !.pc = "rename"])
        /\ UNCHANGED <<server, dir, given, stateName, tmpName, ops, history>>

\* What an operation does after a Save: the next round, or its end.
AfterSave(o) ==
    CASE o.round = "keys"   -> [o EXCEPT !.pc = "load", !.round = "roster"]
      [] o.round = "roster" -> IF o.st.roster = o.key
                               THEN [o EXCEPT !.pc = "load", !.round = "final"]
                               ELSE Failed(o)
      [] o.round = "again"  -> [o EXCEPT !.pc = "work", !.round = "final"]
      [] o.round = "final"  -> IF o.kind = "clone" THEN [o EXCEPT !.pc = "checkout"]
                                                   ELSE Idle

\* Bug variant: to link the file and leave the old name.
RenameTmpLinks(p) ==
    /\ At(p, "rename")
    /\ Become(p, IF tmpName = 0 THEN Failed(op[p]) ELSE AfterSave(op[p]))
    /\ stateName' = IF tmpName = 0 THEN stateName ELSE tmpName
    /\ UNCHANGED <<server, dir, given, inode, tmpName, ops, history>>

\* What state.json named is gone unless it is open; the temporary file may be
\* gone too.  Push ignores a failed Save when it retries.
RenameTmp(p) ==
    /\ At(p, "rename")
    /\ IF tmpName = 0
       THEN /\ Become(p, IF op[p].round = "again" THEN AfterSave(op[p])
                                                  ELSE Failed(op[p]))
            /\ UNCHANGED files
       ELSE /\ Become(p, AfterSave(op[p]))
            /\ stateName' = tmpName
            /\ tmpName' = 0
            /\ inode' = [i \in Inodes |-> IF i = stateName /\ \A q \in Procs : op[q].fd # i
                                         THEN Empty ELSE inode[i]]
    /\ UNCHANGED <<server, dir, given, ops, history>>

-----------------------------------------------------------------------------
(* The end of a clone, and failures                                        *)

Checkout(p) ==
    /\ At(p, "checkout")
    /\ dir' = "cloned"
    /\ Become(p, Idle)
    /\ UNCHANGED <<server, given, files, ops, history>>

\* Bug variant: to remove whatever is there.
CleanupRemovesAny(p) ==
    /\ At(p, "cleanup")
    /\ dir' = "absent" /\ stateName' = 0 /\ tmpName' = 0
    /\ Become(p, Idle)
    /\ UNCHANGED <<server, given, inode, ops, history>>

\* RemoveAll on whatever is there, if the clone saw no directory.
Cleanup(p) ==
    /\ At(p, "cleanup")
    /\ IF op[p].created
       THEN dir' = "absent" /\ stateName' = 0 /\ tmpName' = 0
       ELSE UNCHANGED <<dir, stateName, tmpName>>
    /\ Become(p, Idle)
    /\ UNCHANGED <<server, given, inode, ops, history>>

\* A request, git, or a verification fails.
Fails(p) ==
    /\ op[p].pc \in {"init", "load", "rotated", "work", "checkout"}
    /\ Become(p, Failed(op[p]))
    /\ UNCHANGED <<server, dir, given, files, ops, history>>

Kill(p) ==
    /\ ~At(p, "idle")
    /\ Become(p, Idle)
    /\ killed' = TRUE
    /\ UNCHANGED <<server, dir, given, files, ops, overlapped>>

Step(p) ==
    \/ BeginClone(p) \/ GitInit(p) \/ BeginOther(p) \/ Load(p)
    \/ Rotate(p) \/ Import(p) \/ Publish(p) \/ PublishConflicts(p) \/ Republish(p)
    \/ OpenTmp(p) \/ WriteTmp(p) \/ RenameTmp(p)
    \/ Checkout(p) \/ Cleanup(p) \/ Fails(p) \/ Kill(p)

Next == OtherPublishes \/ OtherRotates \/ \E p \in Procs : Step(p)

Spec == Init /\ [][Next]_vars

-----------------------------------------------------------------------------
(* Properties                                                              *)

\* The types of the variables.  A directory that exists, a state file that is
\* named and a temporary file that is named are inodes of their own.
TypeOK ==
    /\ server \in [key : Keys, sealed : Seq(Keys)] /\ Manifest <= MaxManifest
    /\ dir \in Paths
    /\ given \in {"nothing", "directory", "file"}
    /\ stateName \in {0} \cup Inodes
    /\ tmpName \in {0} \cup Inodes
    /\ stateName = 0 \/ stateName # tmpName
    /\ inode \in [Inodes -> Content]
    /\ op \in [Procs -> Op]
    /\ ops \in 0 .. MaxOps
    /\ overlapped \in BOOLEAN /\ killed \in BOOLEAN

\* "Save writes the state atomically" (localstate.go): whoever reads state.json,
\* at any moment and after a process died anywhere in a Save, finds a whole
\* state, as long as no two processes save at once.
StateReadable == ~overlapped => Readable

\* Client state is never lost (State.RepoKeys: a member "must retain the old
\* keys"; Fetch and loadTrustedRoster reject rollback): no sequence of
\* operations, failures and deaths drops a key or moves a pin back, but for a
\* clone that removes the directory it made.  This holds until another process
\* runs a Load or a roster swap while one is between the Load and the Save of a
\* round, or between RemoveMember's roster swap and the Load after it, and until
\* a clone runs next to another process: then the later Save does undo what the
\* other one saved.
StateKept ==
    [][ (~overlapped' /\ stateName' # 0 /\ Readable) =>
            /\ Loaded.keys \subseteq Loaded'.keys
            /\ Loaded.roster <= Loaded'.roster
            /\ Loaded.manifest <= Loaded'.manifest ]_vars

\* "If anything fails after we create the directory, remove it so the clone can
\* be retried into the same path" (clone.go): when nothing runs, the path holds
\* a clone, or nothing that nonEmptyDir refuses and no pin that would make the
\* retry's Fetch a no-op.  Not so in a directory the user had made, after a
\* death inside an operation, or when processes overlapped; and the state file
\* is at its default place, inside the directory.
CloneRetriable ==
    (~killed /\ ~overlapped /\ given # "directory" /\ \A p \in Procs : At(p, "idle"))
        => /\ dir # "half"
           /\ dir # "cloned" => stateName = 0 /\ tmpName = 0

\* "We only ever remove a directory WE created" (clone.go), of directories: one
\* that a clone removes is neither the user's own nor, unless another process
\* ran at the same time, one that holds a clone.
RemovesOwn ==
    [][ (dir \in {"empty", "half", "cloned"} /\ dir' = "absent") =>
            given # "directory" /\ (overlapped \/ dir # "cloned") ]_vars

\* "We only ever remove a directory WE created - never a pre-existing one the
\* user gave us" (clone.go), of what else may be at the path: a clone removes
\* nothing but directories.  The code does not keep to it: see clone_file.
OnlyDirectoriesRemoved == [][ dir' = "absent" => dir # "file" ]_vars
=============================================================================
