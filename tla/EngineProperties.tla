-------------------------- MODULE EngineProperties --------------------------
(***************************************************************************)
(* What the push/fetch/membership engine promises.                         *)
(***************************************************************************)
EXTENDS Engine

\* Every variable stays in its type; versions, hashes and bounds are naturals.
TypeOK ==
    /\ rlog \in Seq(Roster) /\ Len(rlog) > 0
    /\ mlog \in Seq(Manifest)
    /\ keyfile \in [gen : Nat, key : Nat, to : SUBSET Clients]
    /\ blobs \in SUBSET Pack
    /\ pinR \in [Clients -> Roster]
    /\ pinM \in [Clients -> Nat]
    /\ keys \in [Clients -> SUBSET Nat]
    /\ got \in [Clients -> SUBSET Pack]
    /\ local \in [Clients -> SUBSET Commits]
    /\ refs \in [Clients -> [Refs -> Commits]]
    /\ op \in [Clients -> Op]
    /\ lastId \in Nat
    /\ budget \in [Kinds -> Nat]
    /\ \A k \in Kinds : budget[k] <= Budget[k]

-----------------------------------------------------------------------------
(* The two chains *)

\* The committed rosters form one authorized chain from genesis: versions count
\* up by one, each names its predecessor's hash, and its author was a member of
\* that predecessor, whatever membership changes race (roster.go, CASRoster).
RosterChain ==
    \A i \in 2 .. Len(rlog) :
        /\ rlog[i].version = rlog[i-1].version + 1
        /\ rlog[i].prev = rlog[i-1].id
        /\ rlog[i].author \in rlog[i-1].members

\* The committed manifests form one chain: versions count from 1 and each names
\* the hash of the manifest it replaced, however pushes and re-issues race.
ManifestChain ==
    \A i \in 1 .. Len(mlog) : mlog[i].version = i /\ mlog[i].prev = i - 1

\* A manifest bound to a committed roster was signed by a member of that roster:
\* a removed member's late push never carries the roster that excludes it.
SignerInBoundRoster ==
    \A i \in 1 .. Len(mlog), j \in 1 .. Len(rlog) :
        mlog[i].roster = rlog[j].id => mlog[i].signer \in rlog[j].members

\* What a state file pins was really committed: a roster of the chain and a
\* manifest of the chain, even when the operation that built it was beaten.
PinsCommitted ==
    \A c \in Clients :
        /\ pinR[c] = NoRoster \/ \E i \in 1 .. Len(rlog) : pinR[c] = rlog[i]
        /\ pinM[c] <= Len(mlog)

\* Pins move along the chains only (roster.go, Fetch): a client that pinned a
\* roster goes on to one that names it and that one of its members signed, and a
\* client that pinned a manifest goes on to the one that names it or, further
\* ahead, to one it published itself.  A client that missed a version stops.
PinsFollowChains ==
    [][\A c \in Clients :
        /\ pinR'[c] # pinR[c] =>
              \/ pinR[c] = NoRoster
              \/ pinR'[c].prev = pinR[c].id /\ pinR'[c].author \in pinR[c].members
        /\ pinM'[c] # pinM[c] =>
              \/ pinM[c] = 0
              \/ mlog'[pinM'[c]].prev = pinM[c]
              \/ pinM'[c] > pinM[c] /\ mlog'[pinM'[c]].signer = c]_vars

-----------------------------------------------------------------------------
(* Content *)

\* A commit of the head manifest is in one of the packs it lists: neither the
\* rebase after a conflict nor a re-issue nor a rekey drops objects that a ref
\* still needs.
RefsCovered ==
    \A i \in 1 .. Len(mlog) : Tips(mlog[i].refs) \subseteq DataOf(mlog[i].packs)

\* Every pack the current manifest lists is in the store: FullRekey deletes
\* blobs only when no manifest that can still become current lists them.
HeadPacksStored == PacksAt(Len(mlog)) \subseteq blobs

\* A new manifest changes only the refs its publisher asked to push; every
\* other ref keeps the value of the manifest it replaces, so no push and no
\* re-issue loses a concurrent push to another branch (5.6 rebase).
NoLostUpdate ==
    [][Len(mlog') > Len(mlog) =>
          LET new == mlog'[Len(mlog')] IN
          \A r \in Refs :
              \/ new.refs[r] = RefsAt(Len(mlog))[r]
              \/ new.refs[r] = op[new.signer].want[r] /\ new.refs[r] # 0]_vars

\* A pack marked as imported has its objects in the local git store: fetch and
\* rebase skip such packs for good.
ImportedAreLocal == \A c \in Clients : DataOf(got[c]) \subseteq local[c]

\* A client whose pin is the current manifest has nothing to import: fetch
\* returns at once for such a client.
NothingToImport ==
    \A c \in Clients :
        (op[c].pc = "idle" /\ pinM[c] # 0 /\ pinM[c] = Len(mlog)) =>
            DataOf(PacksAt(pinM[c])) \subseteq local[c]

-----------------------------------------------------------------------------
(* Keys *)

\* A repo key under which a roster was published is held only by clients that
\* were members of a roster published under that key: a removed member never
\* obtains the key its removal introduced, whatever races or fails.
KeyConfined ==
    \A c \in Clients, i \in 1 .. Len(rlog) :
        rlog[i].key \in keys[c] =>
            \E j \in 1 .. Len(rlog) :
                rlog[j].key = rlog[i].key /\ c \in rlog[j].members

\* When the keyfile's generation is the current roster's, its key is the
\* current roster's key: the check of checkKeyfileGeneration is sound.
GenerationNamesKey ==
    keyfile.gen = RosterHead.gen => keyfile.key = RosterHead.key

\* When nobody is in the middle of an operation, the keyfile carries the current
\* roster's generation and key for its members, and the current manifest is
\* bound to the current roster and sealed under its key.
ConsistentAtRest ==
    (\A c \in Clients : op[c].pc = "idle") =>
        /\ keyfile = [gen |-> RosterHead.gen, key |-> RosterHead.key,
                      to |-> RosterHead.members]
        /\ mlog # << >> => /\ mlog[Len(mlog)].roster = RosterHead.id
                           /\ mlog[Len(mlog)].key = RosterHead.key

-----------------------------------------------------------------------------
(* Progress *)

\* A push is made to retry by other members' publications only: every conflict it
\* has counted stands for one more manifest that was committed since its own pin,
\* so that no push uses up its attempts while nobody makes progress (Push starts
\* each attempt from a fresh manifest, maxPushRetries).
ConflictsAreProgress ==
    \A c \in Clients :
        op[c].kind = "push" => pinM[c] + op[c].tries <= Len(mlog)
=============================================================================
