--------------------------- MODULE EngineProgress ---------------------------
(***************************************************************************)
(* Progress of the push/fetch/membership engine, under an assumption about *)
(* its environment that the code does not enforce.                         *)
(*                                                                         *)
(* An operation is a sequential program that waits for the store, for git  *)
(* and, with a directory store, for a file lock.  None of these calls has  *)
(* a deadline (transport.go and httpstore.go use HTTP clients without a    *)
(* timeout): a call that is never answered blocks its client for good.     *)
(* Here the calls of some clients are assumed to be answered, with or      *)
(* without success; those of the others may hang anywhere.                 *)
(***************************************************************************)
EXTENDS EngineProperties

CONSTANT Answered    \* the clients whose calls are all answered

ASSUME AnsweredAssumption == Answered \subseteq Clients

\* Environment assumption: whatever such a client waits for is answered in the
\* end.  Nothing obliges a user to commit or to begin an operation.
AnsweredSpec == Spec /\ \A c \in Answered : WF_vars(Step(c))

\* Every operation of an answered client returns, however the others interleave
\* with it, race it, die, or hang in the middle of a push, a removal or a rekey:
\* no client waits for another one's operation, and a retry is counted.
OperationsReturn ==
    \A c \in Answered : (op[c].pc # "idle") ~> (op[c].pc = "idle")
=============================================================================
