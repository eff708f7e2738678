------------------------------ MODULE MCEngine ------------------------------
(* Instances of the engine for TLC. *)
EXTENDS EngineProperties, TLC

CONSTANTS a, b, c

\* Founder a has added b.
JoinedAB == <<a, b>>
\* Founder a has added b, then c.
JoinedABC == <<a, b, c>>

Ops(commits, pushes, fetches, adds, removes, rekeys) ==
    [k \in Kinds |-> CASE k = "commit" -> commits [] k = "push" -> pushes
                       [] k = "fetch" -> fetches  [] k = "add" -> adds
                       [] k = "remove" -> removes [] k = "rekey" -> rekeys]

PushFetchBudget  == Ops(2, 3, 2, 0, 0, 0)
MembershipBudget == Ops(1, 1, 1, 1, 2, 0)
RekeyBudget      == Ops(1, 2, 1, 0, 1, 1)
RaceBudget       == Ops(0, 0, 0, 1, 1, 0)
=============================================================================
