----------------------------- MODULE MCLocalFS -----------------------------
(* Instances of LocalFS for TLC. *)
EXTENDS LocalFS, TLC

Symmetry == Permutations(Procs)
=============================================================================
