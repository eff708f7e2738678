--------------------------- MODULE MCLoginThrottle ---------------------------
(* Instances of LoginThrottle for TLC. *)
EXTENDS LoginThrottle, TLC

\* Workers are interchangeable.
Symmetry == Permutations(Workers)
=============================================================================
