----------------------------- MODULE MCAccounts -----------------------------
(* Instances of the server's accounts for TLC. *)
EXTENDS AccountsProperties, TLC

\* User names are interchangeable, and so are workers.
Symmetry == Permutations(Users) \cup Permutations(Workers)
=============================================================================
