---------------------------- MODULE MCWorkspace ----------------------------
(* Instance of Workspace for TLC.                                          *)
EXTENDS Workspace, TLC

CONSTANTS p1, p2

\* Two processes of one user.
MCProcs == {p1, p2}
MCSymmetry == Permutations(MCProcs)
=============================================================================
