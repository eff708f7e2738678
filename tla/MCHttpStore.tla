---------------------------- MODULE MCHttpStore ----------------------------
(* Instances of HttpStore for TLC. *)
EXTENDS HttpStore
=============================================================================
