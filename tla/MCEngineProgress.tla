-------------------------- MODULE MCEngineProgress --------------------------
(* The engine for TLC, with some clients whose calls are answered.         *)
EXTENDS MCEngine, EngineProgress
=============================================================================
