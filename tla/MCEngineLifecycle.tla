-------------------------- MODULE MCEngineLifecycle --------------------------
(***************************************************************************)
(* Instances of EngineLifecycle for TLC.                                   *)
(***************************************************************************)
EXTENDS EngineLifecycle

CONSTANTS c1, c2, k1, k2, q1, q2

AllOps == {"start", "stop", "restart", "save", "apply"}
=============================================================================
