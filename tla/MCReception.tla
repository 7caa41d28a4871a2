---------------------------- MODULE MCReception ----------------------------
(***************************************************************************)
(* Instances of Reception for TLC.                                         *)
(***************************************************************************)
EXTENDS Reception

CONSTANTS c1, c2

Symmetry == Permutations(Conns)

Config(mode, capture, failure, sidecar) ==
    [mode |-> mode, capture |-> capture, failure |-> failure, sidecar |-> sidecar]

\* Every save mode, capture mode and failure policy occurs.
SomeConfigs == {Config("both", "both", "block", FALSE),
                Config("raw", "orig", "spool_retry", TRUE),
                Config("meta", "sent", "best_effort", TRUE)}

\* A target with the "block" policy.
Block == {Config("both", "orig", "block", FALSE)}
=============================================================================
