--------------------------- MODULE MCForwardSpool ---------------------------
(***************************************************************************)
(* Instances of ForwardSpool for TLC.                                      *)
(***************************************************************************)
EXTENDS ForwardSpool

CONSTANTS j1, j2

OneItem == {j1}
TwoItems == {j1, j2}

\* Each start may have lost or regained any target.
AnyConfig == SUBSET Items
AllKnown == {Items}
=============================================================================
