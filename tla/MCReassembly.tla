---------------------------- MODULE MCReassembly ----------------------------
(***************************************************************************)
(* Instances of Reassembly for TLC.                                        *)
(***************************************************************************)
EXTENDS Reassembly

CONSTANTS k1, k2

\* The sequence numbers of the first flow wrap within its stream.
IsnWraps == [k \in Flows |-> IF k = k1 THEN SeqMod - 3 ELSE 1]

\* A stream in four segments, and one retransmission of it all.
Aligned == {<<0, 1>>, <<1, 1>>, <<2, 1>>, <<3, 1>>, <<0, 4>>}

\* A retransmission cut differently.
Recut == {<<0, 2>>, <<1, 2>>, <<2, 2>>}
=============================================================================
