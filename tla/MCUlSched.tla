----------------------------- MODULE MCUlSched -----------------------------
(* UlSched on a band of eight RBs and a minimum grant of two.              *)
EXTENDS UlSched

\* Nothing blocked; PUCCH at the low end, at the high end, at both; PRACH inside.
SomeBlocks == {{}, {0}, {BW - 1}, {0, BW - 1}, {2, 3}, {3, 4}}
=============================================================================
