---------------------------- MODULE MCSliceSched ----------------------------
(***************************************************************************)
(* Instances of SliceSched: bandwidth parts of a few RBs, a minimum          *)
(* allocation of 2 RBs, the default slice and two configured ones.           *)
(***************************************************************************)
EXTENDS SliceSched

\* Masks with the RBs of "blocked" taken in all symbols and those of "partly"
\* taken in the late symbols only.
MaskOf(blocked, partly) ==
  [rb \in RB |-> IF rb \in blocked THEN {} ELSE IF rb \in partly THEN {"h"} ELSE Symbols]

\* Nothing blocked, the low end of the band, a block in the middle (such as the
\* SSB), and one that leaves the early symbols free.
SomeMasks == {MaskOf({}, {}), MaskOf({0}, {}), MaskOf({1}, {}), MaskOf({}, {3, 4})}
\* The free RBs in one piece.
WholeMasks == {MaskOf({}, {}), MaskOf({0}, {})}

AnyGarbage == {-3, 20}

\* A CORESET 0 at either end of the band.
Coreset0 == {<<0, 3>>, <<2, BW - 1>>}
=============================================================================
