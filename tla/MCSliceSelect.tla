--------------------------- MODULE MCSliceSelect ---------------------------
(* Two UEs, the first idle.  Slices 1 and 2 are configured, the NSSAI "x"    *)
(* is in neither.                                                            *)
EXTENDS SliceSelect

MCSidOf == [n \in Nssais |-> CASE n = "a" -> 1 [] n = "b" -> 2 [] OTHER -> 0]
=============================================================================
