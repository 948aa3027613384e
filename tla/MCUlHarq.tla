------------------------------ MODULE MCUlHarq ------------------------------
(* UlHarq on two processes and blocks of two bytes.                        *)
EXTENDS UlHarq
=============================================================================
