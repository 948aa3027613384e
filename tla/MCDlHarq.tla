------------------------------ MODULE MCDlHarq ------------------------------
(* DlHarq on two processes and a frame counter of four frames.             *)
EXTENDS DlHarq
=============================================================================
