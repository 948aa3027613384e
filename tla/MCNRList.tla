------------------------------ MODULE MCNRList ------------------------------
(* Lists of up to MaxLen ids, every call in every state. *)
EXTENDS NRList
=============================================================================
