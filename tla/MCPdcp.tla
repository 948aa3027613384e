------------------------------- MODULE MCPdcp -------------------------------
(* The PDCP model with SNs of three bits, started shortly before the SN    *)
(* wraps around and the hyper frame number grows.                          *)
EXTENDS Pdcp
=============================================================================
