------------------------------- MODULE MCRlcAm -------------------------------
(* RLC acknowledged mode for TLC. *)
EXTENDS RlcAm

Infinite == -1

\* Each SDU goes in one PDU or byte by byte; a report of nine bytes has room for
\* one NACK with offsets, one of twenty for two.
MCSizes == <<3, 1, 1>>
MCGrants == {3, 5}
MCStatusGrants == {9, 20}
=============================================================================
