--------------------------- MODULE MCUeLifecycle ---------------------------
(* UeLifecycle with few RNTIs and timers of a few slots.                   *)
EXTENDS UeLifecycle
=============================================================================
