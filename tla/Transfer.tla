------------------------------ MODULE Transfer ------------------------------
(* What RLC acknowledged mode promises to the layer above it: an SDU that    *)
(* was accepted is handed over at the other side at most once, whole and     *)
(* unmixed, and its delivery is only confirmed to the sender afterwards.     *)
(* SDUs may be handed over in any order.                                     *)
EXTENDS Naturals, Sequences

CONSTANT Sdus

VARIABLES accepted,   \* the SDUs taken from the layer above
          delivered,  \* what was handed over, each as the set of SDUs it holds bytes of
          confirmed   \* the SDUs reported as delivered

vars == <<accepted, delivered, confirmed>>

Init == accepted = {} /\ delivered = <<>> /\ confirmed = {}

HandedOver == {i \in Sdus : \E k \in 1..Len(delivered) : i \in delivered[k]}

Accept == \E i \in Sdus \ accepted :
  accepted' = accepted \cup {i} /\ UNCHANGED <<delivered, confirmed>>

Deliver == \E i \in accepted \ HandedOver :
  delivered' = Append(delivered, {i}) /\ UNCHANGED <<accepted, confirmed>>

Confirm == \E S \in SUBSET (HandedOver \ confirmed) :
  confirmed' = confirmed \cup S /\ UNCHANGED <<accepted, delivered>>

Next == Accept \/ Deliver \/ Confirm

Spec == Init /\ [][Next]_vars
=============================================================================
