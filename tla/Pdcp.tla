-------------------------------- MODULE Pdcp --------------------------------
(***************************************************************************)
(* One radio bearer's PDCP in one direction: the transmitting half of an   *)
(* entity, the layer below, and the receiving half of its peer             *)
(* (openair2/LAYER2/nr_pdcp/nr_pdcp_entity.c).  The sender numbers SDUs    *)
(* with a COUNT and puts only its low bits, the SN, into the PDU.  The     *)
(* receiver rebuilds the COUNT, drops what it has, holds back what comes   *)
(* early, and gives up on a gap when t-Reordering expires.                 *)
(*                                                                         *)
(* A PDU is the pair of its numbering period (epoch) and its true COUNT;   *)
(* the receiver reads only the SN of the latter.  An epoch ends wherever   *)
(* the code sets tx_next, rx_next and rx_deliv to 0.                       *)
(*                                                                         *)
(* The layer below (external) loses, duplicates and reorders PDUs, but     *)
(* what arrives is within Window of rx_deliv, as an RLC window no larger   *)
(* than PDCP's ensures.  The two ends are re-established by the same RRC   *)
(* procedure, which re-establishes the RLC under them too.                 *)
(*                                                                         *)
(* An entity knows the time from nr_pdcp_tick, which the MAC scheduler of  *)
(* a gNB and a UE in standalone or noS1 mode call; in a CU, a CU-UP or a   *)
(* non-standalone UE nobody does.  t_reordering_start is the time the      *)
(* timer was started at and 0 means that it does not run: a timer started  *)
(* before the first tick of its entity does not run.                       *)
(***************************************************************************)
EXTENDS Integers, FiniteSets

CONSTANTS Window,      \* window_size, half the SN space
          HfnModulus,  \* number of values of the hyper frame number
          StartCount,  \* COUNT the first epoch is observed from
          MaxSdus,     \* bound: SDUs sent per epoch
          MaxEpoch     \* bound: times the numbering restarts

SnModulus == 2 * Window
CountModulus == HfnModulus * SnModulus

\* COUNT does not reach its wrap-around, at 2^32 in the code.
ASSUME PdcpAssumption ==
  /\ Window \in Nat \ {0}
  /\ HfnModulus \in Nat \ {0}
  /\ StartCount \in Nat
  /\ MaxSdus \in Nat
  /\ StartCount + MaxSdus < CountModulus
  /\ MaxEpoch \in Nat

VARIABLES
  is_gnb,     \* the receiver is a gNB's (or CU's), not a UE's
  ticks,      \* nr_pdcp_tick is called where the receiver is
  type,       \* "drb_am" or "srb"
  status,     \* "active" or "released"
  epoch,      \* numbering period
  tx_next,    \* COUNT of the next SDU to send
  air,        \* PDUs in the layer below
  rx_deliv,   \* COUNT of the first SDU not delivered yet
  rx_next,    \* COUNT after the highest received
  rx_reord,   \* value of rx_next when t-Reordering was started
  rx_list,    \* SDUs held back: the COUNT computed, the PDU it came in
  clock,      \* t_current # 0
  running,    \* t_reordering_start # 0
  infinite,   \* t_reordering = -1
  delivered,  \* PDUs whose SDU was given to the layer above
  blind       \* history: the last SDU was accepted before the first tick

site == <<is_gnb, ticks>>
rxVars == <<rx_deliv, rx_next, rx_reord, rx_list, running, delivered, blind>>
vars == <<site, type, status, epoch, tx_next, air, clock, infinite, rxVars>>

Count == 0..(CountModulus - 1)
Pdu == [epoch : 0..MaxEpoch, count : Count]

\* A bearer whose first StartCount SDUs have all been delivered.
Init ==
  /\ is_gnb \in BOOLEAN /\ ticks \in BOOLEAN
  /\ clock \in BOOLEAN /\ (clock => ticks)
  /\ type \in {"drb_am", "srb"}
  /\ status = "active"
  /\ epoch = 0
  /\ tx_next = StartCount /\ air = {}
  /\ rx_deliv = StartCount /\ rx_next = StartCount
  /\ rx_reord \in 0..StartCount /\ rx_list = {}
  /\ running = FALSE /\ infinite = FALSE
  /\ delivered = {} /\ blind = FALSE

-----------------------------------------------------------------------------
(* Transmitting half and the layer below                                   *)

ProcessSdu ==
  /\ status = "active"
  /\ tx_next < MaxSdus + (IF epoch = 0 THEN StartCount ELSE 0)
  /\ air' = air \cup {[epoch |-> epoch, count |-> tx_next]}
  /\ tx_next' = tx_next + 1
  /\ UNCHANGED <<site, type, status, epoch, clock, infinite, rxVars>>

Lose(p) ==
  /\ air' = air \ {p}
  /\ UNCHANGED <<site, type, status, epoch, tx_next, clock, infinite, rxVars>>

\* What the layer below may hand over while the entity is active.
Reachable(p) == rx_deliv - Window <= p.count /\ p.count < rx_deliv + Window

-----------------------------------------------------------------------------
(* Receiving half                                                          *)

Counts(list) == {e.count : e \in list}

\* Faulty variant: the lower comparison includes the edge of the window.
RcvdHfnEdge(sn) ==
  LET deliv_sn == rx_deliv % SnModulus
      deliv_hfn == rx_deliv \div SnModulus
  IN  IF sn <= deliv_sn - Window THEN (deliv_hfn + 1) % HfnModulus
      ELSE IF sn >= deliv_sn + Window THEN (deliv_hfn - 1) % HfnModulus
      ELSE deliv_hfn
\* The hyper frame number of a received SN: the one that brings it within
\* Window of rx_deliv.
RcvdHfn(sn) ==
  LET deliv_sn == rx_deliv % SnModulus
      deliv_hfn == rx_deliv \div SnModulus
  IN  IF sn < deliv_sn - Window THEN (deliv_hfn + 1) % HfnModulus
      ELSE IF sn >= deliv_sn + Window THEN (deliv_hfn - 1) % HfnModulus
      ELSE deliv_hfn
\* The COUNT: hyper frame number and SN.
RcvdCount(sn) == RcvdHfn(sn) * SnModulus + sn

\* Where a delivery that starts at COUNT from stops: the first COUNT missing
\* from the list, whose head must be from for anything to be delivered.
Stops(from, counts, top) ==
  IF \E m \in counts : m < from
  THEN {from}
  ELSE {n \in from..top : n \notin counts /\ from..(n - 1) \subseteq counts}

Pdus(list) == {e.pdu : e \in list}

Discards(count) == count < rx_deliv \/ count \in Counts(rx_list)
\* Faulty variant: the timer stopped for one gap is not started for the next.
TimerOnce(deliv, next) ==
  LET on == running /\ deliv < rx_reord
  IN  /\ running' = (on \/ (clock /\ ~running /\ deliv < next))
      /\ rx_reord' = IF ~running /\ deliv < next THEN next ELSE rx_reord
\* The end of recv_pdu: stop t-Reordering when its gap is closed, start it
\* when there is (another) one; the start is t_current.
Timer(deliv, next) ==
  LET on == running /\ deliv < rx_reord
  IN  /\ running' = (on \/ (clock /\ deliv < next))
      /\ rx_reord' = IF ~on /\ deliv < next THEN next ELSE rx_reord

\* Faulty variant: the delivery loop does not stop at a gap.
AcceptThroughGap(p, count) ==
  LET list == rx_list \cup {[count |-> count, pdu |-> p]}
      next == IF count >= rx_next THEN count + 1 ELSE rx_next
  IN  \E deliv \in IF count = rx_deliv THEN Stops(count, Counts(list), next)
                                       ELSE {rx_deliv} :
        LET out == IF count = rx_deliv THEN list ELSE {}
        IN  /\ delivered' = delivered \cup Pdus(out)
            /\ rx_list' = list \ out
            /\ rx_deliv' = deliv
            /\ rx_next' = next
            /\ blind' = ~clock
            /\ Timer(deliv, next)
\* A new SDU: delivered with its successors if it is the one awaited.
Accept(p, count) ==
  LET list == rx_list \cup {[count |-> count, pdu |-> p]}
      next == IF count >= rx_next THEN count + 1 ELSE rx_next
  IN  \E deliv \in IF count = rx_deliv THEN Stops(count, Counts(list), next)
                                       ELSE {rx_deliv} :
        LET out == {e \in list : rx_deliv <= e.count /\ e.count < deliv}
        IN  /\ delivered' = delivered \cup Pdus(out)
            /\ rx_list' = list \ out
            /\ rx_deliv' = deliv
            /\ rx_next' = next
            /\ blind' = ~clock
            /\ Timer(deliv, next)

\* A copy may stay below, to arrive again.
RecvPdu(p, copy) ==
  /\ status = "active" => Reachable(p)
  /\ air' = IF copy THEN air ELSE air \ {p}
  /\ LET count == RcvdCount(p.count % SnModulus)
     IN  IF status # "active" \/ Discards(count) THEN UNCHANGED rxVars
         ELSE Accept(p, count)
  /\ UNCHANGED <<site, type, status, epoch, tx_next, clock, infinite>>

Expired == {e \in rx_list : e.count < rx_reord}
\* Faulty variant: the delivery starts from rx_deliv, so the gap stays.
ReorderAgain ==
  /\ running' = (rx_deliv < rx_next)
  /\ rx_reord' = rx_next
  /\ UNCHANGED <<delivered, rx_list, rx_deliv>>
\* Faulty variant: what lies below rx_reord is freed without being delivered.
ReorderFrees ==
  \E deliv \in Stops(rx_reord, Counts(rx_list \ Expired), rx_next) :
    LET out == {e \in rx_list : rx_reord <= e.count /\ e.count < deliv}
    IN  /\ delivered' = delivered \cup Pdus(out)
        /\ rx_list' = rx_list \ (out \cup Expired)
        /\ rx_deliv' = deliv
        /\ running' = (deliv < rx_next)
        /\ rx_reord' = IF deliv < rx_next THEN rx_next ELSE rx_reord
\* Everything below rx_reord is delivered, then what follows without a gap;
\* the timer starts again if a gap is left.
Reorder ==
  \E deliv \in Stops(rx_reord, Counts(rx_list \ Expired), rx_next) :
    LET out == Expired \cup {e \in rx_list : rx_reord <= e.count /\ e.count < deliv}
    IN  /\ delivered' = delivered \cup Pdus(out)
        /\ rx_list' = rx_list \ out
        /\ rx_deliv' = deliv
        /\ running' = (deliv < rx_next)
        /\ rx_reord' = IF deliv < rx_next THEN rx_next ELSE rx_reord

\* set_time finds t-Reordering expired.
CheckTReordering ==
  /\ status = "active" /\ ticks
  /\ running /\ ~infinite
  /\ Reorder
  /\ UNCHANGED <<site, type, status, epoch, tx_next, air, clock, infinite, rx_next, blind>>

\* The first set_time of an entity; the timer does not run yet.
FirstTick ==
  /\ status = "active" /\ ticks
  /\ ~clock
  /\ clock' = TRUE
  /\ UNCHANGED <<site, type, status, epoch, tx_next, air, infinite, rxVars>>

-----------------------------------------------------------------------------
(* Re-establishment, reconfiguration, release                              *)

\* The numbering starts again, a new epoch unless nothing was sent in this
\* one; rx_reord keeps its value.
Restart ==
  /\ epoch' = IF tx_next = 0 THEN epoch ELSE epoch + 1
  /\ epoch' <= MaxEpoch
  /\ tx_next' = 0 /\ rx_next' = 0 /\ rx_deliv' = 0
  /\ running' = FALSE /\ blind' = FALSE
  /\ rx_list' = {}
  /\ UNCHANGED rx_reord

\* Re-established, a data bearer goes on as it was.
ReestablishDrb ==
  /\ status = "active" /\ type = "drb_am"
  /\ air' = {}
  /\ UNCHANGED <<site, type, status, epoch, tx_next, clock, infinite, rxVars>>

\* Re-established, a signalling bearer frees what it holds.
ReestablishSrb ==
  /\ status = "active" /\ type = "srb"
  /\ air' = {}
  /\ Restart
  /\ UNCHANGED <<site, type, status, clock, infinite, delivered>>

\* Only a UE is reconfigured: t_reordering is set, a running timer goes on.
Reconfigure ==
  /\ status = "active" /\ ~is_gnb
  /\ infinite' \in BOOLEAN
  /\ UNCHANGED <<site, type, status, epoch, tx_next, air, clock, rxVars>>

\* A UE releases a bearer: a data bearer delivers what it holds, a signalling
\* bearer is only deleted.
Release ==
  /\ status = "active" /\ ~is_gnb
  /\ status' = "released"
  /\ delivered' = IF type = "srb" THEN delivered ELSE delivered \cup Pdus(rx_list)
  /\ Restart
  /\ UNCHANGED <<site, type, air, clock, infinite>>

\* A gNB removes a UE: its bearers are deleted, whatever they hold.
RemoveUe ==
  /\ status = "active" /\ is_gnb
  /\ status' = "released"
  /\ Restart
  /\ UNCHANGED <<site, type, air, clock, infinite, delivered>>

\* The bearer is set up again, with a new entity.
Create ==
  /\ status = "released"
  /\ status' = "active"
  /\ type' \in {"drb_am", "srb"}
  /\ infinite' \in BOOLEAN
  /\ air' = {}
  /\ rx_reord' = 0 /\ clock' = FALSE
  /\ UNCHANGED <<site, epoch, tx_next, rx_deliv, rx_next, rx_list, running,
                 delivered, blind>>

Next ==
  \/ ProcessSdu
  \/ \E p \in air : Lose(p)
  \/ \E p \in air, copy \in BOOLEAN : RecvPdu(p, copy)
  \/ CheckTReordering
  \/ FirstTick
  \/ ReestablishDrb
  \/ ReestablishSrb
  \/ Reconfigure
  \/ Release
  \/ RemoveUe
  \/ Create

Spec == Init /\ [][Next]_vars

\* Where nr_pdcp_tick is called, it is called each millisecond and the timer
\* thread then calls set_time of every entity.
FairSpec == Spec /\ WF_vars(CheckTReordering)

-----------------------------------------------------------------------------
(* Properties                                                              *)

\* Every variable has its type; the COUNTs nr_pdcp_entity_recv_pdu computes
\* from a received SN fit the width of its counters.
TypeOK ==
  /\ is_gnb \in BOOLEAN /\ ticks \in BOOLEAN /\ clock \in BOOLEAN
  /\ running \in BOOLEAN /\ infinite \in BOOLEAN /\ blind \in BOOLEAN
  /\ type \in {"drb_am", "srb"}
  /\ status \in {"active", "released"}
  /\ epoch \in 0..MaxEpoch
  /\ tx_next \in Count
  /\ air \subseteq Pdu
  /\ rx_deliv \in Count
  /\ rx_next \in Count
  /\ rx_reord \in Count
  /\ rx_list \subseteq [count : Count, pdu : Pdu]
  /\ delivered \subseteq Pdu

\* The COUNT the receiver computed for a held SDU is the one its sender used:
\* with another one nr_pdcp_entity_recv_pdu would decipher with the wrong key
\* stream, or take the SDU for another.
CountsRight ==
  \A e \in rx_list : e.pdu = [epoch |-> epoch, count |-> e.count]

\* t-Reordering runs exactly while there is a gap that the last accepted PDU
\* found or left after the first tick of the entity, rx_reord lies beyond that
\* gap, and only SDUs beyond it are held (the end of nr_pdcp_entity_recv_pdu).
\* Before its first tick an entity starts no timer, nor does the tick itself.
ReorderingConsistent ==
  /\ running <=> rx_deliv < rx_next /\ ~blind
  /\ rx_deliv <= rx_next /\ rx_next <= tx_next
  /\ running => rx_deliv < rx_reord /\ rx_reord <= rx_next
  /\ \A e \in rx_list : rx_deliv < e.count /\ e.count < rx_next

Before(p, q) == p.epoch < q.epoch \/ (p.epoch = q.epoch /\ p.count < q.count)

\* SDUs are delivered in the order they were sent, each once, whatever the
\* layer below repeats or reorders and however often the bearer is
\* re-established or set up again.  (Within a step the list is delivered in its
\* order.)
InOrderOnce ==
  [][\A p \in delivered, q \in delivered' \ delivered : Before(p, q)]_vars

\* An SDU that was accepted leaves the list only by being delivered, but for a
\* signalling bearer whose numbering restarts and for a gNB that removes the UE
\* (nr_pdcp_manager_remove_ue), where free_rx_list throws it away.
NoneSwallowed ==
  [][\/ Pdus(rx_list \ rx_list') \subseteq delivered'
     \/ type = "srb" /\ epoch' # epoch
     \/ is_gnb /\ status' = "released"]_vars

\* Where nr_pdcp_tick is called no SDU is held for ever behind a lost one,
\* unless t-Reordering is infinite or the entity had no tick yet when it
\* accepted its last PDU (check_t_reordering).
HeldIsReleased ==
  \A c \in 0..(StartCount + MaxSdus) :
    (c \in Counts(rx_list) /\ ticks)
      ~> (c \notin Counts(rx_list) \/ infinite \/ blind)

\* Every gap has its timer.  Not so: the one that a PDU finds before the first
\* tick has none (nr_pdcp_entity_recv_pdu starts it at t_current = 0).
GapIsTimed == rx_deliv < rx_next => running
=============================================================================
