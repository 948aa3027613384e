----------------------------- MODULE PdcpProofs -----------------------------
(***************************************************************************)
(* For every window, every width of the hyper frame number and any number  *)
(* of SDUs and restarts: the receiver computes the COUNT its peer used,    *)
(* t-Reordering runs exactly while there is a gap that the entity has seen *)
(* since its first tick, SDUs are delivered in order and once, and none    *)
(* that was accepted disappears, but where the entity is reset or deleted. *)
(***************************************************************************)
EXTENDS Pdcp, TLAPS

-----------------------------------------------------------------------------
(* Arithmetic of the sequence numbers                                      *)

\* Division with remainder, as the mask and the shift of the code compute it.
LEMMA Division ==
  ASSUME NEW a \in Nat, NEW m \in Nat, m > 0
  PROVE  /\ a \div m \in Nat
         /\ a % m \in 0..(m - 1)
         /\ a = m * (a \div m) + (a % m)
OBVIOUS

\* Multiplication by a natural number keeps the order.
LEMMA Monotone ==
  ASSUME NEW a \in Int, NEW b \in Int, NEW m \in Nat, a <= b
  PROVE  m * a <= m * b
OBVIOUS

\* A number below the modulus is its own remainder.
LEMMA Small ==
  ASSUME NEW a \in Nat, NEW m \in Nat, a < m
  PROVE  a % m = a
OBVIOUS

\* A product with a neighbour.
LEMMA Neighbours ==
  ASSUME NEW a \in Int, NEW m \in Int
  PROVE  /\ m * (a + 1) = m * a + m /\ m * (a - 1) = m * a - m
         /\ m * (a + 2) = m * a + 2 * m /\ m * (a - 2) = m * a - 2 * m
OBVIOUS

\* Two numbers less than m apart lie in the same or in neighbouring periods.
LEMMA NearPeriods ==
  ASSUME NEW c \in Nat, NEW d \in Nat, NEW m \in Nat, m > 0,
         c < d + m, d < c + m
  PROVE  c \div m \in {(d \div m) - 1, d \div m, (d \div m) + 1}
<1> DEFINE q == c \div m
           Q == d \div m
           s == c % m
           S == d % m
<1>1. /\ q \in Nat /\ Q \in Nat
      /\ s \in 0..(m - 1) /\ S \in 0..(m - 1)
      /\ c = m * q + s /\ d = m * Q + S
  BY Division, Zenon
<1> HIDE DEF q, Q, s, S
<1>2. ~(q >= Q + 2)
  <2>1. SUFFICES ASSUME q >= Q + 2 PROVE FALSE
    OBVIOUS
  <2>2. m * (Q + 2) <= m * q
    BY <1>1, <2>1, Monotone
  <2>3. m * (Q + 2) = m * Q + 2 * m
    BY <1>1, Neighbours
  <2>. QED
    BY <1>1, <2>2, <2>3
<1>3. ~(q <= Q - 2)
  <2>1. SUFFICES ASSUME q <= Q - 2 PROVE FALSE
    OBVIOUS
  <2>2. m * q <= m * (Q - 2)
    BY <1>1, <2>1, Monotone
  <2>3. m * (Q - 2) = m * Q - 2 * m
    BY <1>1, Neighbours
  <2>. QED
    BY <1>1, <2>2, <2>3
<1>4. q \in {Q - 1, Q, Q + 1}
  BY <1>1, <1>2, <1>3
<1>. QED
  BY <1>4, Zenon DEF q, Q

\* nr_pdcp_entity_recv_pdu rebuilds the COUNT of a PDU from its SN, whatever
\* rx_deliv is, if the PDU is within the window around it.
THEOREM CountRebuilt ==
  ASSUME rx_deliv \in Nat, NEW c \in Nat, c < CountModulus, rx_deliv < CountModulus,
         rx_deliv - Window <= c, c < rx_deliv + Window
  PROVE  RcvdCount(c % SnModulus) = c
<1> DEFINE m == SnModulus
           q == c \div m
           Q == rx_deliv \div m
           s == c % m
           S == rx_deliv % m
<1>1. /\ m \in Nat /\ m > 0 /\ m = 2 * Window
      /\ Window \in Nat /\ Window > 0 /\ HfnModulus \in Nat
      /\ CountModulus = HfnModulus * m
  BY PdcpAssumption DEF SnModulus, CountModulus
<1> HIDE DEF m
<1>2. /\ q \in Nat /\ Q \in Nat
      /\ s \in 0..(m - 1) /\ S \in 0..(m - 1)
      /\ c = m * q + s /\ rx_deliv = m * Q + S
  BY <1>1, Division, Zenon
<1>3. q \in {Q - 1, Q, Q + 1}
  BY <1>1, NearPeriods
<1>4. q % HfnModulus = q
  <2>1. q < HfnModulus
    <3>1. SUFFICES ASSUME HfnModulus <= q PROVE FALSE
      BY <1>1, <1>2
    <3>2. m * HfnModulus <= m * q
      BY <1>1, <1>2, <3>1, Monotone
    <3>3. m * HfnModulus = CountModulus
      BY <1>1
    <3>. QED
      BY <1>1, <1>2, <3>2, <3>3
  <2>. QED
    BY <1>1, <1>2, <2>1, Small, Zenon
<1>5. RcvdHfn(s) = IF s < S - Window THEN (Q + 1) % HfnModulus
                   ELSE IF s >= S + Window THEN (Q - 1) % HfnModulus
                   ELSE Q
  BY Zenon DEF RcvdHfn, m
<1>6. RcvdCount(s) = RcvdHfn(s) * m + s
  BY Zenon DEF RcvdCount, m
<1> HIDE DEF q, Q, s, S
<1>7. RcvdHfn(s) = q
  <2>1. CASE q = Q
    <3>1. ~(s < S - Window) /\ ~(s >= S + Window)
      BY <1>1, <1>2, <2>1
    <3>. QED
      BY <1>5, <2>1, <3>1, Zenon
  <2>2. CASE q = Q + 1
    <3>1. m * q = m * Q + m
      BY <1>1, <1>2, <2>2, Neighbours
    <3>2. s < S - Window
      BY <1>1, <1>2, <3>1
    <3>. QED
      BY <1>4, <1>5, <2>2, <3>2, Zenon
  <2>3. CASE q = Q - 1
    <3>1. m * q = m * Q - m
      BY <1>1, <1>2, <2>3, Neighbours
    <3>2. ~(s < S - Window) /\ s >= S + Window
      BY <1>1, <1>2, <3>1
    <3>. QED
      BY <1>4, <1>5, <2>3, <3>2, Zenon
  <2>. QED
    BY <1>3, <2>1, <2>2, <2>3, Zenon DEF q, Q
<1>8. q * m + s = c
  BY <1>1, <1>2
<1>9. RcvdCount(s) = c
  BY <1>6, <1>7, <1>8, Zenon
<1>. QED
  BY <1>9, Zenon DEF s, m

-----------------------------------------------------------------------------
(* The inductive invariant                                                 *)

\* What is in the layer below was sent in this epoch or in an earlier one;
\* re-establishment removes the latter before the entity is active again.
AirSent ==
  \A p \in air :
    /\ p.epoch < epoch \/ (p.epoch = epoch /\ p.count < tx_next)
    /\ status = "active" => p.epoch = epoch

\* What has been delivered in this epoch lies below rx_deliv.
DeliveredBehind ==
  \A p \in delivered :
    p.epoch < epoch \/ (p.epoch = epoch /\ p.count < rx_deliv)

\* The bound on the SDUs of an epoch, and the timer of an entity that is
\* deleted or had no tick yet.
Bounded ==
  /\ tx_next <= StartCount + MaxSdus
  /\ status = "released" => ~running
  /\ running => clock

Inv ==
  /\ TypeOK
  /\ CountsRight
  /\ ReorderingConsistent
  /\ AirSent
  /\ DeliveredBehind
  /\ Bounded

\* The COUNTs are integers, and the bound on them is one of them.
LEMMA CountRange ==
  /\ CountModulus \in Nat
  /\ StartCount + MaxSdus \in Count
  /\ Count \subseteq Nat
  /\ \A c \in Nat : c <= StartCount + MaxSdus => c \in Count
BY PdcpAssumption DEF CountModulus, SnModulus, Count

\* The fields of a PDU.
LEMMA PduFields ==
  ASSUME NEW p \in Pdu
  PROVE  /\ p.epoch \in 0..MaxEpoch /\ p.epoch \in Nat
         /\ p.count \in Count /\ p.count \in Nat
<1>1. p.epoch \in 0..MaxEpoch /\ p.count \in Count
  BY Zenon DEF Pdu
<1>2. p.count \in Nat
  BY <1>1, CountRange, Zenon
<1>3. p.epoch \in Nat
  BY <1>1
<1>. QED
  BY <1>1, <1>2, <1>3, Zenon

\* A bearer starts with nothing sent, held or delivered.
LEMMA InvInit == Init => Inv
<1> SUFFICES ASSUME Init PROVE Inv
  OBVIOUS
<1> USE CountRange, PdcpAssumption
<1>1. \A c \in 0..StartCount : c \in Count
  OBVIOUS
<1>2. TypeOK
  <2>1. StartCount \in Count /\ rx_reord \in Count /\ 0 \in 0..MaxEpoch
    BY <1>1 DEF Init
  <2>2. /\ epoch \in 0..MaxEpoch /\ tx_next \in Count /\ rx_deliv \in Count
        /\ rx_next \in Count
    BY <2>1, Zenon DEF Init
  <2>3. /\ type \in {"drb_am", "srb"} /\ status \in {"active", "released"}
        /\ air \subseteq Pdu /\ delivered \subseteq Pdu
        /\ rx_list \subseteq [count : Count, pdu : Pdu]
        /\ is_gnb \in BOOLEAN /\ ticks \in BOOLEAN /\ clock \in BOOLEAN
        /\ running \in BOOLEAN /\ infinite \in BOOLEAN /\ blind \in BOOLEAN
    BY Zenon DEF Init
  <2>. QED
    BY <2>1, <2>2, <2>3, Zenon DEF TypeOK
<1>3. ReorderingConsistent /\ Bounded
  BY DEF Init, ReorderingConsistent, Bounded
<1>4. CountsRight /\ AirSent /\ DeliveredBehind
  BY Zenon DEF Init, CountsRight, AirSent, DeliveredBehind
<1>. QED
  BY <1>2, <1>3, <1>4, Zenon DEF Inv

\* Sending adds one PDU with the next COUNT (nr_pdcp_entity_process_sdu).
LEMMA InvProcessSdu == Inv /\ ProcessSdu => Inv'
<1> SUFFICES ASSUME Inv, ProcessSdu PROVE Inv'
  OBVIOUS
<1> USE CountRange, PdcpAssumption
<1>1. tx_next' \in Count /\ tx_next' = tx_next + 1 /\ tx_next \in Nat
      /\ tx_next' <= StartCount + MaxSdus /\ epoch \in 0..MaxEpoch
  BY DEF Inv, TypeOK, Bounded, ProcessSdu
<1>2. [epoch |-> epoch, count |-> tx_next] \in Pdu
  BY Zenon DEF Inv, TypeOK, Pdu
<1>3. TypeOK'
  BY <1>1, <1>2, Zenon DEF Inv, TypeOK, ProcessSdu, rxVars, site
<1>4. CountsRight' /\ DeliveredBehind' /\ Bounded'
  BY <1>1, Zenon DEF Inv, CountsRight, DeliveredBehind, Bounded, ProcessSdu, rxVars
<1>5. ReorderingConsistent'
  BY <1>1 DEF Inv, TypeOK, ReorderingConsistent, ProcessSdu, rxVars
<1>6. AirSent'
  <2>1. SUFFICES ASSUME NEW p \in air'
                 PROVE  /\ p.epoch < epoch \/ (p.epoch = epoch /\ p.count < tx_next + 1)
                        /\ p.epoch = epoch
    BY <1>1, Zenon DEF AirSent, ProcessSdu
  <2>2. CASE p \in air
    <3>1. p.count \in Nat
      BY <2>2, Zenon DEF Inv, TypeOK, Pdu
    <3>2. p.epoch = epoch /\ (p.epoch < epoch \/ (p.epoch = epoch /\ p.count < tx_next))
      BY <2>2, Zenon DEF Inv, AirSent, ProcessSdu
    <3>. QED
      BY <1>1, <3>1, <3>2
  <2>3. CASE p = [epoch |-> epoch, count |-> tx_next]
    BY <1>1, <2>3
  <2>. QED
    BY <2>2, <2>3, Zenon DEF ProcessSdu
<1>. QED
  BY <1>3, <1>4, <1>5, <1>6, Zenon DEF Inv

\* Everything but the receiving half stays within the invariant when PDUs
\* leave the layer below.
LEMMA InvFewer ==
  ASSUME Inv, air' \subseteq air,
         UNCHANGED <<site, type, status, epoch, tx_next, clock, infinite, rxVars>>
  PROVE  Inv'
<1>1. TypeOK'
  BY Zenon DEF Inv, TypeOK, rxVars, site
<1>2. CountsRight' /\ DeliveredBehind' /\ Bounded' /\ AirSent'
  BY Zenon DEF Inv, CountsRight, DeliveredBehind, Bounded, AirSent, rxVars
<1>3. ReorderingConsistent'
  BY Zenon DEF Inv, ReorderingConsistent, rxVars
<1>. QED
  BY <1>1, <1>2, <1>3, Zenon DEF Inv

-----------------------------------------------------------------------------
(* Delivery                                                                *)

\* What a step may do to the delivered SDUs and to the held ones: the action
\* of InOrderOnce and of NoneSwallowed.
Ordered == \A p \in delivered, q \in delivered' \ delivered : Before(p, q)
Kept ==
  \/ Pdus(rx_list \ rx_list') \subseteq delivered'
  \/ type = "srb" /\ epoch' # epoch
  \/ is_gnb /\ status' = "released"

\* The common part of nr_pdcp_entity_recv_pdu and check_t_reordering: what
\* lies below the new rx_deliv is delivered, the rest stays behind a gap.
LEMMA InvDeliver ==
  ASSUME Inv,
         NEW list \in SUBSET [count : Count, pdu : Pdu],
         NEW deliv \in Nat, NEW next \in Nat, NEW out \in SUBSET list,
         rx_list \subseteq list,
         \A e \in list : /\ e.pdu = [epoch |-> epoch, count |-> e.count]
                         /\ rx_deliv <= e.count /\ e.count < next,
         rx_deliv <= deliv, deliv <= next, next <= tx_next,
         deliv \notin Counts(list),
         \A e \in list : e \in out <=> e.count < deliv,
         rx_list' = list \ out,
         delivered' = delivered \cup Pdus(out),
         rx_deliv' = deliv, rx_next' = next,
         blind' \in BOOLEAN, running' \in BOOLEAN,
         running' <=> deliv < next /\ ~blind', running' => clock,
         rx_reord' \in Count,
         running' => deliv < rx_reord' /\ rx_reord' <= next,
         status # "released",
         air' \subseteq air,
         UNCHANGED <<site, type, status, epoch, tx_next, clock, infinite>>
  PROVE  Inv' /\ Ordered /\ Kept
<1> USE CountRange
<1>0. \A e \in list : e.count \in Nat
  BY Zenon DEF Pdu
<1>1. TypeOK'
  <2>1. deliv \in Count /\ next \in Count
    BY PdcpAssumption DEF Inv, TypeOK, Bounded
  <2>2. Pdus(out) \subseteq Pdu
    BY Zenon DEF Pdus
  <2>. QED
    BY <2>1, <2>2, Zenon DEF Inv, TypeOK, site
<1>2. CountsRight'
  BY Zenon DEF CountsRight
<1>3. ReorderingConsistent'
  <2>1. ASSUME NEW e \in rx_list' PROVE deliv < e.count /\ e.count < next
    <3>1. e \in list /\ ~(e.count < deliv)
      BY <2>1, Zenon
    <3>2. e.count # deliv
      BY <3>1, Zenon DEF Counts
    <3>3. e.count \in Nat /\ e.count < next
      BY <1>0, <3>1, Zenon
    <3>. QED
      BY <3>1, <3>2, <3>3
  <2>. QED
    BY <2>1, Zenon DEF ReorderingConsistent, Inv, TypeOK
<1>4. AirSent' /\ Bounded'
  BY Zenon DEF Inv, AirSent, Bounded
<1>5. \A q \in Pdus(out) : /\ q.epoch = epoch /\ rx_deliv <= q.count
                          /\ q.count < deliv /\ q.count \in Nat
  <2>1. SUFFICES ASSUME NEW e \in out
                 PROVE  /\ e.pdu.epoch = epoch /\ rx_deliv <= e.pdu.count
                        /\ e.pdu.count < deliv /\ e.pdu.count \in Nat
    BY DEF Pdus
  <2>2. e \in list /\ e.count < deliv
    OBVIOUS
  <2>3. e.pdu = [epoch |-> epoch, count |-> e.count]
    BY <2>2, Zenon
  <2>4. e.pdu.epoch = epoch /\ e.pdu.count = e.count
    BY <2>3
  <2>. QED
    BY <1>0, <2>2, <2>4, Zenon
<1>6. \A p \in delivered : /\ p.epoch < epoch \/ (p.epoch = epoch /\ p.count < rx_deliv)
                           /\ p.epoch \in Nat /\ p.count \in Nat
  <2>1. SUFFICES ASSUME NEW p \in delivered
                 PROVE  /\ p.epoch < epoch \/ (p.epoch = epoch /\ p.count < rx_deliv)
                        /\ p.epoch \in Nat /\ p.count \in Nat
    OBVIOUS
  <2>2. p \in Pdu
    BY Zenon DEF Inv, TypeOK
  <2>3. p.epoch \in Nat /\ p.count \in Nat
    BY <2>2, PduFields, Zenon
  <2>. QED
    BY <2>3, Zenon DEF Inv, DeliveredBehind
<1>7. DeliveredBehind'
  <2>1. rx_deliv \in Nat
    BY Zenon DEF Inv, TypeOK
  <2>2. \A p \in delivered : p.epoch < epoch \/ (p.epoch = epoch /\ p.count < deliv)
    BY <1>6, <2>1
  <2>3. \A p \in delivered \cup Pdus(out) : p.epoch < epoch \/ (p.epoch = epoch /\ p.count < deliv)
    BY <1>5, <2>2, Zenon
  <2>. QED
    BY <2>3, Zenon DEF DeliveredBehind
<1>8. Ordered
  <2>1. SUFFICES ASSUME NEW p \in delivered, NEW q \in Pdus(out) PROVE Before(p, q)
    BY Zenon DEF Ordered
  <2>2. q.epoch = epoch /\ rx_deliv <= q.count /\ q.count \in Nat
    BY <1>5, Zenon
  <2>3. /\ p.epoch < epoch \/ (p.epoch = epoch /\ p.count < rx_deliv)
        /\ p.count \in Nat
    BY <1>6, Zenon
  <2>4. rx_deliv \in Nat
    BY Zenon DEF Inv, TypeOK
  <2>. QED
    BY <2>2, <2>3, <2>4 DEF Before
<1>9. Kept
  BY Zenon DEF Kept, Pdus
<1>. QED
  BY <1>1, <1>2, <1>3, <1>4, <1>7, <1>8, <1>9, Zenon DEF Inv

\* A delivery stops at a COUNT that is missing from the list.
LEMMA StopsAtGap ==
  ASSUME NEW from \in Nat, NEW top \in Nat, NEW counts \in SUBSET Nat,
         \A m \in counts : from <= m,
         NEW n \in Stops(from, counts, top)
  PROVE  n \in Nat /\ from <= n /\ n <= top /\ n \notin counts
<1>1. ~ \E m \in counts : m < from
  OBVIOUS
<1>2. n \in {k \in from..top : k \notin counts /\ from..(k - 1) \subseteq counts}
  BY <1>1, Zenon DEF Stops
<1>. QED
  BY <1>2

\* An SDU that is new is added, and delivered with its successors if it is
\* the one awaited (nr_pdcp_entity_recv_pdu).
LEMMA InvAccept ==
  ASSUME Inv, status = "active",
         NEW p \in air, ~Discards(p.count), Accept(p, p.count),
         air' \subseteq air, UNCHANGED <<site, type, status, epoch, tx_next, clock, infinite>>
  PROVE  Inv' /\ Ordered /\ Kept
<1> DEFINE c == p.count
           list == rx_list \cup {[count |-> c, pdu |-> p]}
           next == IF c >= rx_next THEN c + 1 ELSE rx_next
<1>1. /\ p \in Pdu /\ p.epoch = epoch /\ c \in Count /\ c \in Nat /\ c < tx_next
      /\ rx_deliv \in Nat /\ rx_next \in Nat /\ tx_next \in Nat
      /\ rx_reord \in Nat /\ rx_reord \in Count
  <2>1. p \in Pdu
    BY Zenon DEF Inv, TypeOK
  <2>2. p.epoch = epoch /\ (p.epoch < epoch \/ c < tx_next) /\ epoch \in 0..MaxEpoch
    BY Zenon DEF Inv, AirSent, TypeOK
  <2>3. /\ rx_deliv \in Count /\ rx_next \in Count /\ tx_next \in Count
        /\ rx_reord \in Count
    BY Zenon DEF Inv, TypeOK
  <2>4. /\ rx_deliv \in Nat /\ rx_next \in Nat /\ tx_next \in Nat
        /\ rx_reord \in Nat
    BY <2>3, CountRange, Zenon
  <2>. QED
    BY <2>1, <2>2, <2>3, <2>4, PduFields
<1>2. c >= rx_deliv /\ c \notin Counts(rx_list)
  BY <1>1 DEF Discards
<1>3. p = [epoch |-> epoch, count |-> c]
  BY <1>1, Zenon DEF Pdu
<1>4. /\ next \in Nat /\ rx_next <= next /\ c < next /\ next <= tx_next
      /\ rx_deliv <= next
  BY <1>1 DEF Inv, ReorderingConsistent
<1>5. list \in SUBSET [count : Count, pdu : Pdu]
  BY <1>1 DEF Inv, TypeOK
<1>6. ASSUME NEW e \in list
      PROVE  /\ e.pdu = [epoch |-> epoch, count |-> e.count]
             /\ rx_deliv <= e.count /\ e.count < next /\ e.count \in Nat
  <2>1. CASE e \in rx_list
    <3>1. e.count \in Nat
      BY <2>1, CountRange, Zenon DEF Inv, TypeOK
    <3>2. rx_deliv < e.count /\ e.count < rx_next
      BY <2>1, Zenon DEF Inv, ReorderingConsistent
    <3>3. e.pdu = [epoch |-> epoch, count |-> e.count]
      BY <2>1, Zenon DEF Inv, CountsRight
    <3> HIDE DEF next
    <3>. QED
      BY <1>1, <1>4, <3>1, <3>2, <3>3
  <2>2. CASE e = [count |-> c, pdu |-> p]
    <3> HIDE DEF next
    <3>. QED
      BY <1>1, <1>2, <1>3, <1>4, <2>2, Zenon
  <2>. QED
    BY <2>1, <2>2, Zenon
<1>7. PICK deliv \in IF c = rx_deliv THEN Stops(c, Counts(list), next) ELSE {rx_deliv} :
        /\ delivered' = delivered \cup Pdus({e \in list : rx_deliv <= e.count /\ e.count < deliv})
        /\ rx_list' = list \ {e \in list : rx_deliv <= e.count /\ e.count < deliv}
        /\ rx_deliv' = deliv
        /\ rx_next' = next
        /\ blind' = ~clock
        /\ Timer(deliv, next)
  BY Zenon DEF Accept
<1> HIDE DEF next
<1>8. deliv \in Nat /\ rx_deliv <= deliv /\ deliv <= next /\ deliv \notin Counts(list)
  <2>1. CASE c = rx_deliv
    <3>1. Counts(list) \in SUBSET Nat /\ \A m \in Counts(list) : c <= m
      BY <1>6, <2>1, Zenon DEF Counts
    <3>2. deliv \in Stops(c, Counts(list), next)
      BY <1>7, <2>1, Zenon
    <3> HIDE DEF list
    <3>. QED
      BY <1>1, <1>4, <2>1, <3>1, <3>2, StopsAtGap, Zenon
  <2>2. CASE c # rx_deliv
    <3>1. deliv = rx_deliv
      BY <1>7, <2>2, Zenon
    <3>2. ASSUME NEW e \in list PROVE e.count # rx_deliv
      <4>1. CASE e \in rx_list
        <5>1. e.count \in Nat /\ rx_deliv < e.count
          BY <4>1, <1>6, Zenon DEF Inv, ReorderingConsistent
        <5>. QED
          BY <5>1, <1>1
      <4>2. CASE e = [count |-> c, pdu |-> p]
        BY <4>2, <2>2, Zenon
      <4>. QED
        BY <4>1, <4>2, Zenon
    <3>. QED
      BY <1>1, <1>4, <3>1, <3>2 DEF Counts
  <2>. QED
    BY <2>1, <2>2, Zenon
<1> DEFINE out == {e \in list : rx_deliv <= e.count /\ e.count < deliv}
<1>9. out \in SUBSET list /\ \A e \in list : e \in out <=> e.count < deliv
  BY <1>6, Zenon
<1>10. /\ blind' \in BOOLEAN /\ running' \in BOOLEAN
       /\ running' <=> deliv < next /\ ~blind'
       /\ running' => clock
       /\ rx_reord' \in Count
       /\ running' => deliv < rx_reord' /\ rx_reord' <= next
  <2>1. /\ running => rx_reord <= rx_next /\ clock
        /\ running \in BOOLEAN /\ clock \in BOOLEAN
    BY Zenon DEF Inv, ReorderingConsistent, Bounded, TypeOK
  <2>2. next \in Count
    <3>1. next <= StartCount + MaxSdus
      BY <1>1, <1>4, PdcpAssumption DEF Inv, Bounded
    <3>. QED
      BY <1>4, <3>1, CountRange, Zenon
  <2>3. running' = ((running /\ deliv < rx_reord) \/ (clock /\ deliv < next))
    BY <1>7, Zenon DEF Timer
  <2>4. rx_reord' = IF ~(running /\ deliv < rx_reord) /\ deliv < next THEN next ELSE rx_reord
    BY <1>7, Zenon DEF Timer
  <2>5. (running /\ deliv < rx_reord) => deliv < next /\ clock
    BY <1>1, <1>4, <1>8, <2>1
  <2>6. (running' <=> clock /\ deliv < next) /\ running' \in BOOLEAN
    BY <2>3, <2>5, Zenon
  <2>7. rx_reord' \in Count /\ (running' => deliv < rx_reord' /\ rx_reord' <= next)
    <3>1. CASE running /\ deliv < rx_reord
      BY <1>1, <1>4, <1>8, <2>1, <2>4, <3>1
    <3>2. CASE ~(running /\ deliv < rx_reord) /\ deliv < next
      BY <1>1, <1>4, <1>8, <2>2, <2>4, <3>2
    <3>3. CASE ~(deliv < next)
      BY <1>1, <2>4, <2>5, <2>6, <3>3, Zenon
    <3>. QED
      BY <3>1, <3>2, <3>3, Zenon
  <2>8. blind' = ~clock
    BY <1>7, Zenon
  <2>. QED
    BY <2>1, <2>6, <2>7, <2>8, Zenon
<1>11. rx_list \subseteq list /\ status # "released"
  OBVIOUS
<1>12. delivered' = delivered \cup Pdus(out) /\ rx_list' = list \ out
       /\ rx_deliv' = deliv /\ rx_next' = next
  BY <1>7, Zenon
<1> HIDE DEF list, out
<1>. QED
  BY <1>4, <1>5, <1>6, <1>8, <1>9, <1>10, <1>11, <1>12, InvDeliver

\* A step that delivers and removes nothing is ordered and loses nothing.
LEMMA Untouched ==
  ASSUME UNCHANGED <<delivered, rx_list>>
  PROVE  Ordered /\ Kept
BY Zenon DEF Ordered, Kept, Pdus

\* Receiving a PDU: the COUNT computed is the one it was sent with.
LEMMA InvRecvPdu ==
  ASSUME Inv, NEW p \in air, NEW copy \in BOOLEAN, RecvPdu(p, copy)
  PROVE  Inv' /\ Ordered /\ Kept
<1>1. air' \subseteq air /\ UNCHANGED <<site, type, status, epoch, tx_next, clock, infinite>>
  BY Zenon DEF RecvPdu
<1>2. CASE UNCHANGED rxVars
  BY <1>1, <1>2, InvFewer, Untouched, Zenon DEF rxVars
<1>3. CASE ~UNCHANGED rxVars
  <2>1. status = "active" /\ Reachable(p)
    BY <1>3, Zenon DEF RecvPdu
  <2>2. p \in Pdu /\ rx_deliv \in Count
    BY Zenon DEF Inv, TypeOK
  <2>3. p.count \in Nat /\ p.count < CountModulus /\ rx_deliv \in Nat /\ rx_deliv < CountModulus
    BY <2>2, PduFields, CountRange DEF Count
  <2>4. RcvdCount(p.count % SnModulus) = p.count
    BY <2>1, <2>3, CountRebuilt, Zenon DEF Reachable
  <2>5. ~Discards(p.count) /\ Accept(p, p.count)
    BY <1>3, <2>4, Zenon DEF RecvPdu
  <2>. QED
    BY <1>1, <2>1, <2>5, InvAccept, Zenon
<1>. QED
  BY <1>2, <1>3, Zenon

\* Expiry of t-Reordering gives up on the gap (check_t_reordering).
LEMMA InvReorder ==
  ASSUME Inv, CheckTReordering
  PROVE  Inv' /\ Ordered /\ Kept
<1>1. /\ running /\ status # "released" /\ Reorder
      /\ UNCHANGED <<site, type, status, epoch, tx_next, air, clock, infinite, rx_next, blind>>
  BY Zenon DEF CheckTReordering
<1>2. /\ rx_deliv < rx_reord /\ rx_reord <= rx_next /\ rx_next <= tx_next
      /\ \A e \in rx_list : rx_deliv < e.count /\ e.count < rx_next
  BY <1>1, Zenon DEF Inv, ReorderingConsistent
<1>3. /\ rx_deliv \in Count /\ rx_next \in Count /\ rx_reord \in Count
      /\ rx_list \in SUBSET [count : Count, pdu : Pdu]
  BY Zenon DEF Inv, TypeOK
<1>4. /\ rx_deliv \in Nat /\ rx_next \in Nat /\ rx_reord \in Nat
      /\ \A e \in rx_list : e.count \in Nat
  BY <1>3, CountRange, Zenon
<1>5. PICK deliv \in Stops(rx_reord, Counts(rx_list \ Expired), rx_next) :
        LET out == Expired \cup {e \in rx_list : rx_reord <= e.count /\ e.count < deliv}
        IN  /\ delivered' = delivered \cup Pdus(out)
            /\ rx_list' = rx_list \ out
            /\ rx_deliv' = deliv
            /\ running' = (deliv < rx_next)
            /\ rx_reord' = IF deliv < rx_next THEN rx_next ELSE rx_reord
  BY <1>1, Zenon DEF Reorder
<1> DEFINE rest == Counts(rx_list \ Expired)
           out == Expired \cup {e \in rx_list : rx_reord <= e.count /\ e.count < deliv}
<1>6. rest \in SUBSET Nat /\ \A m \in rest : rx_reord <= m
  BY <1>4 DEF Counts, Expired
<1>7. deliv \in Nat /\ rx_reord <= deliv /\ deliv <= rx_next /\ deliv \notin rest
  <2> HIDE DEF rest
  <2>1. deliv \in Stops(rx_reord, rest, rx_next)
    BY <1>5, Zenon DEF rest
  <2>. QED
    BY <1>4, <1>6, <2>1, StopsAtGap, Zenon
<1>8. deliv \notin Counts(rx_list)
  <2>1. SUFFICES ASSUME NEW e \in rx_list, e.count = deliv PROVE FALSE
    BY Zenon DEF Counts
  <2>2. e \notin Expired
    BY <1>4, <1>7, <2>1 DEF Expired
  <2>. QED
    BY <1>7, <2>1, <2>2, Zenon DEF Counts
<1>9. out \in SUBSET rx_list /\ \A e \in rx_list : e \in out <=> e.count < deliv
  BY <1>4, <1>7 DEF Expired
<1>10. /\ delivered' = delivered \cup Pdus(out) /\ rx_list' = rx_list \ out
       /\ rx_deliv' = deliv /\ running' = (deliv < rx_next)
       /\ rx_reord' = IF deliv < rx_next THEN rx_next ELSE rx_reord
  BY <1>5, Zenon
<1>11. rx_reord' \in Count /\ (running' => deliv < rx_reord' /\ rx_reord' <= rx_next)
  <2>1. CASE deliv < rx_next
    <3>1. rx_reord' = rx_next
      BY <1>10, <2>1, Zenon
    <3>. QED
      BY <1>3, <1>4, <2>1, <3>1
  <2>2. CASE ~(deliv < rx_next)
    <3>1. rx_reord' = rx_reord
      BY <1>10, <2>2, Zenon
    <3>2. ~running'
      BY <1>10, <2>2, Zenon
    <3>. QED
      BY <1>3, <3>1, <3>2, Zenon
  <2>. QED
    BY <2>1, <2>2, Zenon
<1>12. \A e \in rx_list : /\ e.pdu = [epoch |-> epoch, count |-> e.count]
                          /\ rx_deliv <= e.count /\ e.count < rx_next
  BY <1>2, <1>4 DEF Inv, CountsRight
<1>13. rx_deliv <= deliv
  BY <1>2, <1>4, <1>7
<1>14. rx_next' = rx_next /\ air' \subseteq air
       /\ UNCHANGED <<site, type, status, epoch, tx_next, clock, infinite>>
  BY <1>1, Zenon
<1>15. /\ blind' \in BOOLEAN /\ running' \in BOOLEAN
       /\ running' <=> deliv < rx_next /\ ~blind'
       /\ running' => clock
  <2>1. blind' \in BOOLEAN /\ ~blind' /\ clock
    BY <1>1, Zenon DEF Inv, TypeOK, ReorderingConsistent, Bounded
  <2>2. running' = (deliv < rx_next)
    BY <1>10, Zenon
  <2>3. running' \in BOOLEAN
    BY <2>2
  <2>4. running' <=> deliv < rx_next
    BY <2>2, Zenon
  <2>. QED
    BY <2>1, <2>3, <2>4, Zenon
<1> HIDE DEF out, rest
<1>. QED
  BY <1>1, <1>2, <1>3, <1>4, <1>7, <1>8, <1>9, <1>10, <1>11, <1>12, <1>13, <1>14,
     <1>15, InvDeliver

-----------------------------------------------------------------------------
(* Ticks, re-establishment, release                                        *)

\* The first nr_pdcp_entity_set_time only sets the time.
LEMMA InvFirstTick ==
  ASSUME Inv, FirstTick
  PROVE  Inv' /\ Ordered /\ Kept
<1>1. TypeOK'
  BY Zenon DEF FirstTick, Inv, TypeOK, rxVars, site
<1>2. CountsRight' /\ ReorderingConsistent' /\ AirSent' /\ DeliveredBehind' /\ Bounded'
  BY Zenon DEF FirstTick, Inv, CountsRight, ReorderingConsistent, AirSent, DeliveredBehind,
         Bounded, rxVars
<1>. QED
  BY <1>1, <1>2, Untouched, Zenon DEF FirstTick, Inv, rxVars

\* A restart of the numbering, with the list delivered or thrown away.
LEMMA InvRestart ==
  ASSUME Inv, Restart,
         \/ delivered' = delivered \cup Pdus(rx_list)
         \/ delivered' = delivered /\ type = "srb"
         \/ delivered' = delivered /\ is_gnb /\ status' = "released",
         air' \subseteq air, status' \in {"active", "released"},
         status' = "active" => air' = {},
         UNCHANGED <<site, type, clock, infinite>>
  PROVE  Inv' /\ Ordered /\ Kept
<1> USE CountRange, PdcpAssumption
<1>1. /\ epoch \in Nat /\ epoch' \in 0..MaxEpoch
      /\ epoch' = IF tx_next = 0 THEN epoch ELSE epoch + 1
      /\ tx_next' = 0 /\ rx_next' = 0 /\ rx_deliv' = 0 /\ running' = FALSE
      /\ rx_reord' = rx_reord /\ rx_list' = {} /\ blind' = FALSE
  BY DEF Inv, TypeOK, Restart
<1>2. /\ 0 \in Count /\ rx_deliv \in Nat /\ rx_next \in Nat /\ tx_next \in Nat
      /\ rx_deliv <= rx_next /\ rx_next <= tx_next
  BY DEF Inv, TypeOK, ReorderingConsistent
<1>3. ASSUME NEW e \in rx_list
      PROVE  /\ e.pdu.epoch = epoch /\ e.pdu.count \in Nat /\ e.pdu \in Pdu
             /\ rx_deliv < e.pdu.count /\ e.pdu.count < rx_next
  <2>1. e.pdu = [epoch |-> epoch, count |-> e.count] /\ e.pdu \in Pdu
    BY Zenon DEF Inv, TypeOK, CountsRight
  <2>2. e.pdu.epoch = epoch /\ e.pdu.count = e.count
    BY <2>1
  <2>3. rx_deliv < e.count /\ e.count < rx_next
    BY Zenon DEF Inv, ReorderingConsistent
  <2>. QED
    BY <2>1, <2>2, <2>3, PduFields, Zenon
<1>4. ASSUME NEW q \in Pdus(rx_list)
      PROVE  /\ q.epoch = epoch /\ q.count \in Nat /\ q \in Pdu
             /\ rx_deliv < q.count /\ q.count < rx_next
  BY <1>3, Zenon DEF Pdus
<1>5. tx_next = 0 => Pdus(rx_list) = {}
  BY <1>2, <1>4
<1>6. ASSUME NEW p \in delivered
      PROVE  /\ p.epoch \in Nat /\ p.count \in Nat
             /\ p.epoch < epoch \/ (p.epoch = epoch /\ p.count < rx_deliv)
  <2>1. p \in Pdu
    BY Zenon DEF Inv, TypeOK
  <2>. QED
    BY <2>1, PduFields, Zenon DEF Inv, DeliveredBehind
<1>7. TypeOK'
  <2>1. delivered' \subseteq Pdu
    BY <1>4, Zenon DEF Inv, TypeOK
  <2>. QED
    BY <1>1, <1>2, <2>1, Zenon DEF Inv, TypeOK, site
<1>8. CountsRight' /\ ReorderingConsistent' /\ Bounded'
  BY <1>1 DEF CountsRight, ReorderingConsistent, Bounded
<1>9. AirSent'
  <2>1. SUFFICES ASSUME NEW p \in air', status' # "active"
                 PROVE  p.epoch < epoch'
    BY Zenon DEF AirSent
  <2>2. p \in Pdu /\ (p.epoch < epoch \/ (p.epoch = epoch /\ p.count < tx_next))
    BY <2>1, Zenon DEF Inv, TypeOK, AirSent
  <2>3. p.epoch \in Nat /\ p.count \in Nat
    BY <2>2, PduFields, Zenon
  <2>. QED
    BY <1>1, <1>2, <2>2, <2>3
<1>10. ASSUME NEW p \in delivered' PROVE p.epoch < epoch'
  <2>1. CASE p \in delivered
    BY <2>1, <1>1, <1>2, <1>6
  <2>2. CASE p \in Pdus(rx_list)
    BY <2>2, <1>1, <1>4, <1>5
  <2>. QED
    BY <2>1, <2>2, Zenon
<1>11. DeliveredBehind'
  BY <1>10, Zenon DEF DeliveredBehind
<1>12. Ordered
  <2>1. SUFFICES ASSUME NEW p \in delivered, NEW q \in Pdus(rx_list) PROVE Before(p, q)
    BY Zenon DEF Ordered
  <2>. QED
    BY <1>2, <1>4, <1>6 DEF Before
<1>13. Kept
  <2>1. CASE delivered' = delivered \cup Pdus(rx_list)
    BY <1>1, <2>1, Zenon DEF Kept, Pdus
  <2>2. CASE delivered' = delivered /\ type = "srb"
    <3>1. CASE tx_next = 0
      BY <3>1, <1>5, Zenon DEF Kept, Pdus
    <3>2. CASE tx_next # 0
      BY <3>2, <2>2, <1>1 DEF Kept
    <3>. QED
      BY <3>1, <3>2, Zenon
  <2>3. CASE is_gnb /\ status' = "released"
    BY <2>3, Zenon DEF Kept
  <2>. QED
    BY <2>1, <2>2, <2>3, Zenon
<1>. QED
  BY <1>7, <1>8, <1>9, <1>11, <1>12, <1>13, Zenon DEF Inv

\* nr_pdcp_entity_reestablish_drb_am.
LEMMA InvReestablishDrb ==
  ASSUME Inv, ReestablishDrb
  PROVE  Inv' /\ Ordered /\ Kept
BY InvFewer, Untouched, Zenon DEF ReestablishDrb, rxVars

\* nr_pdcp_entity_reestablish_srb.
LEMMA InvReestablishSrb ==
  ASSUME Inv, ReestablishSrb
  PROVE  Inv' /\ Ordered /\ Kept
<1>1. /\ status' = "active" /\ type = "srb" /\ air' = {}
      /\ Restart /\ delivered' = delivered
      /\ UNCHANGED <<site, type, clock, infinite>>
  BY Zenon DEF ReestablishSrb
<1>. QED
  BY <1>1, InvRestart, Zenon

\* nr_pdcp_release_drb and nr_pdcp_release_srb.
LEMMA InvRelease ==
  ASSUME Inv, Release
  PROVE  Inv' /\ Ordered /\ Kept
<1>1. Restart /\ status' = "released" /\ UNCHANGED <<site, type, air, clock, infinite>>
  BY Zenon DEF Release
<1>2. delivered' = delivered \cup Pdus(rx_list) \/ (delivered' = delivered /\ type = "srb")
  BY Zenon DEF Release
<1>. QED
  BY <1>1, <1>2, InvRestart, Zenon

\* nr_pdcp_manager_remove_ue.
LEMMA InvRemoveUe ==
  ASSUME Inv, RemoveUe
  PROVE  Inv' /\ Ordered /\ Kept
<1>1. /\ Restart /\ status' = "released" /\ is_gnb /\ delivered' = delivered
      /\ UNCHANGED <<site, type, air, clock, infinite>>
  BY Zenon DEF RemoveUe
<1>. QED
  BY <1>1, InvRestart, Zenon

\* nr_pdcp_reconfigure_srb and nr_pdcp_reconfigure_drb.
LEMMA InvReconfigure ==
  ASSUME Inv, Reconfigure
  PROVE  Inv' /\ Ordered /\ Kept
<1>1. TypeOK'
  BY Zenon DEF Reconfigure, Inv, TypeOK, rxVars, site
<1>2. CountsRight' /\ ReorderingConsistent' /\ AirSent' /\ DeliveredBehind' /\ Bounded'
  BY Zenon DEF Reconfigure, Inv, CountsRight, ReorderingConsistent, AirSent, DeliveredBehind,
         Bounded, rxVars
<1>. QED
  BY <1>1, <1>2, Untouched, Zenon DEF Reconfigure, Inv, rxVars

\* new_nr_pdcp_entity.
LEMMA InvCreate ==
  ASSUME Inv, Create
  PROVE  Inv' /\ Ordered /\ Kept
<1>1. /\ ~running /\ status' = "active" /\ air' = {} /\ rx_reord' = 0 /\ clock' = FALSE
      /\ UNCHANGED <<site, epoch, tx_next, rx_deliv, rx_next, rx_list, running,
                     delivered, blind>>
      /\ type' \in {"drb_am", "srb"} /\ infinite' \in BOOLEAN
  BY Zenon DEF Create, Inv, Bounded
<1>2. 0 \in Count
  BY CountRange, PdcpAssumption
<1>3. TypeOK'
  BY <1>1, <1>2, Zenon DEF Inv, TypeOK, site
<1>4. CountsRight' /\ ReorderingConsistent' /\ AirSent' /\ DeliveredBehind' /\ Bounded'
  BY <1>1, Zenon DEF Inv, CountsRight, ReorderingConsistent, AirSent, DeliveredBehind, Bounded
<1>. QED
  BY <1>1, <1>3, <1>4, Untouched, Zenon DEF Inv

-----------------------------------------------------------------------------
(* The theorems                                                            *)

\* Every step keeps the invariant, the order of delivery and the held SDUs.
LEMMA InvNext ==
  Inv /\ [Next]_vars => Inv' /\ [Ordered]_vars /\ [Kept]_vars
<1> SUFFICES ASSUME Inv, [Next]_vars PROVE Inv' /\ [Ordered]_vars /\ [Kept]_vars
  OBVIOUS
<1>1. CASE ProcessSdu
  BY <1>1, InvProcessSdu, Untouched, Zenon DEF ProcessSdu, rxVars
<1>2. ASSUME NEW p \in air, Lose(p) PROVE Inv' /\ Ordered /\ Kept
  BY <1>2, InvFewer, Untouched, Zenon DEF Lose, rxVars
<1>3. ASSUME NEW p \in air, NEW copy \in BOOLEAN, RecvPdu(p, copy)
      PROVE  Inv' /\ Ordered /\ Kept
  BY <1>3, InvRecvPdu, Zenon
<1>4. CASE CheckTReordering
  BY <1>4, InvReorder, Zenon
<1>5. CASE FirstTick
  BY <1>5, InvFirstTick, Zenon
<1>6. CASE ReestablishDrb
  BY <1>6, InvReestablishDrb
<1>7. CASE ReestablishSrb
  BY <1>7, InvReestablishSrb
<1>8. CASE Reconfigure
  BY <1>8, InvReconfigure
<1>9. CASE Release
  BY <1>9, InvRelease
<1>10. CASE RemoveUe
  BY <1>10, InvRemoveUe
<1>11. CASE Create
  BY <1>11, InvCreate
<1>12. CASE UNCHANGED vars
  <2>1. Inv'
    BY <1>12, InvFewer, Zenon DEF vars, rxVars
  <2>. QED
    BY <1>12, <2>1, Zenon
<1>. QED
  BY <1>1, <1>2, <1>3, <1>4, <1>5, <1>6, <1>7, <1>8, <1>9, <1>10, <1>11, <1>12,
     Zenon DEF Next

\* The COUNT of every SDU the receiver holds is the sender's.
THEOREM CountsAgree == Spec => []CountsRight
<1>1. Init => Inv
  BY InvInit, Zenon
<1>2. Inv /\ [Next]_vars => Inv'
  BY InvNext, Zenon
<1>3. Inv => CountsRight
  BY Zenon DEF Inv
<1>. QED
  BY <1>1, <1>2, <1>3, PTL DEF Spec

\* t-Reordering runs exactly while there is a gap and the last PDU was accepted
\* after the first tick, and the list lies beyond the gap.
THEOREM TimerRunsAtGap == Spec => []ReorderingConsistent
<1>1. Init => Inv
  BY InvInit
<1>2. Inv /\ [Next]_vars => Inv'
  BY InvNext
<1>3. Inv => ReorderingConsistent
  BY Zenon DEF Inv
<1>. QED
  BY <1>1, <1>2, <1>3, PTL DEF Spec

\* SDUs are delivered in order and once.
THEOREM DeliveryInOrder == Spec => InOrderOnce
<1>1. Init => Inv
  BY InvInit
<1>2. Inv /\ [Next]_vars => Inv'
  BY InvNext
<1>3. Inv /\ [Next]_vars => [Ordered]_vars
  BY InvNext, Zenon
<1>4. Spec => [][Ordered]_vars
  BY <1>1, <1>2, <1>3, PTL DEF Spec
<1>. QED
  BY <1>4, Zenon DEF Ordered, InOrderOnce

\* No accepted SDU disappears, but with a signalling bearer that restarts or is
\* deleted and with a UE that a gNB removes.
THEOREM NothingDisappears == Spec => NoneSwallowed
<1>1. Init => Inv
  BY InvInit
<1>2. Inv /\ [Next]_vars => Inv'
  BY InvNext
<1>3. Inv /\ [Next]_vars => [Kept]_vars
  BY InvNext, Zenon
<1>4. Spec => [][Kept]_vars
  BY <1>1, <1>2, <1>3, PTL DEF Spec
<1>. QED
  BY <1>4, Zenon DEF Kept, NoneSwallowed
=============================================================================
