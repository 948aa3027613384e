------------------------------- MODULE RlcAm --------------------------------
(* RLC acknowledged mode (nr_rlc_entity_am.c): the sending half of one       *)
(* entity and the receiving half of its peer, with the PDUs and the status   *)
(* reports on their way, any of which may be lost or overtaken.              *)
(*                                                                           *)
(* An SDU is its number, its bytes are numbered from 0, and a segment is a   *)
(* run of them; is_first and is_last follow from the offset and the size.    *)
(* The receiver's list of segments is kept as the set of bytes received per  *)
(* SN, out of the SduMax that an SDU may have: with its last segment the     *)
(* bytes behind its end count as received.                                   *)
(* Timers are running or not and may expire at any time while they run.      *)
EXTENDS Integers, Sequences, FiniteSets, FiniteSetsExt, SequencesExt, Bags, TLC

CONSTANTS
  Sizes,        \* the sizes of the SDUs the layer above hands over, in bytes
  SnModulus,    \* sn_modulus, twice the window
  StartSn,      \* the SN both sides have reached
  TxMax,        \* tx_maxsize, in bytes
  Grants,       \* sizes of the PDUs the MAC asks the sender for
  StatusGrants, \* sizes of the PDUs the MAC asks the receiver for
  PollPdu,      \* poll_pdu
  MaxAir,       \* data PDUs on their way
  MaxReports,   \* status reports on their way
  MaxFlight,    \* both together
  MaxLoss       \* PDUs and reports that are lost

\* An SN is not used twice, so that no PDU is held back until its SN is used
\* again: in the real SN space that is a delay of more than 2048 SDUs.
ASSUME RlcAmAssumption ==
  /\ Sizes \in Seq(Nat \ {0}) /\ Sizes # <<>> /\ StartSn \in 0..(SnModulus - 1)
  /\ SnModulus \in Nat /\ SnModulus % 2 = 0 /\ Len(Sizes) <= SnModulus \div 2
  /\ MaxAir \in Nat /\ MaxReports \in Nat /\ MaxFlight \in Nat
  /\ MaxLoss \in Nat

Sdus == 1..Len(Sizes)
SduMax == Max(ToSet(Sizes))
Sn == 0..(SnModulus - 1)
WindowSize == SnModulus \div 2
ToEnd == -1      \* so_end 0xffff
Segments == [id : Sdus, sn : Sn \cup {-1}, so : 0..(SduMax - 1), size : 1..SduMax]

VARIABLES
  \* the sender
  tx_list, wait_list, retransmit_list,  \* sequences of segments
  refs,            \* per SDU, ref_count - free_count
  tx_next, tx_next_ack, poll_sn, pdu_without_poll, force_poll,
  t_poll,          \* t_poll_retransmit is running
  tx_size, bstatus,
  crashed,         \* check_t_poll_retransmit has found an empty wait list
  passed,          \* history: SNs of partly sent SDUs that tx_next_ack went past
  overtook,        \* history: SNs sent ahead of a retransmission since the last poll
  \* the receiver
  rx_next, rx_next_highest, rx_highest_status, rx_next_status_trigger,
  got,             \* per SN, the bytes in rx_list, each with its SDU
  done,            \* the SNs of rx_list whose data was delivered
  t_reassembly, status_triggered,
  prohibited,      \* t_status_prohibit is running
  \* the air, and what the layers above see
  air, reports, losses,
  offered, accepted, delivered, confirmed

lists == <<tx_list, wait_list, retransmit_list, refs, tx_size, bstatus>>
sender == <<lists, tx_next, tx_next_ack, poll_sn, pdu_without_poll, force_poll, t_poll,
            crashed, passed, overtook>>
receiver == <<rx_next, rx_next_highest, rx_highest_status, rx_next_status_trigger,
              got, done, t_reassembly, status_triggered, prohibited>>
upper == <<offered, accepted, delivered, confirmed>>
vars == <<sender, receiver, air, reports, losses, upper>>

Init ==
  /\ tx_list = <<>> /\ wait_list = <<>> /\ retransmit_list = <<>>
  /\ refs = [i \in Sdus |-> 0]
  /\ tx_next = StartSn /\ tx_next_ack = StartSn /\ poll_sn = (StartSn - 1) % SnModulus
  /\ pdu_without_poll = 0 /\ force_poll = FALSE /\ t_poll = FALSE
  /\ tx_size = 0 /\ bstatus = [tx |-> 0, retx |-> 0] 
  /\ crashed = FALSE /\ passed = {} /\ overtook = {}
  /\ rx_next = StartSn /\ rx_next_highest = StartSn /\ rx_highest_status = StartSn
  /\ rx_next_status_trigger = StartSn
  /\ got = [n \in Sn |-> {}] /\ done = {}
  /\ t_reassembly = FALSE /\ status_triggered = FALSE /\ prohibited = FALSE
  /\ air = EmptyBag /\ reports = EmptyBag /\ losses = 0
  /\ offered = 0 /\ accepted = {} /\ delivered = <<>> /\ confirmed = {}

-----------------------------------------------------------------------------
(* The sender: lists of segments *)

ModTx(a) == (a - tx_next_ack) % SnModulus
CmpTx(a, b) == ModTx(a) - ModTx(b)

IsFirst(s) == s.so = 0
IsLast(s) == s.so + s.size = Sizes[s.id]
HeaderSize(s) == IF IsFirst(s) THEN 2 ELSE 4
PduSize(s) == HeaderSize(s) + s.size
Total(l) ==
  LET sum[k \in 0..Len(l)] == IF k = 0 THEN 0 ELSE sum[k - 1] + PduSize(l[k])
  IN  sum[Len(l)]

\* The order of the lists: by SN, then by offset.
Greater(c, s) == CmpTx(c.sn, s.sn) > 0 \/ (c.sn = s.sn /\ c.so > s.so)

\* Faulty variant: a segment is always appended at wait_end.
InsertLast(l, s) == Append(l, s)

Insert(l, s) ==
  LET after == {k \in 1..Len(l) : Greater(l[k], s)}
  IN  InsertAt(l, IF after = {} THEN Len(l) + 1 ELSE Min(after), s)

InsertAll(l, ss) == SortSeq(l \o ss, LAMBDA a, b : Greater(b, a))

\* resegment: what fits into a PDU of n bytes, and what is left over.
Fitting(s, n) ==
  [s EXCEPT !.size = IF HeaderSize(s) + @ <= n THEN @ ELSE n - HeaderSize(s)]
LeftOver(s, n) ==
  LET k == Fitting(s, n).size
  IN  IF k = s.size THEN <<>> ELSE <<[s EXCEPT !.so = @ + k, !.size = @ - k]>>

Stalling(next) == ~(ModTx(next) < ModTx((tx_next_ack + WindowSize) % SnModulus))

CheckPoll(tx, retx, next) == (tx = <<>> /\ retx = <<>>) \/ Stalling(next)

\* serialize_sdu and include_poll: a PDU goes on the air.
Send(s, p, next) ==
  /\ air' = air (+) SetToBag({[seg |-> s, p |-> p]})
  /\ force_poll' = FALSE
  /\ t_poll' = (t_poll \/ p)
  /\ poll_sn' = IF p THEN (next - 1) % SnModulus ELSE poll_sn

Left(rest) == IF rest = <<>> THEN 0 ELSE PduSize(rest[1])

\* nr_rlc_entity_am_recv_sdu: an SDU is queued, or dropped when the buffer is full.
RecvSdu ==
  /\ offered < Len(Sizes)
  /\ offered' = offered + 1
  /\ LET s == [id |-> offered', sn |-> -1, so |-> 0, size |-> Sizes[offered']]
     IN  IF tx_size + s.size > TxMax THEN UNCHANGED <<lists, accepted>>
         ELSE /\ tx_size' = tx_size + s.size
              /\ tx_list' = Append(tx_list, s)
              /\ bstatus' = [bstatus EXCEPT !.tx = @ + PduSize(s)]
              /\ refs' = [refs EXCEPT ![s.id] = 1]
              /\ accepted' = accepted \cup {s.id}
              /\ UNCHANGED <<wait_list, retransmit_list>>
  /\ UNCHANGED <<tx_next, tx_next_ack, poll_sn, pdu_without_poll, force_poll, t_poll,
                 crashed, passed, overtook, receiver, air, reports, losses, delivered, confirmed>>

\* generate_retx_pdu: the head of the retransmit list goes first, as far as it fits.
GenerateRetx(n) ==
  /\ retransmit_list # <<>>
  /\ LET s == Head(retransmit_list)
         rest == LeftOver(s, n)
         retx == rest \o Tail(retransmit_list)
         p == force_poll \/ CheckPoll(tx_list, retx, tx_next)
     IN  /\ HeaderSize(s) + 1 <= n
         /\ retransmit_list' = retx
         /\ wait_list' = Insert(wait_list, Fitting(s, n))
         /\ refs' = [refs EXCEPT ![s.id] = @ + Len(rest)]
         /\ bstatus' = [bstatus EXCEPT !.retx = @ - PduSize(s) + Left(rest)]
         /\ pdu_without_poll' = IF p THEN 0 ELSE pdu_without_poll
         /\ Send(Fitting(s, n), p, tx_next)
         /\ overtook' = IF p THEN {} ELSE overtook
  /\ UNCHANGED <<tx_list, tx_size, tx_next, tx_next_ack>>

\* generate_tx_pdu, also when the head of the retransmit list does not fit.
GenerateTx(n) ==
  /\ retransmit_list # <<>> => HeaderSize(Head(retransmit_list)) + 1 > n
  /\ ~Stalling(tx_next) /\ tx_list # <<>>
  /\ LET new == Head(tx_list).sn = -1
         s == IF new THEN [Head(tx_list) EXCEPT !.sn = tx_next] ELSE Head(tx_list)
         next == IF new THEN (tx_next + 1) % SnModulus ELSE tx_next
         rest == LeftOver(s, n)
         tx == rest \o Tail(tx_list)
         p == \/ force_poll
              \/ PollPdu # -1 /\ pdu_without_poll + 1 >= PollPdu
              \/ CheckPoll(tx, retransmit_list, next)
     IN  /\ HeaderSize(s) + 1 <= n
         /\ tx_list' = tx /\ tx_next' = next
         /\ wait_list' = Insert(wait_list, Fitting(s, n))
         /\ refs' = [refs EXCEPT ![s.id] = @ + Len(rest)]
         /\ bstatus' = [bstatus EXCEPT !.tx = @ - PduSize(s) + Left(rest)]
         /\ pdu_without_poll' = IF p \/ PollPdu = -1 THEN 0 ELSE pdu_without_poll + 1
         /\ Send(Fitting(s, n), p, next)
         /\ overtook' = IF p THEN {} ELSE IF retransmit_list = <<>> THEN overtook
                        ELSE overtook \cup {s.sn}
  /\ UNCHANGED <<retransmit_list, tx_size, tx_next_ack>>

InFlight == BagCardinality(air) + BagCardinality(reports)

\* nr_rlc_entity_am_generate_pdu of an entity that has no status to report.
GeneratePdu(n) ==
  /\ BagCardinality(air) < MaxAir /\ InFlight < MaxFlight
  /\ GenerateRetx(n) \/ GenerateTx(n)
  /\ UNCHANGED <<crashed, passed, receiver, reports, losses, upper>>

\* How many segments at the head of the wait list have the SN of the first.
WaitingHead ==
  LET k == SelectInSeq(wait_list, LAMBDA s : s.sn # Head(wait_list).sn)
  IN  IF k = 0 THEN Len(wait_list) ELSE k - 1

\* check_t_poll_retransmit: force a poll and, when there is nothing else to
\* send or the window stalls, send the first SDU of the wait list again.  An
\* empty wait list is a null pointer, and the end of the entity.
PollRetransmit ==
  /\ t_poll /\ t_poll' = FALSE /\ force_poll' = TRUE
  /\ IF CheckPoll(tx_list, retransmit_list, tx_next) /\ wait_list # <<>>
     THEN \E n \in {WaitingHead} :
          LET again == SubSeq(wait_list, 1, n)
          IN  /\ wait_list' = SubSeq(wait_list, n + 1, Len(wait_list))
              /\ retransmit_list' = InsertAll(retransmit_list, again)
              /\ bstatus' = [bstatus EXCEPT !.retx = @ + Total(again)]
     ELSE UNCHANGED <<wait_list, retransmit_list, bstatus>>
  /\ crashed' = (CheckPoll(tx_list, retransmit_list, tx_next) /\ wait_list = <<>>)
  /\ UNCHANGED <<tx_list, refs, tx_size, tx_next, tx_next_ack, poll_sn, pdu_without_poll,
                 passed, overtook, receiver, air, reports, losses, upper>>

-----------------------------------------------------------------------------
(* The sender: process_control_pdu *)

\* A NACK of a range of SNs, as one NACK per SN: offset start only in the
\* first, offset end only in the last.
PerSn(k) ==
  [i \in 1..k.range |->
     [sn |-> (k.sn + i - 1) % SnModulus,
      from |-> IF i = 1 THEN k.from ELSE 0,
      to |-> IF i = k.range THEN k.to ELSE ToEnd]]
Nacks(r) == FlattenSeq([j \in 1..Len(r.nacks) |-> PerSn(r.nacks[j])])

\* A NACK above the ACK.  The test that the NACKs come in order compares with
\* prev_nack_sn, which is still -1 in this loop, and never fires.
BadNacks(ns, ack) == \E j \in 1..Len(ns) : CmpTx(ns[j].sn, ack) > 0

\* so_overlap, for a segment of the NACKed SN.
Overlaps(n, s) ==
  /\ s.sn = n.sn
  /\ IF n.from < s.so THEN n.to = ToEnd \/ n.to >= s.so ELSE n.from <= s.so + s.size - 1
Later(s, n) == CmpTx(s.sn, n.sn) > 0 \/ (s.sn = n.sn /\ s.so > n.from)

\* Both lists are sorted (ListsSorted): the walk over them, smallest segment
\* first, is a walk over their merge.  "old" marks the retransmit list's.
Merged == LET tag(l, b) == [k \in 1..Len(l) |->
                [old |-> b, id |-> l[k].id, sn |-> l[k].sn, so |-> l[k].so, size |-> l[k].size]]
          IN  InsertAll(tag(retransmit_list, TRUE), tag(wait_list, FALSE))

\* One NACK: up to the first segment that lies behind it, a segment it hits is
\* to be retransmitted and any other is acknowledged.  A NACK is below the ACK
\* (Report), so the code's cases for a segment at or above the ACK do not arise.
Walk(l, n) ==
  LET k == SelectInSeq(l.rest, LAMBDA s : ~Overlaps(n, s) /\ Later(s, n))
      m == IF k = 0 THEN Len(l.rest) ELSE k - 1
      seen == SubSeq(l.rest, 1, m)
  IN  [rest |-> SubSeq(l.rest, m + 1, Len(l.rest)),
       retx |-> l.retx \o SelectSeq(seen, LAMBDA s : Overlaps(n, s)),
       freed |-> l.freed \o SelectSeq(seen, LAMBDA s : ~Overlaps(n, s))]

\* After the NACKs, what lies before the ACK is acknowledged.
Walked(ns, ack) ==
  LET w[k \in 0..Len(ns)] ==
        IF k = 0 THEN [rest |-> Merged, retx |-> <<>>, freed |-> <<>>]
        ELSE Walk(w[k - 1], ns[k])
      l == w[Len(ns)]
      above == SelectSeq(l.rest, LAMBDA s : CmpTx(s.sn, ack) >= 0)
  IN  [wait |-> SelectSeq(above, LAMBDA s : ~s.old),
       retx |-> l.retx \o SelectSeq(above, LAMBDA s : s.old),
       freed |-> l.freed \o SelectSeq(l.rest, LAMBDA s : CmpTx(s.sn, ack) < 0)]

Plain(l) == [k \in 1..Len(l) |-> [id |-> l[k].id, sn |-> l[k].sn, so |-> l[k].so, size |-> l[k].size]]

BytesIn(S) == MapThenSumSet(LAMBDA i : Sizes[i], S)

\* Faulty variant: an SDU counts as acknowledged with its first segment.
AnyAcked(left) == {i \in Sdus : left[i] < refs[i]}

\* nr_rlc_free_sdu_segment: the SDUs whose last segment was freed.
FullyAcked(left) == {i \in Sdus : refs[i] > 0 /\ left[i] = 0}

\* The report holds an ACK or a NACK of poll_sn.
AnswersPoll(r) ==
  \/ CmpTx(poll_sn, r.ack) < 0
  \/ \E j \in 1..Len(r.nacks) :
       /\ CmpTx(r.nacks[j].sn, poll_sn) <= 0
       /\ CmpTx(poll_sn, (r.nacks[j].sn + r.nacks[j].range) % SnModulus) < 0

\* Faulty variant: what is to be retransmitted is forgotten.
PendingWaiting(l, ack) == {tx_next, ack} \cup {s.sn : s \in ToSet(l.wait)}

\* The SNs tx_next_ack is chosen from: those left in the two lists, and ack.
Pending(l, ack) == {tx_next, ack} \cup {s.sn : s \in ToSet(l.wait) \cup ToSet(l.retx)}

\* process_control_pdu: the whole report is discarded, or both lists are walked.
Apply(r, ns) ==
  IF CmpTx(r.ack, tx_next) > 0 \/ BadNacks(ns, r.ack)
  THEN UNCHANGED <<sender, confirmed>>
  ELSE \E l \in {Walked(ns, r.ack)} :
    LET left == [i \in Sdus |-> refs[i] - Len(SelectSeq(l.freed, LAMBDA s : s.id = i))]
    IN  /\ t_poll' = (t_poll /\ ~AnswersPoll(r))
        /\ wait_list' = Plain(l.wait) /\ retransmit_list' = Plain(l.retx)
        /\ bstatus' = [bstatus EXCEPT !.retx =
                         @ + Total(SelectSeq(l.retx, LAMBDA s : ~s.old))
                           - Total(SelectSeq(l.freed, LAMBDA s : s.old))]
        /\ refs' = left
        /\ tx_size' = tx_size - BytesIn(FullyAcked(left))
        /\ confirmed' = confirmed \cup FullyAcked(left)
        /\ \E pending \in {Pending(l, r.ack)} :
             tx_next_ack' = CHOOSE n \in pending : \A m \in pending : ModTx(n) <= ModTx(m)
        /\ passed' = passed \cup {s.sn : s \in {x \in ToSet(tx_list) :
                                    x.sn # -1 /\ ModTx(x.sn) < ModTx(tx_next_ack')}}
        /\ UNCHANGED <<tx_list, tx_next, poll_sn, pdu_without_poll, force_poll,
                       crashed, overtook>>

RecvStatus ==
  \E r \in BagToSet(reports) :
    /\ \E ns \in {Nacks(r)} : Apply(r, ns)
    /\ reports' = reports (-) SetToBag({r})
    /\ UNCHANGED <<receiver, air, losses, offered, accepted, delivered>>

-----------------------------------------------------------------------------
(* The receiver: nr_rlc_entity_am_recv_pdu *)

ModRx(a) == (a - rx_next) % SnModulus
CmpRx(a, b) == ModRx(a) - ModRx(b)
Bytes(g, n) == {e.b : e \in g[n]}

\* sdu_has_missing_bytes: a hole before the last byte received.
Missing(g, d, n) ==
  n \notin d /\ \E bytes \in {Bytes(g, n)} : bytes # 0..(Cardinality(bytes) - 1)

\* The first SN from n on that was not delivered.
Advance(n, d) == LET k == CHOOSE i \in 0..SnModulus :
                            /\ (n + i) % SnModulus \notin d
                            /\ \A j \in 0..(i - 1) : (n + j) % SnModulus \in d
                 IN  (n + k) % SnModulus

\* The end of reception_actions: t_reassembly against the new window.
Reassembly ==
  LET next == (rx_next' + 1) % SnModulus
      hole == Missing(got', done', rx_next')
      stop == \/ rx_next_status_trigger = rx_next'
              \/ rx_next_status_trigger = next /\ ~hole
              \/ (rx_next_status_trigger - rx_next') % SnModulus > WindowSize
      start == \/ (rx_next_highest' - rx_next') % SnModulus > 1
               \/ rx_next_highest' = next /\ hole
      running == t_reassembly /\ ~stop
  IN  /\ t_reassembly' = (running \/ start)
      /\ rx_next_status_trigger' = IF ~running /\ start THEN rx_next_highest'
                                   ELSE rx_next_status_trigger

\* nr_rlc_pdu_list_add, and reception_actions on the list g it returns, where d
\* are the SNs with all bytes: x is among them if this PDU made it whole, for a
\* PDU of an SN that was whole before is discarded.
Covered(s) == s.so..(IF IsLast(s) THEN SduMax - 1 ELSE s.so + s.size - 1)
Added(s) ==
  [got EXCEPT ![s.sn] = @ \cup {[b |-> b, id |-> s.id] : b \in Covered(s)}]
Keep(x, g, d) ==
  LET full == x \in d
  IN  /\ rx_next' = IF full /\ x = rx_next THEN Advance(rx_next, d) ELSE rx_next
      /\ rx_next_highest' = IF CmpRx(x, rx_next_highest) >= 0 THEN (x + 1) % SnModulus
                            ELSE rx_next_highest
      /\ rx_highest_status' = IF full /\ x = rx_highest_status THEN Advance(x, d)
                              ELSE rx_highest_status
      /\ got' = [n \in Sn |-> IF ModRx(n) < ModRx(rx_next') THEN {} ELSE g[n]]
      /\ done' = {n \in d : ModRx(n) >= ModRx(rx_next')}
      /\ delivered' = IF full THEN Append(delivered, {e.id : e \in g[x]}) ELSE delivered
      /\ Reassembly

\* Out of the window, or all its bytes already received.
Discards(s) ==
  \/ ModRx(s.sn) >= WindowSize
  \/ Covered(s) \subseteq Bytes(got, s.sn)

\* The poll bit counts, whether the PDU is discarded or not.
Triggered(p) == status_triggered \/ p.p

RecvData(p) ==
  /\ p \in BagToSet(air)
  /\ air' = air (-) SetToBag({p})
  /\ status_triggered' = Triggered(p)
  /\ IF Discards(p.seg)
     THEN UNCHANGED <<rx_next, rx_next_highest, rx_highest_status, rx_next_status_trigger,
                      got, done, t_reassembly, delivered>>
     ELSE \E g \in {Added(p.seg)} :
            LET full == Bytes(g, p.seg.sn) = 0..(SduMax - 1)
            IN  \E d \in {IF full THEN done \cup {p.seg.sn} ELSE done} : Keep(p.seg.sn, g, d)
  /\ UNCHANGED <<sender, prohibited, reports, losses, offered, accepted, confirmed>>

\* What is due to be reported beyond rx_highest_status = n.
GapAbove(n) ==
  LET next == (n + 1) % SnModulus
  IN  CmpRx(rx_next_highest, next) > 0 \/ (rx_next_highest = next /\ Missing(got, done, n))

\* Faulty variant: the timer is not started again.
RestartNever(n) == FALSE

Restart(n) == GapAbove(n)

Highest == Advance(rx_next_status_trigger, done)

\* check_t_reassembly.
ReassemblyExpires ==
  /\ t_reassembly
  /\ rx_highest_status' = Highest
  /\ status_triggered' = TRUE
  /\ t_reassembly' = Restart(rx_highest_status')
  /\ rx_next_status_trigger' = IF t_reassembly' THEN rx_next_highest ELSE rx_next_status_trigger
  /\ UNCHANGED <<sender, rx_next, rx_next_highest, got, done, prohibited,
                 air, reports, losses, upper>>

-----------------------------------------------------------------------------
(* The receiver: status reports *)

\* next_missing: the runs of bytes not received from rx_next to
\* rx_highest_status - 1, counted in bytes from rx_next.  None if the list is empty.
Lost == {k \in 0..(ModRx(rx_highest_status) * SduMax - 1) :
           /\ \E n \in Sn : got[n] # {}
           /\ k % SduMax \notin Bytes(got, (rx_next + (k \div SduMax)) % SnModulus)}
Gap(lost, k) ==
  LET e == Min({j \in lost : j >= k /\ (j + 1) \notin lost})
  IN  [sn |-> (rx_next + (k \div SduMax)) % SnModulus,
       range |-> (e \div SduMax) - (k \div SduMax) + 1,
       from |-> k % SduMax,
       to |-> IF e % SduMax = SduMax - 1 THEN ToEnd ELSE e % SduMax]
Gaps == LET lost == Lost
            starts == SetToSortSeq({k \in lost : (k - 1) \notin lost}, <)
        IN  [j \in 1..Len(starts) |-> Gap(lost, starts[j])]

HasOffsets(k) == k.from # 0 \/ k.to # ToEnd
NackSize(k) == 2 + (IF k.range > 1 THEN 1 ELSE 0) + (IF HasOffsets(k) THEN 4 ELSE 0)

\* Faulty variant: after a cut the last NACK keeps its end.
ReportUnforced(gs, n) ==
  LET size[j \in 0..Len(gs)] == IF j = 0 THEN 3 ELSE size[j - 1] + NackSize(gs[j])
      m == Max({j \in 0..Len(gs) : size[j] <= n})
  IN  [nacks |-> SubSeq(gs, 1, m),
       ack |-> IF m = 0 THEN rx_next ELSE (gs[m].sn + gs[m].range) % SnModulus]

\* generate_status: as many gaps as fit.  After a cut the last NACK reaches
\* to the end of its SDU, and the ACK stands behind the last NACK.
Report(gs, n) ==
  LET size[j \in 0..Len(gs)] == IF j = 0 THEN 3 ELSE size[j - 1] + NackSize(gs[j])
      m == Max({j \in 0..Len(gs) : size[j] <= n})
      cut == m > 0 /\ m < Len(gs) /\ HasOffsets(gs[m])
  IN  [nacks |-> [j \in 1..m |-> IF j = m /\ cut THEN [gs[j] EXCEPT !.to = ToEnd] ELSE gs[j]],
       ack |-> IF m = 0 THEN rx_next ELSE (gs[m].sn + gs[m].range) % SnModulus]

GenerateStatus(n) ==
  /\ status_triggered /\ ~prohibited /\ n >= 3
  /\ BagCardinality(reports) < MaxReports /\ InFlight < MaxFlight
  /\ \E gs \in {Gaps} : reports' = reports (+) SetToBag({Report(gs, n)})
  /\ status_triggered' = FALSE /\ prohibited' = TRUE
  /\ UNCHANGED <<sender, rx_next, rx_next_highest, rx_highest_status, rx_next_status_trigger,
                 got, done, t_reassembly, air, losses, upper>>

ProhibitExpires ==
  /\ prohibited /\ prohibited' = FALSE
  /\ UNCHANGED <<sender, rx_next, rx_next_highest, rx_highest_status, rx_next_status_trigger,
                 got, done, t_reassembly, status_triggered, air, reports, losses, upper>>

-----------------------------------------------------------------------------
(* The lower layers: MAC and HARQ *)

Lose ==
  /\ losses < MaxLoss /\ losses' = losses + 1
  /\ \/ \E p \in BagToSet(air) : air' = air (-) SetToBag({p}) /\ UNCHANGED reports
     \/ \E r \in BagToSet(reports) : reports' = reports (-) SetToBag({r}) /\ UNCHANGED air
  /\ UNCHANGED <<sender, receiver, upper>>

Next ==
  /\ ~crashed
  /\ \/ RecvSdu
     \/ \E n \in Grants : GeneratePdu(n)
     \/ \E p \in BagToSet(air) : RecvData(p)
     \/ \E n \in StatusGrants : GenerateStatus(n)
     \/ RecvStatus
     \/ PollRetransmit
     \/ ReassemblyExpires
     \/ ProhibitExpires
     \/ Lose

Spec == Init /\ [][Next]_vars

-----------------------------------------------------------------------------
(* Properties *)

Unacked == wait_list \o retransmit_list
Queued == tx_list \o Unacked

\* The state of both entities has the types of their structures.
TypeOK ==
  /\ ToSet(Queued) \subseteq Segments
  /\ refs \in [Sdus -> 0..SduMax] /\ tx_size \in 0..TxMax
  /\ bstatus.tx \in Nat /\ bstatus.retx \in Nat
  /\ {tx_next, tx_next_ack, poll_sn} \subseteq Sn
  /\ {rx_next, rx_next_highest, rx_highest_status, rx_next_status_trigger} \subseteq Sn
  /\ \A n \in Sn : got[n] \subseteq [b : 0..(SduMax - 1), id : Sdus]
  /\ done \subseteq Sn /\ accepted \subseteq Sdus /\ confirmed \subseteq accepted
  /\ passed \cup overtook \subseteq Sn /\ {crashed, force_poll, t_poll, t_reassembly, status_triggered, prohibited} \subseteq BOOLEAN

\* The two entities over a lossy, reordering lower layer implement Transfer:
\* nothing is handed over twice, cut or mixed, and sdu_successful_delivery is
\* only called for an SDU that the peer has handed over.
Promise == INSTANCE Transfer
AmImplementsTransfer == Promise!Spec

BytesOf(s) == {s.id} \X (s.so..(s.so + s.size - 1))

\* A byte is in one segment of one list at most, and a byte of an SDU that the
\* peer has not handed over is in a list unless the peer holds it: no report,
\* late, cut short or overtaken, makes the sender free what is still missing.
NothingLost ==
  \E segments \in {[k \in 1..Len(Queued) |-> BytesOf(Queued[k])]} :
    /\ \A k \in DOMAIN segments : \A l \in 1..(k - 1) : segments[k] \cap segments[l] = {}
    /\ \A i \in accepted \ Promise!HandedOver : \A b \in 0..(Sizes[i] - 1) :
         \/ \E k \in DOMAIN segments : <<i, b>> \in segments[k]
         \/ \E x \in Sn : [b |-> b, id |-> i] \in got[x]

\* The wait list and the retransmit list stay sorted by SN and offset, which
\* the walk of process_control_pdu and the wait_end shortcut rely on.
ListsSorted ==
  \A l \in {wait_list, retransmit_list} : \A k \in 2..Len(l) : Greater(l[k], l[k - 1])

\* The byte counts that the scheduler is given (bstatus), the fill of the
\* buffer (tx_size) and the reference counts are those of the lists, however
\* segments were cut, moved and freed.
CountsExact ==
  /\ bstatus = [tx |-> Total(tx_list), retx |-> Total(retransmit_list)]
  /\ tx_size = BytesIn(accepted \ confirmed)
  /\ \A i \in Sdus : refs[i] = Len(SelectSeq(Queued, LAMBDA s : s.id = i))

\* The sender's lists are sorted and counted exactly.
ListsExact == TypeOK /\ ListsSorted /\ CountsExact

\* "set TX_Next_Ack equal to the SN of the RLC SDU with the smallest SN [...]
\* for which a positive acknowledgment has not been received yet": no segment
\* that has an SN, in any list, lies before tx_next_ack.
AckNotAhead == \A s \in ToSet(Queued) : s.sn # -1 => ModTx(s.sn) < ModTx(tx_next)

\* The window variables of the two sides stay in order and within a window of
\* each other, modulo sn_modulus, whatever the reports in between say, and
\* tx_next_ack, from which the sender measures, is not ahead of its lists;
\* until a report of a partly sent SDU lets tx_next_ack go past it, for the
\* list with its tail is not among those process_control_pdu looks at.
WindowsAgree ==
  passed = {} =>
    /\ AckNotAhead
    /\ ModTx(rx_next) <= ModTx(rx_highest_status)
    /\ ModTx(rx_highest_status) <= ModTx(rx_next_highest)
    /\ ModTx(rx_next_highest) <= ModTx(tx_next)
    /\ ModTx(tx_next) <= WindowSize

\* A gap that no status report covers yet (above rx_highest_status) has
\* t_reassembly running, so it will be reported.
NoForgottenGap == t_reassembly \/ ~GapAbove(rx_highest_status)

\* What waits for an acknowledgement is asked for: t_poll_retransmit runs, or a
\* poll goes out with the next PDU, or there is a PDU to come.  Not so if it is
\* behind tx_next_ack, or went out without a poll in a grant that was too small
\* for the retransmission before it, which a report then made superfluous.
UnackedIsPolled ==
  (\E s \in ToSet(wait_list) : s.sn \notin passed \cup overtook)
    => t_poll \/ force_poll \/ tx_list # <<>> \/ retransmit_list # <<>>

\* Unless the window is stalled, check_t_poll_retransmit finds a head of the
\* wait list to dereference.
PollHasWaiter == crashed => Stalling(tx_next) /\ retransmit_list # <<>>

\* The timers run for what they are there for: a gap is reported
\* (check_t_reassembly), what waits is asked for, and there is something to ask
\* for when check_t_poll_retransmit runs.
TimersAgree == NoForgottenGap /\ UnackedIsPolled /\ PollHasWaiter

\* "the wait list should not be empty here, but not sure": the comment on the
\* head of the wait list that check_t_poll_retransmit dereferences.
WaitListNotEmpty == ~crashed
=============================================================================
