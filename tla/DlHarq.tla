------------------------------- MODULE DlHarq -------------------------------
(***************************************************************************)
(* The downlink HARQ processes of one UE: the three lists of process ids   *)
(* (available, feedback, retrans), what the slot scheduler, the uplink     *)
(* control handler and the random access procedure do to them, and the     *)
(* timing by which a HARQ bit is matched to a process.  Every handler runs *)
(* under sched_lock; pc says which of them holds it, and a handler's loops *)
(* are one step per iteration.  The lists are sequences of ids; NRList     *)
(* shows that the linked lists of the code implement them.                 *)
(***************************************************************************)
EXTENDS Integers, Sequences, Functions

CONSTANTS NumHarq,    \* nrofHARQ_ProcessesForPDSCH once configured
          InitHarq,   \* the number of processes before that (8 in the code)
          RoundMax,   \* harq_round_max
          Frames,     \* 1024, the modulus of the frame counter
          Slots,      \* slots per frame
          K1,         \* the largest pdsch_to_harq_feedback delay, in slots
          MaxDai,     \* acknowledgements a short PUCCH carries (2)
          MaxLag,     \* bound: UCI indications not yet handled
          MaxFaults   \* bound: UCI indications lost and random accesses by the
                      \* connected UE, together

Pids == 0..(NumHarq - 1)
Times == 0..(Frames * Slots - 1)
Dtx == 2              \* no new-data indicator received yet

ASSUME HarqAssumption ==
  /\ NumHarq \in Nat \ {0} /\ InitHarq \in 1..NumHarq /\ RoundMax \in Nat \ {0}
  /\ Frames \in Nat \ {0} /\ Slots \in Nat \ {0} /\ K1 \in 1..(Frames * Slots - 1)
  /\ MaxDai \in Nat /\ MaxLag \in Nat /\ MaxFaults \in Nat

VARIABLES
  len,        \* the length of the three lists
  available, feedback, retrans,     \* available_dl_harq, ...
  round, is_waiting, at, ndi,       \* harq_processes[pid]; at is the feedback time
  sent,       \* the NDI the UE last saw per process
  cut,        \* history: the processes whose block a random access has cut off
              \* and which have not been sent since
  ra, ra_pid, \* NR_RA_t: ra_state and harq_pid
  Msg4_ACKed, ul_failure,
  now, pc,    \* the slot; the handler that holds sched_lock
  pucch,      \* sched_pucch: the processes acknowledged in each slot to come
  ul,         \* the slots to come with a usable PUCCH resource
  phy, uci, bit,   \* UCI indications on their way, the one handled, its next bit
  credited,   \* the processes that the last bit was meant for and was applied to
  lost, ras,  \* losses and random accesses so far
  assert      \* an AssertFatal or DevAssert has fired

lists == <<len, available, feedback, retrans>>
procs == <<round, is_waiting, at, ndi, sent, cut>>
access == <<ra, ra_pid, Msg4_ACKed, ul_failure, ras>>
air == <<pucch, ul, phy, lost>>
rx == <<uci, bit, credited>>
vars == <<lists, procs, access, now, pc, air, rx, assert>>

\* add_tail_nr_list: adding the id that is the tail already changes nothing.
AddTail(s, p) == IF s # <<>> /\ s[Len(s)] = p THEN s ELSE Append(s, p)

\* remove_nr_list of an id that is in the list.
RemoveId(s, p) ==
  LET k == CHOOSE n \in 1..Len(s) : s[n] = p
  IN  [n \in 1..(Len(s) - 1) |-> IF n < k THEN s[n] ELSE s[n + 1]]

frame(t) == t \div Slots
slot(t) == t % Slots
Later(t, k) == (t + k) % (Frames * Slots)

\* find_harq tells past from future by half of the frame counter's range.
InPast(t, ref) ==
  \/ (frame(t) - frame(ref) + Frames) % Frames > Frames \div 2
  \/ frame(t) = frame(ref) /\ slot(t) < slot(ref)
\* Faulty variant: a feedback due now counts as one of the future.
InFutureOrNow(t, ref) ==
  \/ (frame(ref) - frame(t) + Frames) % Frames > Frames \div 2
  \/ frame(t) = frame(ref) /\ slot(t) >= slot(ref)
InFuture(t, ref) ==
  \/ (frame(ref) - frame(t) + Frames) % Frames > Frames \div 2
  \/ frame(t) = frame(ref) /\ slot(t) > slot(ref)

\* A UE just created by Msg3, its random access about to send Msg4.
Init ==
  /\ len = InitHarq
  /\ available = [n \in 1..InitHarq |-> n - 1] /\ feedback = <<>> /\ retrans = <<>>
  /\ round = [p \in Pids |-> 0] /\ is_waiting = [p \in Pids |-> FALSE]
  /\ at = [p \in Pids |-> 0] /\ ndi = [p \in Pids |-> 0]
  /\ sent = [p \in Pids |-> Dtx] /\ cut = {}
  /\ ra = "Msg4" /\ ra_pid = 0 /\ Msg4_ACKed = FALSE /\ ul_failure = FALSE /\ ras = 0
  /\ now = 0 /\ pc = "unlocked"
  /\ pucch = [t \in Times |-> <<>>] /\ ul = {} /\ phy = <<>> /\ lost = 0
  /\ uci = [at |-> 0, bits |-> <<>>] /\ bit = 1 /\ credited = <<0, 0>>
  /\ assert = FALSE

(***************************************************************************)
(* The slot scheduler: gNB_dlsch_ulsch_scheduler                           *)
(***************************************************************************)
\* nr_schedule_pucch hands the PUCCH of the slot to the PHY; whether the slot
\* that comes into reach has a free uplink resource is not this UE's doing.
SlotStart ==
  /\ pc = "unlocked" /\ Len(phy) < MaxLag
  /\ now' = Later(now, 1) /\ pc' = "ra"
  /\ phy' = IF pucch[now'] = <<>> THEN phy
            ELSE Append(phy, [at |-> now', bits |-> pucch[now']])
  /\ pucch' = [pucch EXCEPT ![now'] = <<>>]
  /\ \E usable \in BOOLEAN :
       ul' = (ul \ {now'}) \cup (IF usable THEN {Later(now', K1)} ELSE {})
  /\ UNCHANGED <<lists, procs, access, lost, rx, assert>>

\* nr_acknack_scheduling takes the first PUCCH with room.
HasRoom(k) == Later(now, k) \in ul /\ Len(pucch[Later(now, k)]) < MaxDai
Occasion(t) ==
  \E k \in 1..K1 : /\ t = Later(now, k) /\ HasRoom(k)
                   /\ \A l \in 1..(k - 1) : ~HasRoom(l)

\* Faulty variant: the process is put before those that wait for feedback.
TransmitFront(p, t) ==
  /\ feedback' = <<p>> \o feedback
  /\ is_waiting' = [is_waiting EXCEPT ![p] = TRUE]
  /\ at' = [at EXCEPT ![p] = t]
  /\ sent' = [sent EXCEPT ![p] = ndi[p]] /\ cut' = cut \ {p}
  /\ pucch' = [pucch EXCEPT ![t] = Append(@, p)]
  /\ UNCHANGED <<len, round, ndi, ul, phy, lost, rx, now>>

\* A process goes on the air and waits for its feedback.
Transmit(p, t) ==
  /\ feedback' = AddTail(feedback, p)
  /\ is_waiting' = [is_waiting EXCEPT ![p] = TRUE]
  /\ at' = [at EXCEPT ![p] = t]
  /\ sent' = [sent EXCEPT ![p] = ndi[p]] /\ cut' = cut \ {p}
  /\ pucch' = [pucch EXCEPT ![t] = Append(@, p)]
  /\ UNCHANGED <<len, round, ndi, ul, phy, lost, rx, now>>

\* nr_generate_Msg4: a retransmission leaves the process in the retrans list.
GenerateMsg4 ==
  /\ pc = "ra" /\ ra = "Msg4"
  /\ \E t \in Times :
       /\ Occasion(t)
       /\ IF retrans = <<>> /\ available = <<>>
          THEN assert' = TRUE /\ UNCHANGED <<lists, procs, access, now, pc, air, rx>>
          ELSE LET p == IF retrans # <<>> THEN Head(retrans) ELSE Head(available)
               IN  /\ assert' = is_waiting[p]
                   /\ available' = IF retrans # <<>> THEN available ELSE Tail(available)
                   /\ Transmit(p, t)
                   /\ ra' = "WAIT_Msg4_ACK" /\ ra_pid' = p /\ pc' = "ue"
                   /\ UNCHANGED <<retrans, Msg4_ACKed, ul_failure, ras>>

\* nr_check_Msg4_Ack once the feedback is in: the end of the random access, or
\* another Msg4.
CheckMsg4Ack ==
  /\ pc = "ra" /\ ra = "WAIT_Msg4_ACK" /\ ~is_waiting[ra_pid]
  /\ pc' = "ue"
  /\ IF round[ra_pid] = 0
     THEN /\ ra' = "idle" /\ ul_failure' = (ul_failure \/ ~Msg4_ACKed)
          /\ assert' = (retrans # <<>> /\ ra_pid \notin Range(retrans))
          /\ retrans' = IF ra_pid \in Range(retrans) THEN RemoveId(retrans, ra_pid)
                        ELSE retrans
     ELSE ra' = "Msg4" /\ UNCHANGED <<retrans, ul_failure, assert>>
  /\ UNCHANGED <<len, available, feedback, procs, ra_pid, Msg4_ACKed, ras, now, air, rx>>

\* No random access, Msg4 not acknowledged yet, or nothing to send it with.
RaWait ==
  /\ pc = "ra" /\ ~(ra = "WAIT_Msg4_ACK" /\ ~is_waiting[ra_pid])
  /\ pc' = "ue"
  /\ UNCHANGED <<lists, procs, access, now, air, rx, assert>>

\* dl_sched_unit and nr_schedule_ue_spec: the head of retrans goes first, a new
\* transmission takes the head of available.
Schedulable == pc = "ue" /\ Msg4_ACKed /\ ~ul_failure
ScheduleRetx ==
  /\ Schedulable /\ retrans # <<>>
  /\ \E t \in Times :
       LET p == Head(retrans) IN
       /\ Occasion(t)
       /\ assert' = \/ is_waiting[p] \/ round[p] >= RoundMax
                    \/ round[p] = 0 /\ p \notin Range(available)
       /\ IF round[p] = 0 /\ p \in Range(available)
          THEN available' = RemoveId(available, p) /\ UNCHANGED retrans
          ELSE retrans' = Tail(retrans) /\ UNCHANGED available
       /\ Transmit(p, t)
  /\ pc' = "unlocked" /\ UNCHANGED access
ScheduleNew ==
  /\ Schedulable /\ retrans = <<>> /\ available # <<>>
  /\ \E t \in Times :
       LET p == Head(available) IN
       /\ Occasion(t)
       /\ assert' = (is_waiting[p] \/ round[p] >= RoundMax)
       /\ available' = Tail(available) /\ UNCHANGED retrans
       /\ Transmit(p, t)
  /\ pc' = "unlocked" /\ UNCHANGED access
ScheduleNone ==
  /\ pc = "ue" /\ pc' = "unlocked"
  /\ UNCHANGED <<lists, procs, access, now, air, rx, assert>>

(***************************************************************************)
(* Uplink control: handle_nr_uci_pucch_0_1 and handle_nr_uci_pucch_2_3_4   *)
(***************************************************************************)
UciStart ==
  /\ pc = "unlocked" /\ phy # <<>>
  /\ pc' = "uci" /\ uci' = Head(phy) /\ bit' = 1 /\ phy' = Tail(phy)
  /\ UNCHANGED <<lists, procs, access, now, pucch, ul, lost, credited, assert>>

\* An indication that never comes ("in case of realtime problems").
UciLost ==
  /\ pc = "unlocked" /\ phy # <<>> /\ lost + ras < MaxFaults
  /\ phy' = Tail(phy) /\ lost' = lost + 1
  /\ UNCHANGED <<lists, procs, access, now, pc, pucch, ul, rx, assert>>

\* Faulty variant: an aborted process keeps its new-data indicator.
HandleDlHarqSameNdi(p, success) ==
  /\ feedback' = Tail(feedback)
  /\ is_waiting' = [is_waiting EXCEPT ![p] = FALSE] /\ at' = [at EXCEPT ![p] = 0]
  /\ IF success \/ round[p] >= RoundMax - 1
     THEN /\ available' = AddTail(available, p) /\ UNCHANGED retrans
          /\ round' = [round EXCEPT ![p] = 0]
          /\ ndi' = [ndi EXCEPT ![p] = IF success THEN 1 - @ ELSE @]
     ELSE /\ retrans' = AddTail(retrans, p) /\ UNCHANGED available
          /\ round' = [round EXCEPT ![p] = @ + 1] /\ UNCHANGED ndi
  /\ UNCHANGED <<len, sent, cut>>

\* Faulty variant: one transmission more than harq_round_max.
HandleDlHarqOneMore(p, success) ==
  /\ feedback' = Tail(feedback)
  /\ is_waiting' = [is_waiting EXCEPT ![p] = FALSE] /\ at' = [at EXCEPT ![p] = 0]
  /\ IF success \/ round[p] >= RoundMax
     THEN /\ available' = AddTail(available, p) /\ UNCHANGED retrans
          /\ round' = [round EXCEPT ![p] = 0] /\ ndi' = [ndi EXCEPT ![p] = 1 - @]
     ELSE /\ retrans' = AddTail(retrans, p) /\ UNCHANGED available
          /\ round' = [round EXCEPT ![p] = @ + 1] /\ UNCHANGED ndi
  /\ UNCHANGED <<len, sent, cut>>

\* handle_dl_harq, the process p having been taken from the head of feedback.
HandleDlHarq(p, success) ==
  /\ feedback' = Tail(feedback)
  /\ is_waiting' = [is_waiting EXCEPT ![p] = FALSE] /\ at' = [at EXCEPT ![p] = 0]
  /\ IF success \/ round[p] >= RoundMax - 1
     THEN /\ available' = AddTail(available, p) /\ UNCHANGED retrans
          /\ round' = [round EXCEPT ![p] = 0] /\ ndi' = [ndi EXCEPT ![p] = 1 - @]
     ELSE /\ retrans' = AddTail(retrans, p) /\ UNCHANGED available
          /\ round' = [round EXCEPT ![p] = @ + 1] /\ UNCHANGED ndi
  /\ UNCHANGED <<len, sent, cut>>

BitLeft == pc = "uci" /\ bit <= Len(uci.bits) /\ feedback # <<>>

\* The loop of find_harq: a feedback that was missed counts as a NACK.
UciMissed ==
  /\ BitLeft /\ InPast(at[Head(feedback)], uci.at)
  /\ HandleDlHarq(Head(feedback), FALSE)
  /\ UNCHANGED <<access, now, pc, air, rx, assert>>

\* A bit for the process at the head; only format 0 and 1 set Msg4_ACKed.
UciBit ==
  /\ BitLeft
  /\ ~InPast(at[Head(feedback)], uci.at) /\ ~InFuture(at[Head(feedback)], uci.at)
  /\ \E ack \in BOOLEAN, short \in BOOLEAN :
       /\ HandleDlHarq(Head(feedback), ack)
       /\ Msg4_ACKed' = (Msg4_ACKed \/ (ack /\ short))
  /\ assert' = ~is_waiting[Head(feedback)]
  /\ bit' = bit + 1 /\ credited' = <<uci.bits[bit], Head(feedback)>>
  /\ UNCHANGED <<ra, ra_pid, ul_failure, ras, now, pc, air, uci>>

\* The bits are used up, or the process at the head is not due yet.
UciEnd ==
  /\ pc = "uci"
  /\ BitLeft => /\ ~InPast(at[Head(feedback)], uci.at)
                /\ InFuture(at[Head(feedback)], uci.at)
  /\ pc' = "unlocked" /\ bit' = 1 /\ uci' = [at |-> 0, bits |-> <<>>]
  /\ credited' = <<0, 0>>
  /\ UNCHANGED <<lists, procs, access, now, air, assert>>

(***************************************************************************)
(* Random access of a connected UE, failures and reconfiguration           *)
(***************************************************************************)
\* _nr_rx_sdu, Msg3 with a C-RNTI: reset_dl_harq_list, then Msg4 is due.
Msg3 ==
  /\ pc = "unlocked" /\ ra = "idle" /\ lost + ras < MaxFaults
  /\ pc' = "reset" /\ ras' = ras + 1 /\ Msg4_ACKed' = FALSE /\ ul_failure' = FALSE
  /\ UNCHANGED <<lists, procs, ra, ra_pid, now, air, rx, assert>>
ResetFeedback ==
  /\ pc = "reset" /\ feedback # <<>>
  /\ feedback' = Tail(feedback) /\ available' = AddTail(available, Head(feedback))
  /\ UNCHANGED <<len, retrans, procs, access, now, pc, air, rx, assert>>
\* Faulty variant: the processes due for retransmission are dropped.
ResetRetransDrops ==
  /\ pc = "reset" /\ feedback = <<>> /\ retrans # <<>>
  /\ retrans' = Tail(retrans)
  /\ UNCHANGED <<len, available, feedback, procs, access, now, pc, air, rx, assert>>
ResetRetrans ==
  /\ pc = "reset" /\ feedback = <<>> /\ retrans # <<>>
  /\ retrans' = Tail(retrans) /\ available' = AddTail(available, Head(retrans))
  /\ UNCHANGED <<len, feedback, procs, access, now, pc, air, rx, assert>>
\* The new-data indicators stay as they are, and so does what the UE has seen
\* last: the UE of this repository starts a random access without flushing.
ResetEnd ==
  /\ pc = "reset" /\ feedback = <<>> /\ retrans = <<>>
  /\ cut' = cut \cup {p \in Pids : is_waiting[p] \/ round[p] > 0}
  /\ round' = [p \in Pids |-> 0] /\ is_waiting' = [p \in Pids |-> FALSE]
  /\ at' = [p \in Pids |-> 0]
  /\ ra' = "Msg4" /\ pc' = "unlocked"
  /\ UNCHANGED <<lists, ndi, sent, ra_pid, Msg4_ACKed, ul_failure, ras, now, air, rx, assert>>

\* nr_mac_trigger_ul_failure, from the uplink side.
UlFailure ==
  /\ pc = "unlocked" /\ ~ul_failure /\ ul_failure' = TRUE
  /\ UNCHANGED <<lists, procs, ra, ra_pid, Msg4_ACKed, ras, now, pc, air, rx, assert>>

\* create_dl_harq_list on a cell group with more processes.
CreateDlHarqList ==
  /\ pc = "unlocked" /\ len < NumHarq
  /\ len' = NumHarq
  /\ available' = available \o [n \in 1..(NumHarq - len) |-> len + n - 1]
  /\ UNCHANGED <<feedback, retrans, procs, access, now, pc, air, rx, assert>>

Scheduler == \/ SlotStart \/ GenerateMsg4 \/ CheckMsg4Ack \/ RaWait
             \/ ScheduleRetx \/ ScheduleNew \/ ScheduleNone
Uci == UciStart \/ UciMissed \/ UciBit \/ UciEnd
Reset == ResetFeedback \/ ResetRetrans \/ ResetEnd

Next == /\ ~assert
        /\ \/ Scheduler \/ Uci \/ UciLost
           \/ Msg3 \/ Reset \/ UlFailure \/ CreateDlHarqList

Spec == Init /\ [][Next]_vars

\* A slot comes every slot time, and the PHY thread gets the lock in between.
FairSpec == Spec /\ WF_vars(~assert /\ Scheduler) /\ WF_vars(~assert /\ Uci)
                 /\ WF_vars(~assert /\ Reset)

(***************************************************************************)
(* Properties                                                              *)
(***************************************************************************)
Known == 0..(len - 1)

\* The types of the lists, the processes and the random access.
TypeOK ==
  /\ len \in {InitHarq, NumHarq}
  /\ available \in Seq(Pids) /\ feedback \in Seq(Pids) /\ retrans \in Seq(Pids)
  /\ round \in [Pids -> Nat] /\ is_waiting \in [Pids -> BOOLEAN]
  /\ at \in [Pids -> Times] /\ ndi \in [Pids -> 0..1] /\ sent \in [Pids -> 0..2]
  /\ cut \subseteq Pids
  /\ ra \in {"idle", "Msg4", "WAIT_Msg4_ACK"} /\ ra_pid \in Pids
  /\ Msg4_ACKed \in BOOLEAN /\ ul_failure \in BOOLEAN /\ ras \in Nat
  /\ now \in Times /\ pc \in {"unlocked", "ra", "ue", "uci", "reset"}
  /\ pucch \in [Times -> Seq(Pids)] /\ ul \subseteq Times
  /\ phy \in Seq([at : Times, bits : Seq(Pids)]) /\ lost \in Nat
  /\ uci \in [at : Times, bits : Seq(Pids)] /\ bit \in Nat
  /\ credited \in Pids \X Pids /\ assert \in BOOLEAN

\* No process is lost: each is on a list, whatever is acknowledged, missed or
\* reset in between (remove_nr_list and add_tail_nr_list come in pairs).
NoneLost == Known = Range(available) \cup Range(feedback) \cup Range(retrans)

\* None of the assertions on HARQ processes fires: a process is sent only when it
\* is not waiting, with a round below harq_round_max, from the list that holds it.
NoAssert == ~assert

\* A process is on one list only, but for the process of a Msg4 sent again, which
\* stays in retrans until nr_check_Msg4_Ack takes it out.
OneList ==
  /\ IsInjective(available) /\ IsInjective(feedback) /\ IsInjective(retrans)
  /\ Range(available) \cap Range(feedback) = {}
  /\ \A p \in Range(retrans) \cap (Range(available) \cup Range(feedback)) :
       pc = "reset" \/ (ra = "WAIT_Msg4_ACK" /\ p = ra_pid)

\* The UE is waited for exactly where its process is on the feedback list.
WaitingIffFeedback ==
  pc # "reset" => \A p \in Pids : is_waiting[p] <=> p \in Range(feedback)

\* The three lists partition the processes and agree with what is waited for,
\* whatever the UCI handlers, Msg4 and the reset on a C-RNTI move between them.
ListsAgree == TypeOK /\ NoneLost /\ OneList /\ WaitingIffFeedback

\* A retransmission carries the NDI the UE has seen last, and a transmission that
\* starts a process anew the other one, so the UE does not mix two blocks, through
\* aborts and losses.  The exception is exactly the first transmission of a process
\* whose block a random access has cut off: reset_dl_harq_list does not toggle the
\* NDI, and a UE that has not flushed its buffers takes it for a retransmission.
NdiTells ==
  [][\A p \in Pids : is_waiting'[p] /\ ~is_waiting[p] =>
       (sent[p] = ndi[p] <=> round[p] > 0 \/ p \in cut)]_vars

\* No indication has been lost and no random access has reset the lists.
Undisturbed == lost = 0 /\ ras = 0

\* A HARQ bit, which names no process, is applied to the process the UE sent it
\* for, as long as nothing has been lost or reset.
VerdictMatches == Undisturbed => credited[1] = credited[2]

\* A process that waits for feedback is freed or sent again in the end, as long as
\* nothing has been lost or reset.
FeedbackHandled == \A p \in Pids : []<>(~is_waiting[p] \/ ~Undisturbed)

\* The processes do not all wait for ever: "old feedbacks we missed: mark for
\* retransmission".
NoStall == Range(feedback) = Known ~> Range(feedback) # Known
=============================================================================
