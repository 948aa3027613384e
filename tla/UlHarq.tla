------------------------------- MODULE UlHarq -------------------------------
(***************************************************************************)
(* The uplink HARQ processes of one UE and the accounting that goes with   *)
(* them: the three lists of process ids, the bytes that are scheduled      *)
(* (sched_ul_bytes) against those the UE has announced                     *)
(* (estimated_ul_buffer), and the count of silent receptions by which the  *)
(* gNB notices that the UE is gone.                                        *)
(*                                                                         *)
(* Two threads: the scheduler grants a PUSCH (pf_ul, nr_schedule_ulsch),   *)
(* the receiver reports it.  A report is two calls, nr_rx_sdu and then     *)
(* handle_nr_ul_harq, each under sched_lock, with the lock free between.   *)
(***************************************************************************)
EXTENDS Integers, Sequences, FiniteSets, Functions

CONSTANTS NumHarq,    \* uplink HARQ processes (16 in the code)
          RoundMax,   \* ul_bler.harq_round_max
          TbSizes,    \* sizes of transport blocks, in bytes
          MaxBuf,     \* the largest buffer a BSR reports
          DtxThres,   \* pusch_failure_thres
          MaxLost,    \* bound: reports that never come
          MaxRa       \* bound: random accesses by the connected UE

Pids == 0..(NumHarq - 1)

ASSUME UlAssumption ==
  /\ NumHarq \in Nat \ {0} /\ RoundMax \in Nat \ {0} /\ TbSizes \subseteq Nat \ {0}
  /\ MaxBuf \in Nat /\ DtxThres \in Nat \ {0} /\ MaxLost \in Nat /\ MaxRa \in Nat

VARIABLES
  available, feedback, retrans,   \* available_ul_harq, ...
  round, is_waiting, tb_size,     \* ul_harq_processes[pid]
  sched_ul_bytes, estimated_ul_buffer,
  SR, inactive,   \* a scheduling request; no grant for long
  dtx,            \* pusch_consecutive_dtx_cnt
  ul_failure, Msg4_ACKed,
  air,            \* the processes with a PUSCH not reported yet, in order of time
  pc, crc,        \* where the receiver is; the report it handles
  silent,         \* the UE is out of reach, for good
  lost, ras,      \* missing reports and random accesses so far
  clean           \* no report missing and no reset so far

lists == <<available, feedback, retrans>>
procs == <<round, is_waiting, tb_size>>
demand == <<sched_ul_bytes, estimated_ul_buffer, SR, inactive>>
link == <<dtx, ul_failure, Msg4_ACKed>>
env == <<silent, lost, ras, clean>>
vars == <<lists, procs, demand, link, air, pc, crc, env>>

NoCrc == [pid |-> 0, ok |-> FALSE]
NotBelow0(n) == IF n < 0 THEN 0 ELSE n

\* add_tail_nr_list: adding the id that is the tail already changes nothing.
AddTail(s, p) == IF s # <<>> /\ s[Len(s)] = p THEN s ELSE Append(s, p)

\* A UE that has just acknowledged Msg4.
Init ==
  /\ available = [n \in 1..NumHarq |-> n - 1] /\ feedback = <<>> /\ retrans = <<>>
  /\ round = [p \in Pids |-> 0] /\ is_waiting = [p \in Pids |-> FALSE]
  /\ tb_size = [p \in Pids |-> 0]
  /\ sched_ul_bytes = 0 /\ estimated_ul_buffer = 0 /\ SR = FALSE /\ inactive = FALSE
  /\ dtx = 0 /\ ul_failure = FALSE /\ Msg4_ACKed = TRUE
  /\ air = <<>> /\ pc = "idle" /\ crc = NoCrc
  /\ silent = FALSE /\ lost = 0 /\ ras = 0 /\ clean = TRUE

-----------------------------------------------------------------------------
(* The scheduler: pf_ul decides, nr_schedule_ulsch grants *)

\* handle_nr_ul_harq keeps the lock over its loop.
LockFree == pc \in {"idle", "between"}

\* Faulty variant: a UE that has been idle for long is not granted anything.
IsToBeScheduledNeverIdle == estimated_ul_buffer > sched_ul_bytes \/ SR

\* nr_UE_is_to_be_scheduled; with no data the UE gets the minimum grant.
IsToBeScheduled == estimated_ul_buffer > sched_ul_bytes \/ SR \/ inactive

\* What pf_ul asks of every UE it schedules.
Schedulable == LockFree /\ Msg4_ACKed /\ ~ul_failure

\* nr_schedule_ulsch for process p, whose grant also answers a scheduling request.
Grant(p) ==
  /\ feedback' = AddTail(feedback, p)
  /\ is_waiting' = [is_waiting EXCEPT ![p] = TRUE]
  /\ air' = Append(air, p)
  /\ SR' = FALSE /\ inactive' = FALSE
  /\ UNCHANGED <<round, estimated_ul_buffer, link, pc, crc, env>>

\* allocate_ul_retransmission: the head of retrans goes first, with its old size.
GrantRetx ==
  /\ Schedulable /\ retrans # <<>>
  /\ retrans' = Tail(retrans) /\ UNCHANGED available
  /\ Grant(Head(retrans))
  /\ UNCHANGED <<tb_size, sched_ul_bytes>>

\* A new transport block; its size depends on MCS and free resource blocks.
GrantNew ==
  /\ Schedulable /\ retrans = <<>> /\ available # <<>> /\ IsToBeScheduled
  /\ available' = Tail(available) /\ UNCHANGED retrans
  /\ Grant(Head(available))
  /\ \E size \in TbSizes :
       /\ tb_size' = [tb_size EXCEPT ![Head(available)] = size]
       /\ sched_ul_bytes' = sched_ul_bytes + size

\* ulsch_max_frame_inactivity frames have passed without a grant.
Inactivity ==
  /\ ~inactive /\ inactive' = TRUE
  /\ UNCHANGED <<lists, procs, sched_ul_bytes, estimated_ul_buffer, SR, link, air, pc, crc, env>>

-----------------------------------------------------------------------------
(* The receiver: nr_rx_sdu *)

\* The size of the block of the process at the head of the feedback list; when
\* the list is empty the code reads ul_harq_processes[-1], that is anything.
HeadTb == IF feedback # <<>> THEN {tb_size[Head(feedback)]} ELSE TbSizes \cup {0}
HeadRound == IF feedback # <<>> THEN {round[Head(feedback)]} ELSE 0..3

\* nr_process_mac_pdu: data takes its length off the estimate, a BSR replaces it.
AfterData == {NotBelow0(estimated_ul_buffer - n) : n \in TbSizes \cup {0}}
AfterBsr == 0..MaxBuf

\* A block that was decoded.
RxSdu ==
  /\ pc = "idle" /\ air # <<>> /\ ~silent
  /\ dtx' = 0
  /\ \E size \in HeadTb : sched_ul_bytes' = NotBelow0(sched_ul_bytes - size)
  /\ estimated_ul_buffer' \in AfterData \cup AfterBsr
  /\ crc' = [pid |-> Head(air), ok |-> TRUE] /\ air' = Tail(air) /\ pc' = "between"
  /\ UNCHANGED <<lists, procs, SR, inactive, ul_failure, Msg4_ACKed, env>>

\* A block that was not: the third retransmission is taken off the scheduled
\* bytes whatever harq_round_max is, and a weak signal counts as DTX.
RxNothing ==
  /\ pc = "idle" /\ air # <<>>
  /\ \E r \in HeadRound, size \in HeadTb :
       sched_ul_bytes' = IF r = 3 THEN NotBelow0(sched_ul_bytes - size) ELSE sched_ul_bytes
  /\ \E quiet \in IF silent THEN {TRUE} ELSE BOOLEAN : dtx' = IF quiet THEN dtx + 1 ELSE dtx
  /\ ul_failure' = (ul_failure \/ dtx' >= DtxThres)
  /\ crc' = [pid |-> Head(air), ok |-> FALSE] /\ air' = Tail(air) /\ pc' = "between"
  /\ UNCHANGED <<lists, procs, estimated_ul_buffer, SR, inactive, Msg4_ACKed, env>>

-----------------------------------------------------------------------------
(* The receiver: handle_nr_ul_harq *)

\* Faulty variant: an aborted block stays on the account.
FailKeepsBytes(p) ==
  /\ IF round[p] >= RoundMax - 1
     THEN /\ round' = [round EXCEPT ![p] = 0]
          /\ available' = AddTail(available, p) /\ UNCHANGED <<retrans, sched_ul_bytes>>
     ELSE /\ round' = [round EXCEPT ![p] = @ + 1]
          /\ retrans' = AddTail(retrans, p) /\ UNCHANGED <<available, sched_ul_bytes>>

\* A block that is to be sent again, or given up (abort_nr_ul_harq).
Fail(p) ==
  /\ IF round[p] >= RoundMax - 1
     THEN /\ round' = [round EXCEPT ![p] = 0]
          /\ available' = AddTail(available, p) /\ UNCHANGED retrans
          /\ sched_ul_bytes' = NotBelow0(sched_ul_bytes - tb_size[p])
     ELSE /\ round' = [round EXCEPT ![p] = @ + 1]
          /\ retrans' = AddTail(retrans, p) /\ UNCHANGED <<available, sched_ul_bytes>>

Handling == pc \in {"between", "harq"}
PopFeedback(p) ==
  /\ feedback' = Tail(feedback)
  /\ is_waiting' = [is_waiting EXCEPT ![p] = FALSE]
  /\ UNCHANGED <<tb_size, estimated_ul_buffer, SR, inactive, link, air, env>>
Return == pc' = "idle" /\ crc' = NoCrc

\* Faulty variant: a report for another process than the head is ignored.
HarqUnexpectedIgnored ==
  /\ Handling /\ feedback # <<>> /\ crc.pid # Head(feedback)
  /\ Return /\ UNCHANGED <<lists, procs, demand, link, air, env>>

\* One turn of the loop: the report of the process at the head never came.
HarqUnexpected ==
  /\ Handling /\ feedback # <<>> /\ crc.pid # Head(feedback)
  /\ PopFeedback(Head(feedback)) /\ Fail(Head(feedback))
  /\ pc' = "harq" /\ UNCHANGED crc

\* Nothing waits for a report.
HarqNone ==
  /\ Handling /\ feedback = <<>>
  /\ Return /\ UNCHANGED <<lists, procs, demand, link, air, env>>

HarqPassed ==
  /\ Handling /\ feedback # <<>> /\ crc.pid = Head(feedback) /\ crc.ok
  /\ PopFeedback(crc.pid)
  /\ round' = [round EXCEPT ![crc.pid] = 0]
  /\ available' = AddTail(available, crc.pid)
  /\ Return /\ UNCHANGED <<retrans, sched_ul_bytes>>

HarqFailed ==
  /\ Handling /\ feedback # <<>> /\ crc.pid = Head(feedback) /\ ~crc.ok
  /\ PopFeedback(crc.pid) /\ Fail(crc.pid)
  /\ Return

-----------------------------------------------------------------------------
(* Random access of the connected UE, and the environment *)

\* Faulty variant: the blocks to be sent again are forgotten.
ResetDropsRetrans ==
  /\ pc = "idle" /\ ~silent /\ ras < MaxRa
  /\ available' = available \o feedback
  /\ feedback' = <<>> /\ retrans' = <<>>
  /\ round' = [p \in Pids |-> 0] /\ is_waiting' = [p \in Pids |-> FALSE]
  /\ Msg4_ACKed' = FALSE /\ ul_failure' = FALSE /\ dtx' = 0
  /\ estimated_ul_buffer' \in AfterData \cup AfterBsr
  /\ ras' = ras + 1 /\ clean' = FALSE
  /\ UNCHANGED <<tb_size, sched_ul_bytes, SR, inactive, air, pc, crc, silent, lost>>

\* Msg3 with a C-RNTI: nr_mac_reset_ul_failure and reset_ul_harq_list, then
\* nr_process_mac_pdu takes what else is in Msg3 to this UE.
Reset ==
  /\ pc = "idle" /\ ~silent /\ ras < MaxRa
  /\ available' = available \o feedback \o retrans
  /\ feedback' = <<>> /\ retrans' = <<>>
  /\ round' = [p \in Pids |-> 0] /\ is_waiting' = [p \in Pids |-> FALSE]
  /\ Msg4_ACKed' = FALSE /\ ul_failure' = FALSE /\ dtx' = 0
  /\ estimated_ul_buffer' \in AfterData \cup AfterBsr
  /\ ras' = ras + 1 /\ clean' = FALSE
  /\ UNCHANGED <<tb_size, sched_ul_bytes, SR, inactive, air, pc, crc, silent, lost>>

\* Msg4 of that random access is acknowledged, or given up.  The exchange takes
\* longer than the PUSCHs that were on their way.
Msg4Ack ==
  /\ pc = "idle" /\ air = <<>> /\ ~Msg4_ACKed /\ ~silent
  /\ Msg4_ACKed' = TRUE
  /\ UNCHANGED <<lists, procs, demand, dtx, ul_failure, air, pc, crc, env>>
Msg4Failed ==
  /\ LockFree /\ ~Msg4_ACKed /\ ~ul_failure
  /\ ul_failure' = TRUE
  /\ UNCHANGED <<lists, procs, demand, dtx, Msg4_ACKed, air, pc, crc, env>>

\* A scheduling request on PUCCH.
SrReceived ==
  /\ LockFree /\ ~silent /\ ~SR /\ SR' = TRUE
  /\ UNCHANGED <<lists, procs, sched_ul_bytes, estimated_ul_buffer, inactive, link, air, pc, crc, env>>

\* The PHY does not report a PUSCH.
ReportLost ==
  /\ pc = "idle" /\ air # <<>> /\ lost < MaxLost
  /\ air' = Tail(air) /\ lost' = lost + 1 /\ clean' = FALSE
  /\ UNCHANGED <<lists, procs, demand, link, pc, crc, silent, ras>>

\* The UE leaves the cell, or is switched off.
GoSilent ==
  /\ ~silent /\ silent' = TRUE
  /\ UNCHANGED <<lists, procs, demand, link, air, pc, crc, lost, ras, clean>>

Scheduler == GrantRetx \/ GrantNew
HandleUlHarq == HarqUnexpected \/ HarqNone \/ HarqPassed \/ HarqFailed
Receiver == RxSdu \/ RxNothing \/ HandleUlHarq

Next == \/ Scheduler \/ Inactivity \/ Receiver
        \/ Reset \/ Msg4Ack \/ Msg4Failed \/ SrReceived \/ ReportLost \/ GoSilent

Spec == Init /\ [][Next]_vars

\* The scheduler runs in every slot and finds room for the UE again and again, the
\* frames pass, what the PHY reports is handled, and Msg4 is answered or not.
FairSpec == Spec /\ WF_vars(Scheduler) /\ WF_vars(Inactivity) /\ WF_vars(Receiver)
                 /\ WF_vars(Msg4Ack \/ Msg4Failed)

-----------------------------------------------------------------------------
(* Properties *)

\* The types; sched_ul_bytes and the round of a process stay in their ranges.
TypeOK ==
  /\ available \in Seq(Pids) /\ feedback \in Seq(Pids) /\ retrans \in Seq(Pids)
  /\ round \in [Pids -> 0..(RoundMax - 1)] /\ is_waiting \in [Pids -> BOOLEAN]
  /\ tb_size \in [Pids -> TbSizes \cup {0}]
  /\ sched_ul_bytes \in Nat /\ estimated_ul_buffer \in 0..MaxBuf
  /\ SR \in BOOLEAN /\ inactive \in BOOLEAN /\ dtx \in Nat
  /\ ul_failure \in BOOLEAN /\ Msg4_ACKed \in BOOLEAN
  /\ air \in Seq(Pids) /\ pc \in {"idle", "between", "harq"}
  /\ crc \in [pid : Pids, ok : BOOLEAN]
  /\ silent \in BOOLEAN /\ lost \in 0..MaxLost /\ ras \in 0..MaxRa /\ clean \in BOOLEAN

\* Every process is on exactly one list, waits exactly on the feedback list, and
\* its round says which other list it is on: nr_schedule_ulsch picks the list to
\* remove it from by the round, and asserts that it does not wait.
ListsAgree ==
  /\ TypeOK
  /\ IsInjective(available \o feedback \o retrans)
  /\ Range(available \o feedback \o retrans) = Pids
  /\ \A p \in Pids :
       /\ is_waiting[p] <=> p \in Range(feedback)
       /\ p \in Range(available) => round[p] = 0
       /\ p \in Range(retrans) => round[p] > 0

\* The bytes of the blocks of some processes, each as its process and its number:
\* their count is the sum of the sizes.
Bytes(sizes, S) == UNION {{p} \X (1..sizes[p]) : p \in S}
Outstanding == Cardinality(Bytes(tb_size, Range(feedback) \cup Range(retrans)))

\* The account of the bytes never exceeds the true sum, and below 4 rounds it is
\* exact: in round 3 nr_rx_sdu takes the block off, which with 4 rounds (the
\* default) is given up and taken off a second time, and with more is sent again.
Accounts(bytes, total) == bytes <= total /\ (RoundMax < 4 => bytes = total)

\* sched_ul_bytes holds "uplink bytes that are currently scheduled": the blocks
\* that were granted and neither received nor given up.  It never counts more, so
\* that is_to_be_scheduled does not hold a UE back for bytes that are off the air,
\* and no less if harq_round_max is below 4; as long as no report was missing and
\* no random access reset the lists.
BytesAccounted == clean /\ pc = "idle" => Accounts(sched_ul_bytes, Outstanding)

\* Every process waits for a report that the PHY did not send: pf_ul skips a UE
\* that has no free process, so there is no further PUSCH whose report could tell
\* ("this can be considered a design flaw").  It takes as many missing reports
\* as there are processes.
Starved ==
  pc = "idle" /\ air = <<>> /\ Range(feedback) = Pids /\ lost >= NumHarq

\* A process whose report went missing is noticed through a later report: no
\* process waits for ever, unless the UE has been given up or as many reports
\* went missing as there are processes.
WaitingEnds ==
  \A p \in Pids : is_waiting[p] ~> (~is_waiting[p] \/ ul_failure \/ Starved)

\* A UE that is gone is noticed: it goes on being granted PUSCHs, empty buffer or
\* not, until pusch_failure_thres of them in a row were silent; unless as many
\* reports went missing as there are processes.
SilenceNoticed == silent ~> (ul_failure \/ Starved)
=============================================================================
