---------------------------- MODULE UeLifecycle ----------------------------
(***************************************************************************)
(* Random access and the life of a UE context in the gNB's MAC.            *)
(*                                                                         *)
(* Four parties share the random access processes, the UE list and the     *)
(* table of F1 identities: the slot scheduler (gNB_dlsch_ulsch_scheduler:  *)
(* nr_mac_update_timers, then nr_schedule_RA), the PHY indications         *)
(* (nr_initiate_ra_proc, nr_rx_sdu, the Msg4 feedback), the task that runs *)
(* the F1 handlers of mac_rrc_dl_handler.c, and the CU behind it.          *)
(* sched_lock serialises the first three, but nr_mac_release_ue drops it   *)
(* while it tells the CU, and dl_rrc_message_transfer drops it after the   *)
(* look-up.  An indication that takes the lock, works and releases it is   *)
(* one action.                                                             *)
(***************************************************************************)
EXTENDS Integers, Sequences, FiniteSets, SequencesExt

CONSTANTS
  Rnti,          \* the numbers taus() may draw for a temporary C-RNTI
  NumRa,         \* NR_NB_RA_PROC_MAX
  Capacities,    \* the values of MAX_MOBILES_PER_GNB to consider
  HarqRoundMax,  \* transmissions of Msg3
  Window,        \* ra_ResponseWindow, in slots
  CrTimer,       \* contention resolution timer, in slots
  ReleaseTimer,  \* nr_mac_trigger_release_timer, in slots
  UlFailTimer,   \* nr_mac_trigger_ul_failure, in slots
  MaxPreambles,  \* bound on the preambles of a behaviour
  MaxEvents      \* bound on UL failures and procedures the CU starts by itself

ASSUME LifecycleAssumption ==
  /\ {NumRa, HarqRoundMax, CrTimer, ReleaseTimer, MaxPreambles} \subseteq Nat \ {0}
  /\ Capacities \subseteq Nat \ {0}
  /\ {Window, MaxEvents} \subseteq Nat
  /\ UlFailTimer \in Nat \ {0, 1}
  /\ 0 \notin Rnti          \* 0 is the RNTI of a process that is not in use

VARIABLES
  fatal,     \* the assertion that has ended the gNB, "none" while it runs
  lock,      \* sched_lock: "free", or "sched" while the slot scheduler has it
  dl,        \* this slot is a downlink slot
  ra,        \* cc->ra[]
  ues,       \* UE_info.list
  f1,        \* du2cu_ue_mapping: the CU's id of a UE, 0 if there is none
  sch,       \* slot scheduler: program counter, position and UE to release
  du,        \* F1 task: program counter, call and UE pointer
  inbox,     \* calls of the CU that wait for the F1 task
  cu,        \* UE contexts of the CU, with what the CU owes the DU
  pusch,     \* RNTIs whose Msg3 the PHY receives in this slot
  held,      \* C-RNTIs that terminals hold
  count,     \* preambles, contexts created and events so far
  maxUe,     \* MAX_MOBILES_PER_GNB of this gNB, which never changes
  shared     \* history: numbers drawn while another process worked with them

mac == <<ra, ues, f1>>
outside == <<inbox, cu, held>>
vars == <<fatal, lock, dl, mac, sch, du, outside, pusch, count, maxUe, shared>>

Ra == 1..NumRa
K2 == 1                   \* slots from a grant to its Msg3
Ids == 1..MaxPreambles    \* a context has an identity of its own

IdleRa == [state |-> "IDLE", rnti |-> 0, round |-> 0, timer |-> 0, age |-> 0,
           due |-> -1, harq |-> "none"]
NewUe(id, r) == [id |-> id, rnti |-> r, acked |-> FALSE, data |-> FALSE,
                 release |-> 0, ulf |-> FALSE, ulft |-> 0]
Call(kind, r, id, text) == [kind |-> kind, rnti |-> r, id |-> id, text |-> text]
IdleDu == [pc |-> "idle", call |-> Call("none", 0, 0, FALSE), ue |-> 0]
Waiting == [pc |-> "wait", k |-> 1, rnti |-> 0]

\* find_nr_UE, and the position it finds.
Known(list, r) == \E k \in DOMAIN list : list[k].rnti = r
At(list, r) == CHOOSE k \in DOMAIN list : list[k].rnti = r
\* mac_remove_nr_ue closes the gap the UE leaves.
Without(list, r) == SelectSeq(list, LAMBDA u : u.rnti # r)

Init ==
  /\ fatal = "none" /\ lock = "free" /\ dl = TRUE
  /\ ra = [i \in Ra |-> IdleRa]
  /\ ues = <<>>
  /\ f1 = [r \in Rnti |-> 0]
  /\ sch = Waiting /\ du = IdleDu
  /\ inbox = <<>> /\ cu = {} /\ held = {} /\ pusch = {}
  /\ count = [preambles |-> 0, contexts |-> 0, events |-> 0]
  /\ maxUe \in Capacities /\ shared = {}

-----------------------------------------------------------------------------
(* Indications of the PHY *)

\* Faulty variant: a draw that is not checked against the UE list.
TrialsUnchecked == Rnti

\* The numbers nr_initiate_ra_proc accepts: the RNTI of no UE.  The look-up
\* among the pending processes compares with ra->rnti, which is 0, and finds
\* nothing.
Trials == {r \in Rnti : ~Known(ues, r)}

\* Is r the number of something that is still on its way?
InUse(r) ==
  \/ f1[r] # 0 \/ du.call.rnti = r \/ sch.rnti = r \/ r \in held \cup pusch
  \/ \E i \in Ra : ra[i].rnti = r
  \/ \E k \in DOMAIN inbox : inbox[k].rnti = r
  \/ \E e \in cu : e.rnti = r

\* RNTIs are only compared with each other, so one draw stands for all that do
\* not coincide with anything.
Draws ==
  {r \in Trials : InUse(r) \/ \A q \in Trials : InUse(q) \/ r <= q}

\* nr_initiate_ra_proc: the first free process takes the preamble; without a
\* free process or a number nothing changes.
InitiateRa ==
  /\ lock = "free" /\ count.preambles < MaxPreambles
  /\ \E i \in Ra, r \in Draws :
       /\ ra[i].state = "IDLE" /\ \A j \in 1..(i - 1) : ra[j].state # "IDLE"
       /\ ra' = [ra EXCEPT ![i] = [IdleRa EXCEPT !.state = "Msg2", !.rnti = r]]
       /\ shared' = IF \E j \in Ra : ra[j].state # "IDLE" /\ ra[j].rnti = r
                    THEN shared \cup {r} ELSE shared \ {r}
  /\ count' = [count EXCEPT !.preambles = @ + 1]
  /\ UNCHANGED <<fatal, lock, dl, ues, f1, sch, du, outside, pusch>>

\* handle_msg3_failed_rx
Msg3Failed(p) ==
  IF p.round >= HarqRoundMax - 1 THEN IdleRa
  ELSE [p EXCEPT !.round = @ + 1, !.state = "Msg3_retransmission", !.due = -1]

Waits(i) == ra[i].state = "WAIT_Msg3"
ThisSlot(i) == Waits(i) /\ ra[i].due = 0

\* A PUSCH that could not be decoded: nr_rx_sdu has no RNTI to go by and fails
\* every process whose Msg3 slot it is.
RxMsg3Crc(r) ==
  /\ ra' = [i \in Ra |-> IF ThisSlot(i) THEN Msg3Failed(ra[i]) ELSE ra[i]]
  /\ UNCHANGED <<ues, cu, count, fatal>>

\* A PUSCH of zeros: every process that waits is failed, whatever its slot.
RxMsg3NoSignal(r) ==
  /\ ra' = [i \in Ra |-> IF Waits(i) THEN Msg3Failed(ra[i]) ELSE ra[i]]
  /\ UNCHANGED <<ues, cu, count, fatal>>

\* The first process that waits for RNTI r, 0 if there is none.
Match(r) ==
  LET hits == {i \in Ra : Waits(i) /\ ra[i].rnti = r}
  IN  IF hits = {} THEN 0 ELSE CHOOSE i \in hits : \A j \in hits : i <= j
\* On its way to the match the loop gives up the processes of this slot.
PassedOver(r) ==
  [i \in Ra |-> IF ThisSlot(i) /\ ra[i].rnti # r /\ (Match(r) = 0 \/ i < Match(r))
                THEN IdleRa ELSE ra[i]]

Full == Len(ues) >= maxUe
Added(r) == Append(ues, NewUe(count.contexts + 1, r))

\* Msg3 with a message on CCCH: a context is added and the message goes to the
\* CU, whose answer will be Msg4.
RxMsg3Ccch(r) ==
  LET i == Match(r)
      passed == PassedOver(r)
  IN  /\ UNCHANGED fatal
      /\ IF i = 0
         THEN ra' = passed /\ UNCHANGED <<ues, cu, count>>
         ELSE IF Full
         THEN ra' = [passed EXCEPT ![i] = IdleRa] /\ UNCHANGED <<ues, cu, count>>
         ELSE /\ ra' = [passed EXCEPT ![i].state = "Msg4", ![i].due = -1]
              /\ ues' = Added(r)
              /\ cu' = cu \cup {[id |-> count.contexts + 1, rnti |-> r, owes |-> "setup"]}
              /\ count' = [count EXCEPT !.contexts = @ + 1]

\* Msg3 with the MAC CE C-RNTI c: the context just added will be released, the
\* process goes on for the UE that c names, whose HARQ lists are reset and
\* whose reconfiguration is asked for; without such a UE it is given up.
RxMsg3CRnti(r, c) ==
  LET i == Match(r)
      passed == PassedOver(r)
      temp == [Added(r) EXCEPT ![Len(ues) + 1].release = ReleaseTimer]
  IN  IF i = 0
      THEN ra' = passed /\ UNCHANGED <<ues, cu, count, fatal>>
      ELSE IF Full
      THEN ra' = [passed EXCEPT ![i] = IdleRa] /\ UNCHANGED <<ues, cu, count, fatal>>
      ELSE IF ~Known(temp, c)
      THEN /\ ra' = [passed EXCEPT ![i] = IdleRa]
           /\ ues' = temp
           /\ count' = [count EXCEPT !.contexts = @ + 1]
           /\ UNCHANGED <<cu, fatal>>
      ELSE /\ ra' = [j \in Ra |->
                IF j = i THEN [passed[i] EXCEPT !.state = "Msg4", !.rnti = c, !.due = -1]
                ELSE IF ra[j].rnti = c /\ ra[j].harq # "none"
                THEN [passed[j] EXCEPT !.harq = "done"] ELSE passed[j]]
           /\ ues' = [temp EXCEPT ![At(temp, c)].acked = FALSE, ![At(temp, c)].ulf = FALSE,
                                  ![At(temp, c)].ulft = 0]
           /\ count' = [count EXCEPT !.contexts = @ + 1]
           /\ fatal' = IF f1[c] = 0 THEN "f1data" ELSE fatal
           /\ cu' = {IF e.id = f1[c] /\ e.owes = "none" THEN [e EXCEPT !.owes = "reconf"] ELSE e : e \in cu}

\* nr_rx_sdu for an RNTI that is not in the UE list, at the Msg3 of r.
RxMsg3 ==
  /\ lock = "free"
  /\ \E r \in pusch :
       /\ pusch' = pusch \ {r}
       /\ IF Known(ues, r) THEN UNCHANGED <<ra, ues, cu, count, fatal>>
          ELSE \/ RxMsg3Crc(r)
               \/ RxMsg3NoSignal(r)
               \/ RxMsg3Ccch(r)
               \/ \E c \in held : RxMsg3CRnti(r, c)
  /\ UNCHANGED <<lock, dl, f1, sch, du, inbox, held>>

\* The HARQ feedback of Msg4 (the UCI handlers, see module DlHarq).
Msg4Feedback ==
  /\ lock = "free"
  /\ \E i \in Ra, v \in {"ack", "nack", "last nack"} :
       /\ ra[i].harq = "waiting" /\ Known(ues, ra[i].rnti)
       /\ ra' = [ra EXCEPT ![i].harq = IF v = "nack" THEN "nack" ELSE "done"]
       /\ ues' = IF v = "ack" THEN [ues EXCEPT ![At(ues, ra[i].rnti)].acked = TRUE] ELSE ues
       /\ held' = IF v = "ack" THEN held \cup {ra[i].rnti} ELSE held
  /\ UNCHANGED <<fatal, lock, dl, f1, sch, du, inbox, cu, pusch, count>>

\* nr_mac_trigger_ul_failure for a connected UE, after too many PUSCH or PUCCH
\* occasions without a signal.
UlFailure ==
  /\ lock = "free" /\ count.events < MaxEvents
  /\ \E k \in DOMAIN ues :
       /\ ues[k].acked /\ ~ues[k].ulf
       /\ ues' = [ues EXCEPT ![k].ulf = TRUE, ![k].ulft = UlFailTimer]
  /\ count' = [count EXCEPT !.events = @ + 1]
  /\ UNCHANGED <<fatal, lock, dl, ra, f1, sch, du, outside, pusch>>

-----------------------------------------------------------------------------
(* The slot scheduler *)

\* Where the loops of a slot go on at position k, the UE list having n entries:
\* after the last UE nr_schedule_RA follows, after its last process the slot is
\* over and the lock free.
GoOn(pc, k, n) ==
  IF pc = "timers" /\ k <= n THEN [pc |-> pc, k |-> k, rnti |-> 0]
  ELSE IF pc = "timers" THEN [pc |-> "ra", k |-> 1, rnti |-> 0]
  ELSE IF k <= NumRa THEN [pc |-> pc, k |-> k, rnti |-> 0]
  ELSE Waiting
Continue(pc, k, n) ==
  /\ sch' = GoOn(pc, k, n)
  /\ lock' = IF sch' = Waiting THEN "free" ELSE "sched"

\* gNB_dlsch_ulsch_scheduler takes the lock; a slot has passed.
SlotStart ==
  /\ sch.pc = "wait" /\ lock = "free"
  /\ Continue("timers", 1, Len(ues))
  /\ dl' = ~dl
  /\ ra' = [i \in Ra |->
       [ra[i] EXCEPT !.due = IF @ >= 0 THEN @ - 1 ELSE @,
                     !.age = IF ra[i].state = "Msg2" /\ @ <= Window THEN @ + 1 ELSE @]]
  /\ pusch' = {ra[i].rnti : i \in {j \in Ra : Waits(j) /\ ra[j].due = 1}}
  /\ UNCHANGED <<fatal, ues, f1, du, outside, count>>

\* The first half of nr_mac_release_ue: the context goes at once; if the CU
\* knows the UE, the lock is dropped and the caller continues at "get".
ReleaseUe(list, r, at) ==
  /\ ues' = Without(list, r)
  /\ IF f1[r] # 0
     THEN lock' = "free" /\ sch' = [pc |-> at, k |-> sch.k, rnti |-> r]
     ELSE Continue(sch.pc, sch.k + 1, Len(ues'))

\* Faulty variant: a request that is never sent.
RequestsReleaseNever(u) == FALSE
\* nr_mac_check_ul_failure sends its request once, on the way from 2 to 0.
RequestsRelease(u) == u.ulf /\ u.ulft = 2

\* ue_context_release_request: the CU is to release the UE with its id i.
Asked(i) == {IF e.id = i THEN [e EXCEPT !.owes = "release"] ELSE e : e \in cu}

\* nr_mac_update_timers at one UE of the list.  UE-- in the release branch
\* moves no iterator, so the UE that takes the freed place is passed over.
UpdateTimers ==
  /\ sch.pc = "timers"
  /\ LET u == ues[sch.k] IN
     IF u.release = 1
     THEN ReleaseUe(ues, u.rnti, "get timers") /\ UNCHANGED <<fatal, cu>>
     ELSE /\ ues' = [ues EXCEPT
               ![sch.k].release = IF @ = 0 THEN 0 ELSE @ - 1,
               ![sch.k].ulft = IF u.ulf /\ @ > 0 THEN @ - 1 ELSE @]
          /\ fatal' = IF RequestsRelease(u) /\ f1[u.rnti] = 0 THEN "f1data" ELSE fatal
          /\ cu' = IF RequestsRelease(u) THEN Asked(f1[u.rnti]) ELSE cu
          /\ Continue("timers", sch.k + 1, Len(ues))
  /\ UNCHANGED <<dl, ra, f1, du, inbox, held, pusch, count>>

Contends(p) == p.state \notin {"IDLE", "Msg2"}    \* ra_state >= nrRA_WAIT_Msg3
Granted(p) == [p EXCEPT !.state = "WAIT_Msg3", !.due = K2, !.timer = CrTimer, !.age = 0]

\* nr_generate_Msg2: not in this slot, too late, no resources, or sent.
GenerateMsg2(p) ==
  IF ~dl THEN {p} ELSE IF p.age > Window THEN {IdleRa} ELSE {p, Granted(p)}

\* nr_generate_Msg3_retransmission: no uplink slot or resources, or sent.
RetransmitMsg3(p) == {p, Granted(p)}

\* Faulty variant: a Msg4 that starts the contention resolution anew.
GenerateMsg4Restarts(p) ==
  IF dl /\ Known(ues, p.rnti) /\ (p.harq = "nack" \/ ues[At(ues, p.rnti)].data)
  THEN {p, [p EXCEPT !.state = "WAIT_Msg4_ACK", !.harq = "waiting", !.timer = CrTimer]}
  ELSE {p}

\* nr_generate_Msg4 needs a downlink slot, the context, and a retransmission or
\* data of the CU.
GenerateMsg4(p) ==
  IF dl /\ Known(ues, p.rnti) /\ (p.harq = "nack" \/ ues[At(ues, p.rnti)].data)
  THEN {p, [p EXCEPT !.state = "WAIT_Msg4_ACK", !.harq = "waiting"]}
  ELSE {p}

\* Faulty variant: a failed Msg4 that leaves its context alone.
Msg4FailedKeeps(u) == u
\* Msg4 was not acknowledged: nr_mac_trigger_ul_failure, unless it is running.
Msg4Failed(u) ==
  IF u.acked \/ u.ulf THEN u ELSE [u EXCEPT !.ulf = TRUE, !.ulft = UlFailTimer]

\* nr_check_Msg4_Ack
CheckMsg4Ack(p) ==
  IF Known(ues, p.rnti) /\ p.harq = "done" THEN {IdleRa}
  ELSE IF Known(ues, p.rnti) /\ p.harq = "nack" THEN {[p EXCEPT !.state = "Msg4"]}
  ELSE {p}

\* nr_schedule_RA at one process whose contention resolution is not over.
Step(p) ==
  CASE p.state = "Msg2" -> GenerateMsg2(p)
    [] p.state = "Msg3_retransmission" -> RetransmitMsg3(p)
    [] p.state = "Msg4" -> GenerateMsg4(p)
    [] p.state = "WAIT_Msg4_ACK" -> CheckMsg4Ack(p)
    [] OTHER -> {p}

\* What the step does to the UE list: Msg4 takes the data, a verdict on Msg4
\* may be a failure.
UesAfter(p, q) ==
  IF ~Known(ues, p.rnti) THEN ues
  ELSE LET k == At(ues, p.rnti) IN
       CASE p.state = "Msg4" /\ q.state = "WAIT_Msg4_ACK" /\ p.harq # "nack"
              -> [ues EXCEPT ![k].data = FALSE]
         [] p.state = "WAIT_Msg4_ACK" /\ q.state = "IDLE"
              -> [ues EXCEPT ![k] = Msg4Failed(@)]
         [] OTHER -> ues

ScheduleRa ==
  /\ sch.pc = "ra"
  /\ LET p == [ra[sch.k] EXCEPT !.timer = IF Contends(ra[sch.k]) THEN @ - 1 ELSE @]
     IN  IF p.timer < 0
         THEN /\ ReleaseUe(ues, p.rnti, "get ra")
              /\ ra' = [ra EXCEPT ![sch.k] = IF f1[p.rnti] # 0 THEN p ELSE IdleRa]
         ELSE /\ \E q \in Step(p) :
                   ra' = [ra EXCEPT ![sch.k] = q] /\ ues' = UesAfter(p, q)
              /\ Continue("ra", sch.k + 1, Len(ues))
  /\ UNCHANGED <<fatal, dl, f1, du, outside, pusch, count>>

\* The second half of nr_mac_release_ue, without the lock: the CU is told,
\* then the identity is removed.
TellCu(r) ==
  /\ fatal' = IF f1[r] = 0 THEN "f1data" ELSE fatal
  /\ cu' = {e \in cu : e.id # f1[r]}
Forget(r) == f1' = [f1 EXCEPT ![r] = 0]

SchedTell ==
  /\ sch.pc \in {"get timers", "get ra"}
  /\ TellCu(sch.rnti)
  /\ sch' = [sch EXCEPT !.pc = IF @ = "get ra" THEN "forget ra" ELSE "forget timers"]
  /\ UNCHANGED <<lock, dl, mac, du, inbox, held, pusch, count>>

SchedForget ==
  /\ sch.pc \in {"forget timers", "forget ra"}
  /\ Forget(sch.rnti)
  /\ sch' = [sch EXCEPT !.pc = IF @ = "forget ra" THEN "lock ra" ELSE "lock timers"]
  /\ UNCHANGED <<fatal, lock, dl, ra, ues, du, outside, pusch, count>>

\* Back under the lock, the loop that released the UE goes on; nr_schedule_RA
\* first clears its process.
SchedLock ==
  /\ sch.pc \in {"lock timers", "lock ra"} /\ lock = "free"
  /\ Continue(IF sch.pc = "lock ra" THEN "ra" ELSE "timers", sch.k + 1, Len(ues))
  /\ ra' = IF sch.pc = "lock ra" THEN [ra EXCEPT ![sch.k] = IdleRa] ELSE ra
  /\ UNCHANGED <<fatal, dl, ues, f1, du, outside, pusch, count>>

-----------------------------------------------------------------------------
(* The F1 handlers *)

HeadCall == Head(inbox)
NextCall == inbox' = Tail(inbox)
Has(u) == [u EXCEPT !.data = TRUE]      \* nr_rlc_srb_recv_sdu for this UE

\* dl_rrc_message_transfer looks the UE up under the lock and keeps the pointer.
DlRrc(c) ==
  /\ du' = [pc |-> "add", call |-> c, ue |-> ues[At(ues, c.rnti)].id]
  /\ UNCHANGED <<fatal, ra, ues, cu>>

\* ue_context_setup_request hands a message to the UE's SRB 1.
Deliver(c) ==
  /\ ues' = [ues EXCEPT ![At(ues, c.rnti)] = Has(@)]
  /\ UNCHANGED <<fatal, ra, cu, du>>

\* ue_context_modification_confirm drops the lock before it does so.
Confirm(c) ==
  /\ du' = [pc |-> "use", call |-> c, ue |-> ues[At(ues, c.rnti)].id]
  /\ UNCHANGED <<fatal, ra, ues, cu>>

\* ue_context_modification_refuse clears the random accesses of the UE and asks
\* the CU to release it.
Refuse(c) ==
  /\ ra' = [i \in Ra |-> IF ra[i].rnti = c.rnti THEN IdleRa ELSE ra[i]]
  /\ cu' = Asked(c.id)
  /\ UNCHANGED <<fatal, ues, du>>

\* ue_context_release_command: a UE that has failed, or for which there is
\* nothing to send, goes at once; another gets the message and the timer.
Release(c) ==
  LET k == At(ues, c.rnti) IN
  /\ IF ues[k].ulf \/ ~c.text
     THEN /\ ues' = Without(ues, c.rnti)
          /\ du' = IF f1[c.rnti] # 0 THEN [pc |-> "get", call |-> c, ue |-> 0] ELSE du
     ELSE /\ ues' = [ues EXCEPT ![k] = [Has(@) EXCEPT !.release = ReleaseTimer]]
          /\ du' = du
  /\ UNCHANGED <<fatal, ra, cu>>

\* A call for a UE that is not (any more) in the list is ignored, except that a
\* UE Context Setup Request must find its UE.
Unknown(c) ==
  /\ fatal' = IF c.kind = "setup" THEN "setup" ELSE fatal
  /\ UNCHANGED <<ra, ues, cu, du>>

HandleCall ==
  /\ du.pc = "idle" /\ lock = "free" /\ inbox # <<>>
  /\ NextCall
  /\ LET c == HeadCall IN
     CASE ~Known(ues, c.rnti) -> Unknown(c)
       [] Known(ues, c.rnti) /\ c.kind = "dlrrc" -> DlRrc(c)
       [] Known(ues, c.rnti) /\ c.kind = "setup" -> Deliver(c)
       [] Known(ues, c.rnti) /\ c.kind = "confirm" -> Confirm(c)
       [] Known(ues, c.rnti) /\ c.kind = "refuse" -> Refuse(c)
       [] Known(ues, c.rnti) /\ c.kind = "release" -> Release(c)
  /\ UNCHANGED <<lock, dl, f1, sch, held, pusch, count>>

\* dl_rrc_message_transfer after it has dropped the lock: the CU's id is stored
\* if there is none, then the message goes to the RLC entity of the RNTI
\* (nr_rlc_srb_recv_sdu), as it does in ue_context_modification_confirm.
DlRrcAdd ==
  /\ du.pc = "add"
  /\ f1' = [f1 EXCEPT ![du.call.rnti] = IF @ = 0 THEN du.call.id ELSE @]
  /\ du' = [du EXCEPT !.pc = "use"]
  /\ UNCHANGED <<fatal, lock, dl, ra, ues, sch, outside, pusch, count>>

SendSdu ==
  /\ du.pc = "use"
  /\ ues' = IF Known(ues, du.call.rnti)
            THEN [ues EXCEPT ![At(ues, du.call.rnti)] = Has(@)] ELSE ues
  /\ du' = IdleDu
  /\ UNCHANGED <<fatal, lock, dl, ra, f1, sch, outside, pusch, count>>

\* The second half of nr_mac_release_ue, called by ue_context_release_command.
DuTell ==
  /\ du.pc = "get"
  /\ TellCu(du.call.rnti)
  /\ du' = [du EXCEPT !.pc = "forget"]
  /\ UNCHANGED <<lock, dl, mac, sch, inbox, held, pusch, count>>

DuForget ==
  /\ du.pc = "forget"
  /\ Forget(du.call.rnti)
  /\ du' = IdleDu
  /\ UNCHANGED <<fatal, lock, dl, ra, ues, sch, outside, pusch, count>>

-----------------------------------------------------------------------------
(* The CU *)

\* What the CU owes a UE: the RRC setup, a reconfiguration it may refuse, or a
\* release, with or without a message for the UE.
Owed(e) ==
  CASE e.owes = "setup" -> {Call("dlrrc", e.rnti, e.id, TRUE)}
    [] e.owes = "reconf" -> {Call(k, e.rnti, e.id, TRUE) : k \in {"confirm", "refuse"}}
    [] e.owes = "release" -> {Call("release", e.rnti, e.id, t) : t \in BOOLEAN}
    [] OTHER -> {}

CuSends(e, calls) ==
  /\ \E c \in calls : inbox' = Append(inbox, c)
  /\ cu' = (cu \ {e}) \cup {[e EXCEPT !.owes = "none"]}
  /\ UNCHANGED <<fatal, lock, dl, mac, sch, du, pusch, held>>

CuAnswers ==
  /\ \E e \in cu : CuSends(e, Owed(e))
  /\ UNCHANGED count

\* The CU may also begin a procedure by itself.  Its further messages to the UE
\* find the id stored and change nothing here.
CuCalls ==
  /\ count.events < MaxEvents
  /\ \E e \in cu : /\ e.owes = "none"
                   /\ CuSends(e, {Call("setup", e.rnti, e.id, TRUE)} \cup Owed([e EXCEPT !.owes = "release"]))
  /\ count' = [count EXCEPT !.events = @ + 1]

-----------------------------------------------------------------------------
Indication == RxMsg3 \/ Msg4Feedback \/ UlFailure
Scheduler == SlotStart \/ UpdateTimers \/ ScheduleRa
               \/ SchedTell \/ SchedForget \/ SchedLock
F1Task == HandleCall \/ DlRrcAdd \/ SendSdu \/ DuTell \/ DuForget

\* An assertion that fails ends the gNB.
Running(A) == fatal = "none" /\ A /\ UNCHANGED <<maxUe, shared>>
Preamble == fatal = "none" /\ InitiateRa /\ UNCHANGED maxUe
Next == Preamble \/ Running(Indication \/ Scheduler \/ F1Task \/ CuAnswers \/ CuCalls)

Spec == Init /\ [][Next]_vars

\* Slots come for ever, the F1 task gets the lock in one of the pauses between
\* the slots (strong fairness) and the CU does what it owes.  Nothing is assumed
\* of the terminals and of the PHY.
FairSpec ==
  /\ Spec
  /\ WF_vars(Running(Scheduler))
  /\ SF_vars(Running(F1Task))
  /\ WF_vars(Running(CuAnswers))

-----------------------------------------------------------------------------
(* Properties *)

RaState == {"IDLE", "Msg2", "WAIT_Msg3", "Msg3_retransmission", "Msg4", "WAIT_Msg4_ACK"}

\* The variables have their types; in particular the rounds of Msg3 stay below
\* harq_round_max and the UE list within its array.
TypeOK ==
  /\ fatal \in {"none", "f1data", "setup"} /\ lock \in {"free", "sched"}
  /\ \A i \in Ra : /\ ra[i].state \in RaState /\ ra[i].rnti \in Rnti \cup {0}
                   /\ ra[i].round \in 0..(HarqRoundMax - 1) /\ ra[i].timer \in -1..CrTimer
                   /\ ra[i].age \in 0..(Window + 1) /\ ra[i].due \in -1..K2
                   /\ ra[i].harq \in {"none", "waiting", "nack", "done"}
  /\ Len(ues) <= maxUe /\ shared \subseteq Rnti
  /\ \A k \in DOMAIN ues : /\ ues[k].id \in Ids /\ ues[k].rnti \in Rnti
                           /\ ues[k].release \in 0..ReleaseTimer
                           /\ ues[k].ulft \in 0..UlFailTimer
  /\ f1 \in [Rnti -> 0..MaxPreambles]
  /\ pusch \subseteq Rnti /\ held \subseteq Rnti

\* While a random access works with a temporary C-RNTI, no UE context has that
\* RNTI, unless two accesses have drawn one number: nr_initiate_ra_proc excludes
\* the contexts that are there, and no later step gives the number to another
\* one.  It does not exclude the numbers of pending accesses, and then one of
\* the two may find the context of the other.
TcRntiFree ==
  \A i \in Ra : ra[i].state \in {"Msg2", "WAIT_Msg3", "Msg3_retransmission"}
                  => ~Known(ues, ra[i].rnti) \/ ra[i].rnti \in shared

\* The release of the UE with RNTI r is on its way.
ReleaseComing(r) ==
  \/ \E e \in cu : e.rnti = r /\ e.owes = "release"
  \/ \E k \in DOMAIN inbox : inbox[k].kind = "release" /\ inbox[k].rnti = r

\* No context is left behind: one that is not connected has a random access
\* that will decide about it, a timer that will remove it, or a release that is
\* on its way.
NoOrphan ==
  lock = "free" => \A k \in DOMAIN ues :
    \/ ues[k].acked \/ ues[k].release > 0 \/ ues[k].ulf
    \/ \E i \in Ra : ra[i].state \in {"Msg4", "WAIT_Msg4_ACK"} /\ ra[i].rnti = ues[k].rnti
    \/ ReleaseComing(ues[k].rnti)

\* "element for ue_id %d not found" never fires: whenever nr_mac_release_ue,
\* nr_mac_check_ul_failure or nr_mac_trigger_reconfiguration fetches the CU's id
\* of a UE, dl_rrc_message_transfer has stored one and nobody has removed it.
F1DataThere == fatal # "f1data"

\* Every random access ends: the window of Msg2, the rounds of Msg3 and the
\* contention resolution timer leave no way to stay in one.
RaEnds ==
  \A i \in Ra : []<>(ra[i].state = "IDLE" \/ fatal # "none")

Undecided(id) ==
  \E k \in DOMAIN ues : ues[k].id = id /\ (~ues[k].acked \/ ues[k].ulf)
\* A context that is not connected, or whose uplink has failed, is connected
\* again or gone in the end, although nr_mac_update_timers passes over the
\* neighbour of a UE it releases and a request for release is sent only once.
ContextSettled == \A id \in Ids : []<>(~Undecided(id) \/ fatal # "none")

=============================================================================
