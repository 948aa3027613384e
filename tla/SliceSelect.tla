---------------------------- MODULE SliceSelect ----------------------------
(***************************************************************************)
(* How the MAC scheduler picks, slot by slot, the one slice each UE is      *)
(* served in (gNB_scheduler_dlsch.c): nr_store_dl_slice_info maps every     *)
(* bearer's NSSAI to a configured slice, nr_get_ue_active_slice_list lists   *)
(* the UE's slices, nr_store_dlsch_buffer adds up what waits in each, and    *)
(* nr_slice_preprocess chooses.  What the UE is then sent comes from the     *)
(* signalling bearers and from the data bearers of the chosen slice only.    *)
(*                                                                           *)
(* Buffers are empty or not.  Which UEs get resources, and how far down      *)
(* their bearers the transport block reaches, is left open (SliceSched has   *)
(* the resources); meanwhile RRC adds and removes bearers, starts the        *)
(* RRC-processing timer, and the uplink of a UE fails and recovers.          *)
(***************************************************************************)
EXTENDS Integers, FiniteSets

CONSTANTS
  NumUE,      \* UEs, in the order of UE_info.list
  Slices,     \* sids of the configured slices; 0 is the default slice
  Nssais,     \* NSSAIs a bearer may have
  SidOf,      \* sid of an NSSAI, 0 if no configured slice has it
  Drbs,       \* LCIDs of data bearers; DL_SCH_LCID_DTCH is 4
  Busy,       \* UEs whose bearers and traffic vary; the others are idle
  DlSlots     \* downlink slots of a frame

UE == 1..NumUE
Srb == 1
Lcids == {Srb} \cup Drbs
Dtch == 4
Sid == {0} \cup Slices
None == "none"

ASSUME SelectAssumption ==
  /\ NumUE \in Nat \ {0} /\ Slices \subseteq Nat \ {0} /\ IsFiniteSet(Slices)
  /\ SidOf \in [Nssais -> Sid] /\ None \notin Nssais
  /\ Drbs \subseteq Nat \ (0..3) /\ Busy \subseteq UE
  /\ DlSlots \subseteq Nat /\ DlSlots # {} /\ IsFiniteSet(DlSlots)

VARIABLES
  phase,    \* "idle", "sched" (slices chosen), "fatal" (AssertFatal)
  slot,     \* the downlink slot
  lc,       \* lc_config: NSSAI of each data bearer, or None
  data,     \* bearers with data in RLC
  status,   \* rlc_status[lcid].bytes_in_buffer > 0
  sid,      \* dl_sl_info[lcid].sid
  timer,    \* rrc_processing_timer > 0
  failure,  \* ul_failure
  chosen    \* slice_for_this_sched

env == <<lc, data, timer, failure>>
vars == <<phase, slot, env, status, sid, chosen>>

Init ==
  /\ phase = "idle" /\ slot \in DlSlots
  /\ lc = [u \in UE |-> [l \in Drbs |-> None]]
  /\ data = [u \in UE |-> {}] /\ status = [u \in UE |-> {}]
  /\ sid = [u \in UE |-> [l \in Lcids |-> 0]]
  /\ timer = [u \in UE |-> FALSE] /\ failure = [u \in UE |-> FALSE]
  /\ chosen = [u \in UE |-> 0]

Configured(u) == {Srb} \cup {l \in Drbs : lc[u][l] # None}

-----------------------------------------------------------------------------
(* The other threads                                                       *)

Arrive(u, l) ==
  /\ u \in Busy /\ l \in Configured(u)
  /\ data' = [data EXCEPT ![u] = @ \cup {l}]
  /\ UNCHANGED <<phase, slot, lc, timer, failure, status, sid, chosen>>

\* handle_ue_context_drbs_setup, nr_mac_add_lcid.
Setup(u, l, n) ==
  /\ phase = "idle" /\ u \in Busy
  /\ lc' = [lc EXCEPT ![u][l] = n]
  /\ UNCHANGED <<phase, slot, data, timer, failure, status, sid, chosen>>

\* handle_ue_context_drbs_release, nr_mac_remove_lcid; the RLC entity goes too.
Remove(u, l) ==
  /\ phase = "idle" /\ u \in Busy /\ l \in Drbs \cap Configured(u)
  /\ lc' = [lc EXCEPT ![u][l] = None]
  /\ data' = [data EXCEPT ![u] = @ \ {l}]
  /\ UNCHANGED <<phase, slot, timer, failure, status, sid, chosen>>

\* nr_mac_enable_ue_rrc_processing_timer, and the count down to 0.
RrcTimer(u) ==
  /\ phase = "idle" /\ u \in Busy
  /\ timer' = [timer EXCEPT ![u] = ~@]
  /\ UNCHANGED <<phase, slot, lc, data, failure, status, sid, chosen>>

\* nr_mac_trigger_ul_failure and nr_mac_reset_ul_failure.
UlFailure(u) ==
  /\ phase = "idle"
  /\ failure' = [failure EXCEPT ![u] = ~@]
  /\ UNCHANGED <<phase, slot, lc, data, timer, status, sid, chosen>>

-----------------------------------------------------------------------------
(* nr_fr1_dlsch_preprocessor up to the choice                              *)

\* The bearers the two "store" functions go through.
Looked(u) == Configured(u) \ (IF timer[u] THEN {Dtch} ELSE {})

\* Faulty variant: an NSSAI that no slice has leaves the old sid in place.
StoredKept(u) ==
  [l \in Lcids |-> IF l \notin Looked(u) THEN sid[u][l]
                   ELSE IF l = Srb THEN 0
                   ELSE IF SidOf[lc[u][l]] = 0 THEN sid[u][l] ELSE SidOf[lc[u][l]]]
\* nr_store_dl_slice_info.
Stored(u) ==
  [l \in Lcids |-> IF l \notin Looked(u) THEN sid[u][l]
                   ELSE IF l = Srb THEN 0 ELSE SidOf[lc[u][l]]]

\* The n-th smallest element, or -1.
Nth(S, n) ==
  IF n <= Cardinality(S)
  THEN CHOOSE s \in S : Cardinality({t \in S : t < s}) = n - 1
  ELSE -1

\* Faulty variant: the default slice is listed a second time.
ActiveWithDefault(u) == {Stored(u)[l] : l \in Configured(u)}
\* nr_get_ue_active_slice_list: the slices of the UE's bearers, each once.
Active(u) == {Stored(u)[l] : l \in Configured(u)} \ {0}
\* avail_slice_list[k].sid.
Avail(u, k) == IF k = 0 THEN 0 ELSE Nth(Active(u), k)
\* num_slice_d.
NumSlices(u) == 1 + Cardinality(Active(u))

\* nr_store_dlsch_buffer: rlc_status of the bearers looked at, and whether an
\* entry of the list has bytes.
Status(u) == (status[u] \ Looked(u)) \cup (data[u] \cap Looked(u))
Bytes(u, s) == \E l \in Looked(u) \cap data[u] : Stored(u)[l] = s

\* ue_ind: the UEs before u whose uplink has not failed.
Index(u) == Cardinality({v \in 1..(u - 1) : ~failure[v]})

\* Faulty variant: the turn does not depend on the slot.
TurnByUe(u) == 1 + (Index(u) % 2)
\* The entry that comes first in this slot, of the two.
Turn(u) == IF slot % 2 = Index(u) % 2 THEN 1 ELSE 2

\* Faulty variant: no fallback when the slice whose turn it is has no bytes.
ChoiceStrict(u) == Avail(u, IF NumSlices(u) < 3 THEN NumSlices(u) - 1 ELSE Turn(u))
\* nr_slice_preprocess.
Choice(u) ==
  LET turn == IF Bytes(u, Avail(u, Turn(u))) THEN Turn(u) ELSE 3 - Turn(u)
  IN  Avail(u, IF NumSlices(u) < 3 THEN NumSlices(u) - 1 ELSE turn)

Preprocess ==
  /\ phase = "idle"
  /\ sid' = [u \in UE |-> Stored(u)]
  /\ status' = [u \in UE |-> Status(u)]
  /\ phase' = IF \E u \in UE : ~failure[u] /\ NumSlices(u) > 3 THEN "fatal" ELSE "sched"
  /\ chosen' = [u \in UE |-> IF failure[u] \/ NumSlices(u) > 3 THEN chosen[u] ELSE Choice(u)]
  /\ UNCHANGED <<slot, env>>

-----------------------------------------------------------------------------
(* The rest of the slot                                                    *)

\* The bearers nr_schedule_ue_spec may take data from, if it serves u: some
\* bearer has bytes, and a data bearer belongs to the chosen slice.
Allowed(u) ==
  IF failure[u] \/ status[u] \cap Looked(u) = {} THEN {}
  ELSE {l \in status[u] \cap Configured(u) : l = Srb \/ sid[u][l] = chosen[u]}

NextSlot ==
  LET later == {t \in DlSlots : t > slot}
      from == IF later = {} THEN DlSlots ELSE later
  IN  CHOOSE t \in from : \A v \in from : t <= v

\* The resources go to any of the UEs, and empty any of the bearers allowed.
\* The choice is not read again before the next one, so it is forgotten.
Transmit ==
  /\ phase = "sched"
  /\ \E sent \in SUBSET UNION {{u} \X Allowed(u) : u \in UE} :
       data' = [u \in UE |-> {l \in data[u] : <<u, l>> \notin sent}]
  /\ phase' = "idle" /\ slot' = NextSlot
  /\ chosen' = [u \in UE |-> 0]
  /\ UNCHANGED <<lc, timer, failure, status, sid>>

Next ==
  \/ Preprocess
  \/ Transmit
  \/ \E u \in UE :
       \/ \E l \in Lcids : Arrive(u, l)
       \/ \E l \in Drbs : Remove(u, l) \/ \E n \in Nssais : Setup(u, l, n)
       \/ RrcTimer(u)
       \/ UlFailure(u)

Spec == Init /\ [][Next]_vars

\* The slot indications keep coming, and the scheduler runs in each.
FairSpec == Spec /\ WF_vars(Preprocess \/ Transmit)

-----------------------------------------------------------------------------
(* Properties                                                              *)

TypeOK ==
  /\ phase \in {"idle", "sched", "fatal"} /\ slot \in DlSlots
  /\ lc \in [UE -> [Drbs -> Nssais \cup {None}]]
  /\ data \in [UE -> SUBSET Lcids] /\ status \in [UE -> SUBSET Lcids]
  /\ sid \in [UE -> [Lcids -> Sid]]
  /\ timer \in [UE -> BOOLEAN] /\ failure \in [UE -> BOOLEAN]
  /\ chosen \in [UE -> Sid]

\* With at most two configured slices the AssertFatal "slice scheduling not
\* ready for more than 2 slices" of nr_slice_preprocess is out of reach,
\* however many bearers a UE collects and however stale their sids are.
NeverFatal == Cardinality(Slices) <= 2 => phase # "fatal"

\* A UE is never given a slice in which nothing waits while a configured one of
\* its slices has bytes (the fallbacks of nr_slice_preprocess).
WorkConserving ==
  phase = "sched" =>
    \A u \in UE : ~failure[u] =>
      \/ \E l \in status[u] \cap Looked(u) : sid[u][l] = chosen[u]
      \/ \A l \in status[u] \cap Looked(u) : sid[u][l] = 0

\* What a data bearer may send is charged to the slice of its own NSSAI.  The
\* exception is the DTCH during RRC processing, whose sid is not refreshed.
OwnSliceOnly ==
  phase = "sched" =>
    \A u \in UE : \A l \in Allowed(u) \ {Srb} :
      ~(l = Dtch /\ timer[u]) => SidOf[lc[u][l]] = chosen[u]

\* A data bearer the choice can fall on: one of a configured slice, or any
\* bearer of a UE that has no configured slice.
Eligible(u, l) ==
  /\ l \in data[u] /\ ~failure[u] /\ ~timer[u]
  /\ \/ SidOf[lc[u][l]] # 0
     \/ \A k \in Drbs \cap Configured(u) : SidOf[lc[u][k]] = 0

\* Once bearers, timers and uplink failures settle, a data bearer that waits may
\* be served again and again although the UE is given one slice per slot: the
\* turn passes between its two slices (nr_slice_preprocess), provided the
\* downlink slots are not all of one parity.
NoStarvation ==
  (/\ Cardinality(Slices) <= 2 /\ \E s, t \in DlSlots : s % 2 # t % 2
   /\ <>[][UNCHANGED <<lc, timer, failure>>]_vars) =>
    \A u \in Busy, l \in Drbs :
      <>[]Eligible(u, l) => []<>(phase = "sched" /\ l \in Allowed(u))
=============================================================================
