----------------------------- MODULE SliceSched -----------------------------
(***************************************************************************)
(* One downlink slot of the slice-aware MAC scheduler: dl_sched_unit first   *)
(* schedules the retransmissions, then turns the ratios of the slice policy  *)
(* into a PRB cap per slice and lets pf_dl_slice hand the cap to the UEs of  *)
(* the slice.  The policy is written by the E2 agent's thread without a      *)
(* lock, so each read of a ratio returns any ratio that thread may store;    *)
(* dl_sched_unit reads max_ratio twice, to compare and to assign.            *)
(*                                                                           *)
(* Data is counted in resource blocks: a demand of d means that d RBs are    *)
(* the fewest whose transport block holds the waiting bytes.  The symbols of *)
(* an RB are split in two groups, "h" (those of a shorter time-domain        *)
(* allocation with the same start symbol) and "t" (the rest), so that a      *)
(* rballoc_mask entry is the set of groups that are free.                    *)
(***************************************************************************)
EXTENDS Integers, FiniteSets

CONSTANTS
  NumUE,        \* UEs in UE_info.list
  NumSlice,     \* configured slices; slice 0 is the default slice
  BW,           \* RBs of the bandwidth part
  MinRbSize,    \* min_rbSize (5 in the code)
  MaxSchedUes,  \* max_sched_ues: DCIs per slot
  MinRatios,    \* ratios a read of spolicy.min_ratio may return
  MaxRatios,    \* ratios a read of spolicy.max_ratio may return
  Garbage,      \* values the uninitialised SL_sched[0].max_prbs may have
  Masks,        \* rballoc_masks the slot may start with
  Demands,      \* demands of new transmissions, in RBs
  RetxSizes,    \* rbSize of transport blocks awaiting retransmission
  RetxTdas,     \* subset of {"same", "short", "other"}
  CommonRanges  \* <<first, last>> RB of CORESET 0, or of the initial BWP without it

UE == 1..NumUE
Sid == 0..NumSlice
RB == 0..(BW - 1)
Symbols == {"h", "t"}        \* slbitmap of this slot's allocation

\* <<rbStart, rbStop>> of get_start_stop_allocation: the whole bandwidth part or,
\* for DCI format 1_0 in a common search space, CORESET 0.
Ranges == {<<0, BW - 1>>} \cup CommonRanges

ASSUME SchedAssumption ==
  /\ NumUE \in Nat \ {0} /\ NumSlice \in Nat \ {0} /\ BW \in Nat \ {0}
  /\ MinRbSize \in Nat \ {0} /\ MaxSchedUes \in Nat
  /\ MinRatios \subseteq 0..100 /\ MaxRatios \subseteq 0..100
  /\ Garbage \subseteq Int
  /\ Masks \subseteq [RB -> SUBSET Symbols]
  /\ Demands \subseteq Nat \ {0} /\ RetxSizes \subseteq Nat \ {0}
  /\ RetxTdas \subseteq {"same", "short", "other"}
  /\ CommonRanges \subseteq {r \in RB \X RB : r[1] <= r[2]}

VARIABLES
  phase,       \* where dl_sched_unit is
  ue,          \* what each UE needs in this slot
  order,       \* SL_sched sorted: order[k] is the sid at index k
  mask,        \* rballoc_mask
  n_rb_sched,  \* RBs still to give
  remainUEs,   \* DCIs still to give
  cur,         \* UE_iterator of the first stage
  init,        \* n_rb_sched_init
  min_prbs,    \* SL_sched[k].min_prbs: the share kept for k, then what k used
  i, j,        \* loop indices of the second stage
  max_prbs,    \* SL_sched[i].max_prbs
  raised,      \* history: a second read of max_ratio has raised a cap of this slot
  tot,         \* tot[k]: n_rb_sched_s_tot before the k-th slice is scheduled
  sched_s,     \* n_rb_sched_s of pf_dl_slice
  tried,       \* UEs pf_dl_slice has been through in this slice
  alloc        \* the allocations made: <<first RB, size, symbols>> per UE

slot == <<ue, order>>
grid == <<mask, n_rb_sched, remainUEs, alloc>>
loop == <<init, min_prbs, i, j, max_prbs, raised, tot, sched_s, tried>>
vars == <<phase, slot, grid, cur, loop>>

NoAlloc == <<0, 0, {}>>
Larger(a, b) == IF a > b THEN a ELSE b

\* n * ratio / 100 in C: the division truncates towards zero.
PercentOf(n, ratio) ==
  IF n >= 0 THEN (n * ratio) \div 100 ELSE -((-n * ratio) \div 100)

(***************************************************************************)
(* What a UE may need: nothing (no data, no HARQ process, Msg4 pending or    *)
(* uplink failure), a retransmission, or a new transmission in the slice     *)
(* nr_slice_preprocess chose, each within the RBs its search space allows.   *)
(* "waiting" says that the slice has bytes: a UE with SRB bytes only, or due *)
(* for a timing advance, is scheduled without.                               *)
(***************************************************************************)
Idle == [kind |-> "idle"]
NeedsRetx == [kind : {"retx"}, range : Ranges, size : RetxSizes, tda : RetxTdas]
NeedsNew ==
  {r \in [kind : {"new"}, range : Ranges, slice : Sid, d : Demands, waiting : BOOLEAN] :
     ~r.waiting => r.d <= MinRbSize}
UeNeed == {Idle} \cup NeedsRetx \cup NeedsNew

\* The slice in which slice_prb_estimate counts each UE, if any.  It counts every
\* UE with bytes, also one that awaits a retransmission or has no HARQ process.
None == -1
Counted(need) ==
  {c \in [UE -> Sid \cup {None}] :
     \A u \in UE : need[u].kind = "new" =>
       c[u] = IF need[u].waiting THEN need[u].slice ELSE None}

\* A slice with a counted UE is estimated at MinRbSize RBs or more (at an older
\* MCS), any other slice at 0; qsort puts the latter first.
HasEstimate(c, s) == \E u \in UE : c[u] = s
Sorted(c, o) ==
  /\ \A s \in Sid : \E k \in Sid : o[k] = s
  /\ \A k, l \in Sid : HasEstimate(c, o[k]) /\ ~HasEstimate(c, o[l]) => l < k

Free(m, rb) == m[rb] = Symbols
Count(m) == Cardinality({rb \in RB : Free(m, rb)})
Rbs(start, size) == start..(start + size - 1)

\* rballoc_mask[rb] ^= bitmap for the RBs of an allocation.
Toggle(m, start, size, bits) ==
  [rb \in RB |-> IF rb \in Rbs(start, size)
                 THEN (m[rb] \ bits) \cup (bits \ m[rb]) ELSE m[rb]]

Init ==
  /\ phase = "idle"
  /\ ue = [u \in UE |-> Idle] /\ order = [k \in Sid |-> k]
  /\ mask = [rb \in RB |-> Symbols] /\ n_rb_sched = 0 /\ remainUEs = 0
  /\ alloc = [u \in UE |-> NoAlloc] /\ cur = 1
  /\ init = 0 /\ min_prbs = [k \in Sid |-> 0] /\ i = 0 /\ j = 0
  /\ max_prbs = 0 /\ raised = FALSE /\ tot = [k \in 0..(NumSlice + 1) |-> 0]
  /\ sched_s = 0 /\ tried = {}

\* nr_fr1_dlsch_preprocessor up to the call of dl_sched_unit.
SlotStart ==
  /\ phase = "idle"
  /\ phase' = "retx"
  /\ ue' \in [UE -> UeNeed]
  /\ order' \in {o \in [Sid -> Sid] : \E c \in Counted(ue') : Sorted(c, o)}
  /\ mask' \in Masks
  /\ n_rb_sched' = Count(mask')
  /\ remainUEs' = MaxSchedUes
  /\ UNCHANGED <<alloc, cur, loop>>

-----------------------------------------------------------------------------
(* First stage: allocate_dl_retransmission for every UE in turn *)

Usable(bits, rb) == bits \subseteq mask[rb]
UsableIn(range, bits) == {rb \in range[1]..range[2] : Usable(bits, rb)}

\* Faulty variant: only the first and the last RB of the run are looked at.
FirstRunEnds(range, bits, size, start) ==
  /\ start \in range[1]..(range[2] - 1) /\ start + size - 1 <= range[2]
  /\ Usable(bits, start) /\ Usable(bits, start + size - 1)

\* The loops over rballoc_mask end at the first run of "size" usable RBs of the
\* range.  They give up at rbStop, so no run may start at the last RB.
FirstRun(range, bits, size, start) ==
  /\ start \in range[1]..(range[2] - 1)
  /\ Rbs(start, size) \subseteq UsableIn(range, bits)
  /\ \A p \in range[1]..(start - 1) : ~(Rbs(p, size) \subseteq UsableIn(range, bits))

\* rbStart: the first RB of the range that is free, or rbStop when none before
\* rbStop is, whether rbStop is free or not.
IsRbStart(range, start) ==
  /\ start \in range[1]..range[2]
  /\ start = range[2] \/ Free(mask, start)
  /\ \A p \in range[1]..(start - 1) : ~Free(mask, p)

\* What a retransmission may get: the old time-domain allocation is reused
\* ("same", or "short" when it has fewer symbols), or the block is refitted to
\* this slot's symbols in the first free run only ("other").
RetxFits(need, start, size, bits) ==
  \/ /\ need.tda \in {"same", "short"} /\ size = need.size
     /\ bits = IF need.tda = "short" THEN {"h"} ELSE Symbols
     /\ FirstRun(need.range, bits, size, start)
  \/ /\ need.tda = "other" /\ size >= 1 /\ bits = Symbols
     /\ IsRbStart(need.range, start)
     /\ Rbs(start, size) \subseteq UsableIn(need.range, Symbols)

\* Writing an allocation of UE u into the grid.
Allocate(u, start, size, bits) ==
  /\ alloc' = [alloc EXCEPT ![u] = <<start, size, bits>>]
  /\ mask' = Toggle(mask, start, size, bits)
  /\ n_rb_sched' = n_rb_sched - size
  /\ remainUEs' = remainUEs - 1

NextRetxUe ==
  /\ cur' = cur + 1
  /\ UNCHANGED <<phase, slot, loop>>

\* The retransmission of UE cur is scheduled.
Retx ==
  /\ phase = "retx" /\ cur \in UE
  /\ remainUEs > 0 /\ ue[cur].kind = "retx"
  /\ \E a \in {b \in RB \X (1..BW) \X SUBSET Symbols : RetxFits(ue[cur], b[1], b[2], b[3])} :
       Allocate(cur, a[1], a[2], a[3])
  /\ NextRetxUe

\* UE cur has no retransmission, or no RBs, CCE or PUCCH occasion were found.
RetxSkip ==
  /\ phase = "retx" /\ cur \in UE
  /\ UNCHANGED grid
  /\ NextRetxUe

-----------------------------------------------------------------------------
(* Second stage: the shares and caps of the slices *)

ShareStart ==
  /\ phase = "retx" /\ cur \notin UE
  /\ phase' = "share" /\ init' = n_rb_sched /\ i' = 1
  /\ UNCHANGED <<slot, grid, cur, min_prbs, j, max_prbs, raised, tot, sched_s, tried>>

\* The first loop starts at index 1: SL_sched[0] gets neither min_prbs nor
\* max_prbs, whichever slice the sort has put there.
Share ==
  /\ phase = "share"
  /\ \E ratio \in MinRatios :
       min_prbs' = [min_prbs EXCEPT ![i] = PercentOf(init, ratio)]
  /\ IF i < NumSlice
     THEN phase' = phase /\ i' = i + 1 /\ max_prbs' = max_prbs
     ELSE phase' = "cap" /\ i' = 0 /\ max_prbs' \in Garbage
  /\ UNCHANGED <<slot, grid, cur, init, j, raised, tot, sched_s, tried>>

\* Faulty variant: a slice's own share is taken off its cap too.
CapReserveOwn ==
  /\ phase = "cap" /\ j <= NumSlice
  /\ max_prbs' = max_prbs - min_prbs[j]
  /\ j' = j + 1
  /\ UNCHANGED <<phase, slot, grid, cur, init, min_prbs, i, raised, tot, sched_s, tried>>

\* max_prbs -= min_prbs[j] for every other slice j: what the slices before i
\* have used and what the slices after i are promised.
CapReserve ==
  /\ phase = "cap" /\ j <= NumSlice
  /\ max_prbs' = IF j = i THEN max_prbs ELSE max_prbs - min_prbs[j]
  /\ j' = j + 1
  /\ UNCHANGED <<phase, slot, grid, cur, init, min_prbs, i, raised, tot, sched_s, tried>>

\* The cap of max_ratio, read once for the comparison and again for the value;
\* pf_dl_slice starts.
CapMax ==
  /\ phase = "cap" /\ j = NumSlice + 1
  /\ \E first, second \in MaxRatios :
       max_prbs' = IF max_prbs > PercentOf(init, first)
                   THEN PercentOf(init, second) ELSE max_prbs
  /\ raised' = (raised \/ max_prbs' > max_prbs)
  /\ phase' = "alloc" /\ j' = 0 /\ sched_s' = 0 /\ tried' = {}
  /\ UNCHANGED <<slot, grid, cur, init, min_prbs, i, tot>>

-----------------------------------------------------------------------------
(* pf_dl_slice for the slice at index i *)

remain_s == max_prbs - sched_s      \* n_rb_remain_s

\* The condition of the while loop over the sorted UEs.
Going ==
  /\ remainUEs > 0 /\ n_rb_sched >= MinRbSize
  /\ remain_s >= MinRbSize /\ sched_s <= max_prbs

\* The proportional-fair coefficients may order the candidates in any way.
Candidates ==
  {u \in UE : ue[u].kind = "new" /\ ue[u].slice = order[i]} \ tried

\* max_rbSize: grown from 1 while the next RB is free, up to rbStop, and the cap
\* allows it.
IsMaxRbSize(range, start, size) ==
  /\ \A k \in 1..(size - 1) : start + k <= range[2] /\ Free(mask, start + k)
  /\ size <= Larger(1, remain_s)
  /\ \/ start + size > range[2]
     \/ ~Free(mask, start + size)
     \/ size >= remain_s

\* Faulty variant: the maximum is ignored.
FindNbRbNoMax(d, mn, mx) == {Larger(d, mn)}

\* nr_find_nb_rb for a demand of d: the maximum when it does not suffice, the
\* minimum when that suffices (larger than the maximum or not), else d; a
\* larger size can be returned when its transport block has exactly this size.
FindNbRb(d, mn, mx) ==
  IF d > mx THEN {mx} ELSE IF d <= mn THEN {mn, mx} ELSE d..mx

\* Beyond the end of rballoc_mask the exclusive-or writes to other memory: what
\* the gNB does after that is not defined, and the model stops.
AllocUe(u) ==
  /\ phase = "alloc" /\ Going /\ u \in Candidates
  /\ \E start \in {p \in RB : IsRbStart(ue[u].range, p)} :
     \E mx \in {n \in 1..BW : IsMaxRbSize(ue[u].range, start, n)} :
     \E size \in FindNbRb(ue[u].d, MinRbSize, mx) :
       /\ Allocate(u, start, size, Symbols)
       /\ sched_s' = sched_s + size
       /\ phase' = IF start + size <= BW THEN phase ELSE "overrun"
  /\ tried' = tried \cup {u}
  /\ UNCHANGED <<slot, cur, init, min_prbs, i, j, max_prbs, raised, tot>>

\* No CCE or no PUCCH occasion for this UE.
SkipUe(u) ==
  /\ phase = "alloc" /\ Going /\ u \in Candidates
  /\ tried' = tried \cup {u}
  /\ UNCHANGED <<phase, slot, grid, cur, init, min_prbs, i, j, max_prbs, raised, tot, sched_s>>

\* Faulty variant: a slot that is used up counts as a violation.
SliceEndStrict ==
  /\ phase = "alloc" /\ (Going => Candidates = {})
  /\ min_prbs' = [min_prbs EXCEPT ![i] = sched_s]
  /\ tot' = [tot EXCEPT ![i + 1] = tot[i] + sched_s]
  /\ phase' = IF tot'[i + 1] >= init THEN "fatal"
              ELSE IF i = NumSlice THEN "end" ELSE "cap"
  /\ i' = IF phase' = "cap" THEN i + 1 ELSE i
  /\ max_prbs' = IF phase' = "cap" THEN init ELSE max_prbs
  /\ UNCHANGED <<slot, grid, cur, init, j, raised, sched_s, tried>>

\* The loop has ended: min_prbs[i] becomes what slice i has used.
SliceEnd ==
  /\ phase = "alloc" /\ (Going => Candidates = {})
  /\ min_prbs' = [min_prbs EXCEPT ![i] = sched_s]
  /\ tot' = [tot EXCEPT ![i + 1] = tot[i] + sched_s]
  /\ phase' = IF tot'[i + 1] > init THEN "fatal"      \* "PRB Violation"
              ELSE IF i = NumSlice THEN "end" ELSE "cap"
  /\ i' = IF phase' = "cap" THEN i + 1 ELSE i
  /\ max_prbs' = IF phase' = "cap" THEN init ELSE max_prbs
  /\ UNCHANGED <<slot, grid, cur, init, j, raised, sched_s, tried>>

\* The locals of the slot are forgotten.
SlotEnd ==
  /\ phase = "end"
  /\ phase' = "idle"
  /\ ue' = [u \in UE |-> Idle] /\ order' = [k \in Sid |-> k]
  /\ mask' = [rb \in RB |-> Symbols] /\ n_rb_sched' = 0 /\ remainUEs' = 0
  /\ alloc' = [u \in UE |-> NoAlloc] /\ cur' = 1
  /\ init' = 0 /\ min_prbs' = [k \in Sid |-> 0] /\ i' = 0 /\ j' = 0
  /\ max_prbs' = 0 /\ raised' = FALSE /\ tot' = [k \in 0..(NumSlice + 1) |-> 0]
  /\ sched_s' = 0 /\ tried' = {}

Next ==
  \/ SlotStart \/ Retx \/ RetxSkip \/ ShareStart \/ Share
  \/ CapReserve \/ CapMax \/ SliceEnd \/ SlotEnd
  \/ \E u \in UE : AllocUe(u) \/ SkipUe(u)

Spec == Init /\ [][Next]_vars

-----------------------------------------------------------------------------
(* Properties *)

GridType ==
  /\ ue \in [UE -> UeNeed] /\ order \in [Sid -> Sid]
  /\ mask \in [RB -> SUBSET Symbols]
  /\ n_rb_sched \in Int /\ remainUEs \in 0..MaxSchedUes
  /\ alloc \in [UE -> Nat \X Nat \X SUBSET Symbols]
LoopType ==
  /\ phase \in {"idle", "retx", "share", "cap", "alloc", "end", "fatal", "overrun"}
  /\ cur \in 1..(NumUE + 1)
  /\ init \in Int /\ min_prbs \in [Sid -> Int] /\ max_prbs \in Int
  /\ i \in Sid /\ j \in 0..(NumSlice + 1) /\ raised \in BOOLEAN
  /\ tot \in [0..(NumSlice + 1) -> Int]
  /\ sched_s \in Nat /\ tried \in SUBSET UE

\* The ranges of the scheduler's variables.  The counter of DCIs never goes
\* below zero, although two loops with different guards count it down, and the
\* loops over slices stay in the array.
TypeOK == GridType /\ LoopType

\* The slices together never use more than the RBs the second stage started
\* with, so the AssertFatal("PRB Violation") can only fire when the first stage
\* has already overdrawn the slot, or when max_ratio was changed between its two
\* reads and the second raised a cap above what was left.  This holds for every
\* value the uninitialised cap may have, for every other interleaving of ratio
\* updates, and even when allocations overlap.
BudgetKept == phase = "fatal" => init < 0 \/ raised

\* The assertion of dl_sched_unit as it stands: the slices use at most the RBs
\* the second stage started with, if there were any.
PrbViolationNever == phase = "fatal" => init < 0

\* No allocation reaches beyond the bandwidth part (rballoc_mask and vrb_map are
\* indexed with it), although nr_find_nb_rb may return more RBs than are free.
\* The one exception is new data for a UE confined to a CORESET 0 that leaves out
\* the first RBs and ends less than min_rbSize below the top: n_rb_sched counts
\* free RBs below the range as if they could be given.
InBand ==
  \A u \in UE : alloc[u][1] + alloc[u][2] > BW =>
    /\ ue[u].kind = "new" /\ ue[u].range[1] > 0
    /\ ue[u].range[2] + MinRbSize > BW

\* The RBs that n counts for the slices at the indices of S, told apart.
Prbs(n, S) == UNION {{l} \X (1..n[l]) : l \in S}
SumFrom(k) == Cardinality(Prbs(min_prbs, k..NumSlice))

\* What is used before slice k and what is promised to k and to the slices after
\* it fit into the slot.
Intact(k) == tot[k] + SumFrom(k) <= init

\* While the promises fit, the reservation for the other slices leaves a slice at
\* index 1 or later at least its own minimum.
OwnShareLeft ==
  phase = "cap" /\ j = NumSlice + 1 /\ i >= 1 /\ Intact(i) => max_prbs >= min_prbs[i]

\* The promises of the slot are kept, slice after slice.  The caps computed by
\* dl_sched_unit leave a slice its own minimum, and pf_dl_slice, scheduling slice i
\* at index 1 or later, never touches what is promised to the slices after it: if
\* the promises fit before, they fit afterwards, unless the second read of
\* max_ratio has raised a cap.
SharesKept ==
  [][/\ OwnShareLeft'
     /\ phase = "alloc" /\ phase' = "cap" /\ i >= 1 /\ ~raised /\ Intact(i)
          => Intact(i)']_vars

\* min_ratio is the scheduler's lower bound: when the promises of the policy fit
\* into the slot, the first slice that has one is left at least that much.
MinimumHonoured ==
  phase = "cap" /\ j = NumSlice + 1 /\ i = 1 /\ SumFrom(1) <= init
    => max_prbs >= min_prbs[1]

\* The first free RBs of the UE's range are a run of MinRbSize RBs or more.
HasRoom(u) ==
  \E p \in ue[u].range[1]..ue[u].range[2] :
    /\ Rbs(p, MinRbSize) \subseteq UsableIn(ue[u].range, Symbols)
    /\ \A q \in ue[u].range[1]..(p - 1) : ~Free(mask, q)

\* A UE is given only symbols that are free at that moment, so that no two UEs
\* and no UE and a block of vrb_map share a resource.  A retransmission always is;
\* new data is safe only while the first free run of its range is not too short:
\* pf_dl_slice asks nr_find_nb_rb for at least min_rbSize RBs all the same.
OnlyFreeRbs ==
  [][\A u \in UE : alloc'[u] # alloc[u] /\ (ue[u].kind = "retx" \/ HasRoom(u)) =>
       \A rb \in Rbs(alloc'[u][1], alloc'[u][2]) :
         rb \in RB /\ alloc'[u][3] \subseteq mask[rb]]_vars

=============================================================================
