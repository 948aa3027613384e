------------------------------- MODULE UlSched -------------------------------
(***************************************************************************)
(* One slot of the uplink MAC scheduler: nr_fr1_ulsch_preprocessor reduces *)
(* the resource map of the slot to its largest free block, pf_ul goes      *)
(* through the UEs once for retransmissions and minimum grants, and once   *)
(* more for new data.  The uplink has no slices.                           *)
(*                                                                         *)
(* As in SliceSched, data is counted in resource blocks and the symbols of *)
(* an RB are split in two groups, "h" (those of a shorter time-domain      *)
(* allocation with the same start symbol) and "t" (the rest).              *)
(***************************************************************************)
EXTENDS Integers, FiniteSets, FiniteSetsExt

CONSTANTS
  NumUE,        \* UEs in UE_info.list
  BW,           \* RBs of the bandwidth part
  MinRb,        \* min_grant_prb
  MaxSchedUes,  \* max_sched_ues: DCIs per slot
  Blocks,       \* sets of RBs that vrb_map_UL may have blocked (PUCCH, PRACH, Msg3)
  Demands,      \* demands of new transmissions, in RBs
  RetxSizes,    \* rbSize of transport blocks awaiting retransmission
  RetxTdas      \* subset of {"same", "short", "other"}

UE == 1..NumUE
RB == 0..(BW - 1)
Symbols == {"h", "t"}

ASSUME UlSchedAssumption ==
  /\ NumUE \in Nat \ {0} /\ BW \in Nat \ {0} /\ MinRb \in Nat \ {0}
  /\ MaxSchedUes \in Nat /\ Blocks \subseteq SUBSET RB
  /\ Demands \subseteq Nat \ {0} /\ RetxSizes \subseteq Nat \ {0}
  /\ RetxTdas \subseteq {"same", "short", "other"}

VARIABLES
  phase,       \* where the slot is
  ue,          \* what each UE needs in this slot
  blocked,     \* vrb_map_UL of the slot
  mask,        \* rballoc_mask
  n_rb_sched,  \* RBs still to give, as pf_ul counts them
  remainUEs,   \* DCIs still to give
  cur,         \* UE_iterator
  UE_sched,    \* the UEs with new data that wait for the second loop
  alloc        \* the allocations made: <<first RB, size, symbols>> per UE

slot == <<ue, blocked>>
grid == <<mask, n_rb_sched, remainUEs, alloc>>
vars == <<phase, slot, grid, cur, UE_sched>>

NoAlloc == <<0, 0, {}>>
Rbs(start, size) == start..(start + size - 1)

\* A UE may need nothing (nothing to send, no HARQ process, Msg4 pending or UL
\* failure), a retransmission, a minimum grant (a scheduling request or long
\* inactivity without known data), or a grant for d RBs of data.
UeNeed ==
  [kind : {"idle", "min"}]
    \cup [kind : {"retx"}, size : RetxSizes, tda : RetxTdas]
    \cup [kind : {"new"}, d : Demands]

Init ==
  /\ phase = "idle"
  /\ ue = [u \in UE |-> [kind |-> "idle"]] /\ blocked = {}
  /\ mask = [rb \in RB |-> {}] /\ n_rb_sched = 0 /\ remainUEs = 0
  /\ alloc = [u \in UE |-> NoAlloc] /\ cur = 1 /\ UE_sched = {}

-----------------------------------------------------------------------------
(* nr_fr1_ulsch_preprocessor *)

FreeRuns(b) == {r \in RB \X (1..BW) : Rbs(r[1], r[2]) \subseteq RB \ b}

\* Faulty variant: the RB after the block is taken for its last one.
LargestFreeOneMore(b) ==
  IF FreeRuns(b) = {} THEN {}
  ELSE LET len == Max({r[2] : r \in FreeRuns(b)})
           st == Min({r[1] : r \in {q \in FreeRuns(b) : q[2] = len}})
       IN  Rbs(st, len + 1) \cap RB

\* The first of the longest runs of RBs that are free in all symbols.
LargestFree(b) ==
  IF FreeRuns(b) = {} THEN {}
  ELSE LET len == Max({r[2] : r \in FreeRuns(b)})
           st == Min({r[1] : r \in {q \in FreeRuns(b) : q[2] = len}})
       IN  Rbs(st, len)

SlotStart ==
  /\ phase = "idle" /\ phase' = "ues"
  /\ ue' \in [UE -> UeNeed] /\ blocked' \in Blocks
  /\ mask' = [rb \in RB |-> IF rb \in LargestFree(blocked') THEN Symbols ELSE {}]
  /\ n_rb_sched' = Cardinality(LargestFree(blocked'))
  /\ remainUEs' = MaxSchedUes
  /\ UNCHANGED <<alloc, cur, UE_sched>>

-----------------------------------------------------------------------------
(* The first loop of pf_ul *)

Usable(bits, rb) == bits \subseteq mask[rb]

\* rbStart: the first RB usable in these symbols, or the end of the band.
RbStart(bits) == Min({rb \in RB : Usable(bits, rb)} \cup {BW})

\* The number of usable RBs from there on.
RunFrom(start) ==
  Max({n \in 0..BW : start + n <= BW /\ \A rb \in Rbs(start, n) : Usable(Symbols, rb)})

\* rballoc_mask[rb] ^= slbitmap: a bit that is not set is set by it.
Toggle(start, size, bits) ==
  mask' = [rb \in RB |-> IF rb \in Rbs(start, size)
                         THEN (mask[rb] \ bits) \cup (bits \ mask[rb]) ELSE mask[rb]]

\* An allocation for UE u, with n RBs off the count.
Allocate(u, start, size, bits, n) ==
  /\ alloc' = [alloc EXCEPT ![u] = <<start, size, bits>>]
  /\ Toggle(start, size, bits)
  /\ n_rb_sched' = n_rb_sched - n /\ remainUEs' = remainUEs - 1

AtUe(kind) == phase = "ues" /\ cur \in UE /\ ue[cur].kind = kind /\ remainUEs > 0
NextUe == cur' = cur + 1 /\ UNCHANGED <<phase, slot>>

\* allocate_ul_retransmission, old time-domain allocation: the size is only
\* compared with the end of the band.  n_rb_sched is a pointer that the code moves,
\* so the count stays.
RetxSame ==
  LET need == ue[cur]
      bits == IF need.tda = "short" THEN {"h"} ELSE Symbols
  IN  /\ need.tda \in {"same", "short"}
      /\ RbStart(bits) + need.size <= BW
      /\ Allocate(cur, RbStart(bits), need.size, bits, 0)

\* Another time-domain allocation: the same block size in the first free run.
RetxOther ==
  /\ ue[cur].tda = "other"
  /\ \E size \in 1..RunFrom(RbStart(Symbols)) :
       Allocate(cur, RbStart(Symbols), size, Symbols, 0)

Retx == AtUe("retx") /\ (RetxSame \/ RetxOther) /\ NextUe /\ UNCHANGED UE_sched

\* A scheduling request or inactivity, without data: again only the end of the
\* band is looked at.
MinGrant ==
  /\ AtUe("min") /\ RbStart(Symbols) + MinRb < BW
  /\ Allocate(cur, RbStart(Symbols), MinRb, Symbols, MinRb)
  /\ NextUe /\ UNCHANGED UE_sched

\* New data waits for the second loop.
Enqueue ==
  /\ AtUe("new") /\ UE_sched' = UE_sched \cup {cur}
  /\ NextUe /\ UNCHANGED grid

\* No need, no DCI or CCE left, or no room; new data asks for neither CCE nor room.
Skip ==
  /\ phase = "ues" /\ cur \in UE /\ (ue[cur].kind = "new" => remainUEs = 0)
  /\ NextUe /\ UNCHANGED <<grid, UE_sched>>

UesEnd ==
  /\ phase = "ues" /\ cur \notin UE
  /\ phase' = "new" /\ UNCHANGED <<slot, grid, cur, UE_sched>>

-----------------------------------------------------------------------------
(* The second loop, over the UEs sorted by coefficient: any order *)

\* nr_find_nb_rb for a demand of d RBs, as in SliceSched.
FindNbRb(d, mn, mx) ==
  IF d > mx THEN {mx} ELSE IF d <= mn THEN {mn, mx} ELSE d..mx

Going == phase = "new" /\ remainUEs > 0 /\ n_rb_sched >= MinRb

\* Faulty variant: the free run is not compared with the minimum.
HasRoomAnyRun(start) == start + MinRb < BW

HasRoom(start) == start + MinRb < BW /\ RunFrom(start) >= MinRb

\* nr_ue_max_mcs_min_rb: the power headroom may lower the maximum, down to MinRb.
MaxRbSizes(start) == MinRb..Max({MinRb, RunFrom(start)})

NewData(u) ==
  LET start == RbStart(Symbols)
  IN  /\ Going /\ u \in UE_sched /\ HasRoom(start)
      /\ \E mx \in MaxRbSizes(start) : \E size \in FindNbRb(ue[u].d, MinRb, mx) :
           Allocate(u, start, size, Symbols, size)
      /\ UE_sched' = UE_sched \ {u}
      /\ UNCHANGED <<phase, slot, cur>>

NewSkip(u) ==
  /\ Going /\ u \in UE_sched
  /\ UE_sched' = UE_sched \ {u} /\ UNCHANGED <<phase, slot, grid, cur>>

\* The grants are sent; the locals of the slot are forgotten.
SlotEnd ==
  /\ phase = "new" /\ (Going => UE_sched = {})
  /\ phase' = "idle"
  /\ ue' = [u \in UE |-> [kind |-> "idle"]] /\ blocked' = {}
  /\ mask' = [rb \in RB |-> {}] /\ n_rb_sched' = 0 /\ remainUEs' = 0
  /\ alloc' = [u \in UE |-> NoAlloc] /\ cur' = 1 /\ UE_sched' = {}

Next == \/ SlotStart \/ Retx \/ MinGrant \/ Enqueue \/ Skip \/ UesEnd \/ SlotEnd
        \/ \E u \in UE : NewData(u) \/ NewSkip(u)

Spec == Init /\ [][Next]_vars

-----------------------------------------------------------------------------
(* Properties *)

\* The types.  The counter of DCIs, taken down by two loops, stays in its range.
TypeOK ==
  /\ phase \in {"idle", "ues", "new"}
  /\ ue \in [UE -> UeNeed] /\ blocked \subseteq RB
  /\ mask \in [RB -> SUBSET Symbols]
  /\ n_rb_sched \in Int /\ remainUEs \in 0..MaxSchedUes
  /\ cur \in 1..(NumUE + 1) /\ UE_sched \subseteq UE
  /\ alloc \in [UE -> Nat \X Nat \X SUBSET Symbols]

\* No allocation reaches beyond the bandwidth part, over which rballoc_mask, a
\* variable-length array on the stack, is indexed.
InBand == \A u \in UE : alloc[u][1] + alloc[u][2] <= BW

\* The slot's free block ends with the band.
ReachesEnd == BW - 1 \in LargestFree(blocked)

\* The symbols of an RB that a UE has been given.
Given(u, rb) == IF rb \in Rbs(alloc[u][1], alloc[u][2]) THEN alloc[u][3] ELSE {}

NoConflict ==
  /\ \A u, v \in UE : u # v => \A rb \in RB : Given(u, rb) \cap Given(v, rb) = {}
  /\ \A u \in UE : \A rb \in blocked : Given(u, rb) = {}

\* When the free block ends with the band, no two UEs share a symbol of an RB, and
\* none is given what vrb_map_UL had blocked: retransmissions and minimum grants,
\* which are not compared with the free block, are then limited by the band.
DisjointGrants == ReachesEnd => NoConflict

\* Grants stay inside the band wherever the free block lies, and apart from each
\* other and from what was blocked where the block ends with the band: the two
\* limits allocate_ul_retransmission and pf_ul put on rbStart and rbSize.
GrantsInPlace == TypeOK /\ InBand /\ DisjointGrants

\* New data is only given RBs that rballoc_mask holds to be free, wherever the free
\* block lies and whatever the first loop did to the mask.
NewDataOnFree ==
  [][\A u \in UE : alloc'[u] # alloc[u] /\ ue[u].kind = "new" =>
       \A rb \in Rbs(alloc'[u][1], alloc'[u][2]) : rb \in RB /\ Usable(Symbols, rb)]_vars

\* "Check the resource is enough for retransmission": no two UEs are given the same
\* resource and none a blocked one, wherever the free block lies.
GrantsNeverOverlap == NoConflict
=============================================================================
