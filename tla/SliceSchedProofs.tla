-------------------------- MODULE SliceSchedProofs --------------------------
(***************************************************************************)
(* The PRB budget of a slot is kept for every number of UEs, slices and RBs, *)
(* every policy of percentages and every value of the uninitialised cap.     *)
(***************************************************************************)
EXTENDS SliceSched, FiniteSetTheorems, TLAPS

\* The prefix sums of the second stage: tot[k + 1] is tot[k] plus what the k-th
\* slice has used, and no sum exceeds the RBs the stage started with.
Prefix ==
  /\ tot[0] = 0
  /\ \A k \in 0..(i - 1) : tot[k + 1] = tot[k] + min_prbs[k]
  /\ tot[i] <= init

\* While the cap of slice i >= 1 is computed it is the whole slot less what the
\* first j slices used; past i it can only shrink.
CapInv ==
  phase = "cap" /\ i >= 1 =>
    /\ j <= i => max_prbs = init - tot[j]
    /\ j > i => max_prbs <= init - tot[i]

\* While slice i is scheduled its cap fits into what is left, unless the second
\* read of max_ratio raised it, and the slice is within its cap.
AllocInv ==
  phase = "alloc" =>
    /\ ~raised => max_prbs <= init - tot[i]
    /\ sched_s <= Larger(0, max_prbs)

\* The strengthening of BudgetKept that is inductive.  An overdrawn slot
\* (init < 0) is left out: there the assertion ends the gNB at the first slice.
BudgetInv ==
  /\ tot[0] = 0
  /\ phase \in {"idle", "retx"} => \A k \in Sid : min_prbs[k] = 0
  /\ phase = "alloc" => j = 0
  /\ init >= 0 /\ phase \in {"share", "cap", "alloc"} =>
       \A k \in Sid : min_prbs[k] >= 0
  /\ init >= 0 /\ phase \in {"cap", "alloc"} => Prefix /\ CapInv /\ AllocInv
  /\ BudgetKept

-----------------------------------------------------------------------------
(* Lemmas on the operators *)

\* A percentage of a number of RBs is between 0 and that number.
LEMMA PercentBound ==
  ASSUME NEW n \in Int, NEW r \in 0..100
  PROVE  /\ PercentOf(n, r) \in Int
         /\ n >= 0 => 0 <= PercentOf(n, r) /\ PercentOf(n, r) <= n
<1>1. CASE n >= 0
  <2>1. 0 <= n * r /\ n * r <= n * 100
    BY <1>1
  <2>. DEFINE p == n * r
  <2>2. p \in Nat /\ p <= n * 100
    BY <2>1
  <2>. HIDE DEF p
  <2>3. p \div 100 \in Int /\ 0 <= p \div 100 /\ p \div 100 <= n
    BY <2>2, <1>1
  <2>. QED BY <1>1, <2>3, Zenon DEF PercentOf, p
<1>2. CASE n < 0
  <2>. DEFINE p == -n * r
  <2>1. p \in Int
    OBVIOUS
  <2>. HIDE DEF p
  <2>2. p \div 100 \in Int
    BY <2>1
  <2>. QED BY <1>2, <2>2 DEF PercentOf, p
<1>. QED BY <1>1, <1>2

\* A UE with a new transmission has a demand of at least one RB.
LEMMA DemandType ==
  ASSUME NEW need \in UeNeed, need.kind = "new"
  PROVE  need.d \in Nat \ {0}
<1>1. need # Idle
  BY DEF Idle
<1>2. need \notin NeedsRetx
  BY Zenon DEF NeedsRetx
<1>3. need \in NeedsNew
  BY <1>1, <1>2, Zenon DEF UeNeed
<1>. QED BY <1>3, SchedAssumption, Zenon DEF NeedsNew

\* nr_find_nb_rb returns a positive size that exceeds neither a limit on the
\* maximum nor, when it falls back to the minimum, that minimum.
LEMMA FindNbRbBound ==
  ASSUME NEW d \in Nat \ {0}, NEW mn \in Nat \ {0}, NEW mx \in Nat \ {0},
         NEW size \in FindNbRb(d, mn, mx)
  PROVE  size \in Nat \ {0} /\ size <= Larger(mn, mx)
BY DEF FindNbRb, Larger

\* The exclusive-or with a bitmap yields a mask again.
LEMMA ToggleType ==
  ASSUME NEW m \in [RB -> SUBSET Symbols], NEW start, NEW size,
         NEW bits \in SUBSET Symbols
  PROVE  Toggle(m, start, size, bits) \in [RB -> SUBSET Symbols]
BY Zenon DEF Toggle

\* The RBs a UE with something to send may get lie in the band.
LEMMA RangeType ==
  ASSUME NEW need \in UeNeed, need.kind # "idle"
  PROVE  need.range \in RB \X RB /\ need.range[1] <= need.range[2]
<1>1. need # Idle
  BY DEF Idle
<1>2. need.range \in Ranges
  BY <1>1, Zenon DEF UeNeed, NeedsRetx, NeedsNew
<1>3. CASE need.range = <<0, BW - 1>>
  BY <1>3, SchedAssumption DEF RB
<1>4. CASE need.range \in CommonRanges
  BY <1>4, SchedAssumption, Zenon
<1>. QED BY <1>2, <1>3, <1>4, Zenon DEF Ranges

-----------------------------------------------------------------------------
(* Type correctness *)

\* The number of free RBs is a natural number.
LEMMA CountType ==
  ASSUME NEW m PROVE Count(m) \in Nat
<1>1. IsFiniteSet(RB)
  BY SchedAssumption, FS_Interval DEF RB
<1>2. IsFiniteSet({rb \in RB : Free(m, rb)})
  BY <1>1, FS_Subset, Zenon
<1>. QED BY <1>2, FS_CardinalityType, Zenon DEF Count

\* A step that leaves the grid alone leaves its types alone.
LEMMA GridStutter ==
  ASSUME GridType, UNCHANGED <<slot, grid>>
  PROVE  GridType'
BY Zenon DEF GridType, slot, grid

\* Writing an allocation into the grid keeps the types of the grid.
LEMMA AllocateType ==
  ASSUME GridType, UNCHANGED slot, NEW u \in UE, NEW start \in Nat, NEW size \in Nat,
         NEW bits \in SUBSET Symbols, Allocate(u, start, size, bits), remainUEs > 0
  PROVE  GridType'
<1>1. mask' \in [RB -> SUBSET Symbols]
  BY ToggleType, Zenon DEF Allocate, GridType
<1>2. n_rb_sched' \in Int /\ remainUEs' \in 0..MaxSchedUes
  BY SchedAssumption DEF Allocate, GridType
<1>3. alloc' \in [UE -> Nat \X Nat \X SUBSET Symbols]
  BY Zenon DEF Allocate, GridType
<1>. QED BY <1>1, <1>2, <1>3, Zenon DEF GridType, slot

\* The variables of the scheduler keep their types.
THEOREM TypeCorrect == Spec => []TypeOK
<1>. USE SchedAssumption DEF TypeOK
<1>1. Init => TypeOK
  <2>1. Init => GridType
    BY DEF Init, GridType, UeNeed, NoAlloc
  <2>2. Init => LoopType
    <3>. SUFFICES ASSUME Init PROVE LoopType
      OBVIOUS
    <3>1. 0 \in Int /\ 0 \in Sid /\ 0 \in 0..(NumSlice + 1) /\ 1 \in 1..(NumUE + 1) /\ 0 \in Nat
      BY DEF Sid
    <3>. QED BY <3>1, Zenon DEF Init, LoopType
  <2>. QED BY <2>1, <2>2, Zenon
<1>2. TypeOK /\ [Next]_vars => TypeOK'
  <2>. SUFFICES ASSUME GridType, LoopType, [Next]_vars
                PROVE  GridType' /\ LoopType'
    OBVIOUS
  <2>1. CASE SlotStart
    <3>1. GridType'
      <4>1. mask' \in [RB -> SUBSET Symbols]
        BY <2>1, Zenon DEF SlotStart
      <4>2. n_rb_sched' \in Int /\ remainUEs' \in 0..MaxSchedUes
        BY <2>1, CountType DEF SlotStart
      <4>3. ue' \in [UE -> UeNeed] /\ order' \in [Sid -> Sid]
        BY <2>1, Zenon DEF SlotStart
      <4>. QED BY <4>1, <4>2, <4>3, <2>1, Zenon DEF SlotStart, GridType
    <3>2. LoopType'
      BY <2>1, Zenon DEF SlotStart, LoopType, loop
    <3>. QED BY <3>1, <3>2, Zenon
  <2>2. CASE Retx
    <3>1. PICK a \in RB \X (1..BW) \X SUBSET Symbols :
            Allocate(cur, a[1], a[2], a[3])
      BY <2>2, Zenon DEF Retx
    <3>2. GridType'
      BY <2>2, <3>1, AllocateType DEF Retx, NextRetxUe, slot, RB
    <3>3. LoopType'
      BY <2>2 DEF Retx, NextRetxUe, LoopType, loop, UE
    <3>. QED BY <3>2, <3>3, Zenon
  <2>3. CASE RetxSkip
    BY <2>3, GridStutter DEF RetxSkip, NextRetxUe, LoopType, loop, UE
  <2>4. CASE ShareStart
    <3>1. GridType'
      BY <2>4, GridStutter, Zenon DEF ShareStart
    <3>2. i' \in Sid /\ init' \in Int
      <4>1. i' = 1 /\ init' = n_rb_sched
        BY <2>4, Zenon DEF ShareStart
      <4>. QED BY <4>1 DEF Sid, GridType
    <3>3. phase' = "share"
      BY <2>4, Zenon DEF ShareStart
    <3>. QED BY <2>4, <3>1, <3>2, <3>3, Zenon DEF ShareStart, LoopType
  <2>5. CASE Share
    <3>1. PICK ratio \in MinRatios :
            min_prbs' = [min_prbs EXCEPT ![i] = PercentOf(init, ratio)]
      BY <2>5, Zenon DEF Share
    <3>2. PercentOf(init, ratio) \in Int
      BY PercentBound, Zenon DEF LoopType
    <3>3. min_prbs' \in [Sid -> Int]
      BY <3>1, <3>2, Zenon DEF LoopType
    <3>4. i' \in Sid
      <4>1. i \in 0..NumSlice
        BY Zenon DEF LoopType, Sid
      <4>2. (i < NumSlice /\ i' = i + 1) \/ i' = 0
        BY <2>5, Zenon DEF Share
      <4>. QED BY <4>1, <4>2 DEF Sid
    <3>5. max_prbs' \in Int
      BY <2>5, Zenon DEF Share, LoopType
    <3>6. phase' \in {"share", "cap"}
      BY <2>5, Zenon DEF Share
    <3>. QED BY <2>5, <3>3, <3>4, <3>5, <3>6, GridStutter, Zenon DEF Share, LoopType
  <2>6. CASE CapReserve
    BY <2>6, GridStutter DEF CapReserve, LoopType, Sid
  <2>7. CASE CapMax
    <3>1. PICK second \in MaxRatios : max_prbs' \in {PercentOf(init, second), max_prbs}
      BY <2>7, Zenon DEF CapMax
    <3>2. PercentOf(init, second) \in Int
      BY PercentBound, Zenon DEF LoopType
    <3>3. max_prbs' \in Int
      BY <3>1, <3>2, Zenon DEF LoopType
    <3>4. raised' \in BOOLEAN
      BY <2>7, Zenon DEF CapMax
    <3>. QED BY <2>7, <3>3, <3>4, GridStutter DEF CapMax, LoopType
  <2>8. ASSUME NEW u \in UE, AllocUe(u) PROVE GridType' /\ LoopType'
    <3>. PICK start \in RB, mx \in 1..BW :
           \E size \in FindNbRb(ue[u].d, MinRbSize, mx) :
             Allocate(u, start, size, Symbols) /\ sched_s' = sched_s + size
      BY <2>8, Zenon DEF AllocUe
    <3>1. PICK size \in FindNbRb(ue[u].d, MinRbSize, mx) :
            Allocate(u, start, size, Symbols) /\ sched_s' = sched_s + size
      OBVIOUS
    <3>2. size \in Nat
      <4>1. ue[u] \in UeNeed /\ ue[u].kind = "new"
        BY <2>8, Zenon DEF AllocUe, Candidates, GridType
      <4>2. ue[u].d \in Nat \ {0}
        BY <4>1, DemandType, Zenon
      <4>3. mx \in Nat \ {0} /\ MinRbSize \in Nat \ {0}
        OBVIOUS
      <4>. QED BY <4>2, <4>3, FindNbRbBound, Zenon
    <3>3. GridType'
      BY <2>8, <3>1, <3>2, AllocateType DEF AllocUe, Going, slot, RB
    <3>4. LoopType'
      <4>1. phase' \in {"alloc", "overrun"} /\ sched_s' \in Nat
        BY <2>8, <3>1, <3>2 DEF AllocUe, LoopType
      <4>. QED BY <2>8, <4>1, Zenon DEF AllocUe, LoopType
    <3>. QED BY <3>3, <3>4, Zenon
  <2>9. ASSUME NEW u \in UE, SkipUe(u) PROVE GridType' /\ LoopType'
    BY <2>9, GridStutter, Zenon DEF SkipUe, LoopType
  <2>10. CASE SliceEnd
    <3>1. GridType'
      BY <2>10, GridStutter, Zenon DEF SliceEnd
    <3>2. i' \in Sid
      <4>1. i \in 0..NumSlice /\ (i' = i \/ (i # NumSlice /\ i' = i + 1))
        BY <2>10, Zenon DEF SliceEnd, LoopType, Sid
      <4>. QED BY <4>1 DEF Sid
    <3>3. max_prbs' \in Int /\ phase' \in {"fatal", "end", "cap"}
      BY <2>10, Zenon DEF SliceEnd, LoopType
    <3>4. min_prbs' \in [Sid -> Int]
      BY <2>10 DEF SliceEnd, LoopType
    <3>5. tot' \in [0..(NumSlice + 1) -> Int]
      <4>1. tot[i] + sched_s \in Int
        BY DEF LoopType, Sid
      <4>2. tot' = [tot EXCEPT ![i + 1] = tot[i] + sched_s]
        BY <2>10, Zenon DEF SliceEnd
      <4>. QED BY <4>1, <4>2, Zenon DEF LoopType
    <3>. QED BY <2>10, <3>1, <3>2, <3>3, <3>4, <3>5, Zenon DEF SliceEnd, LoopType
  <2>11. CASE SlotEnd
    <3>1. GridType'
      BY <2>11 DEF SlotEnd, GridType, UeNeed, NoAlloc
    <3>2. LoopType'
      <4>1. 0 \in Int /\ 0 \in Sid /\ 0 \in 0..(NumSlice + 1) /\ 1 \in 1..(NumUE + 1) /\ 0 \in Nat
        BY DEF Sid
      <4>. QED BY <2>11, <4>1, Zenon DEF SlotEnd, LoopType
    <3>. QED BY <3>1, <3>2
  <2>12. CASE UNCHANGED vars
    BY <2>12, GridStutter, Zenon DEF vars, loop, LoopType
  <2>. QED BY <2>1, <2>2, <2>3, <2>4, <2>5, <2>6, <2>7, <2>8, <2>9, <2>10,
              <2>11, <2>12 DEF Next
<1>. QED BY <1>1, <1>2, PTL DEF Spec

-----------------------------------------------------------------------------
(* The PRB budget *)

\* The caps are computed within what is left of the slot.
LEMMA CapStep ==
  ASSUME TypeOK, BudgetInv, CapReserve \/ CapMax
  PROVE  BudgetInv'
<1>. SUFFICES ASSUME init >= 0
              PROVE  Prefix' /\ CapInv' /\ AllocInv'
  BY Zenon DEF BudgetInv, BudgetKept, CapReserve, CapMax
<1>0. /\ init \in Int /\ max_prbs \in Int /\ i \in 0..NumSlice
      /\ j \in 0..(NumSlice + 1) /\ min_prbs \in [0..NumSlice -> Int]
      /\ tot \in [0..(NumSlice + 1) -> Int] /\ NumSlice \in Nat
  BY SchedAssumption, Zenon DEF TypeOK, LoopType, Sid
<1>1. Prefix /\ CapInv /\ (\A k \in 0..NumSlice : min_prbs[k] >= 0)
  BY Zenon DEF BudgetInv, CapReserve, CapMax, Sid
<1>2. Prefix'
  BY <1>1, Zenon DEF Prefix, CapReserve, CapMax
<1>3. CASE CapReserve
  <2>0. /\ phase = "cap" /\ j <= NumSlice /\ phase' = "cap" /\ j' = j + 1
        /\ max_prbs' = IF j = i THEN max_prbs ELSE max_prbs - min_prbs[j]
        /\ i' = i /\ init' = init /\ tot' = tot
    BY <1>3, Zenon DEF CapReserve
  <2>1. AllocInv'
    BY <2>0, Zenon DEF AllocInv
  <2>2. ASSUME i >= 1, j < i PROVE CapInv'
    <3>1. max_prbs = init - tot[j] /\ tot[j + 1] = tot[j] + min_prbs[j]
      BY <1>0, <1>1, <2>0, <2>2 DEF CapInv, Prefix
    <3>2. max_prbs' = max_prbs - min_prbs[j] /\ j + 1 <= i
      BY <1>0, <2>0, <2>2
    <3>3. min_prbs[j] \in Int /\ tot[j] \in Int /\ init \in Int
      BY <1>0, <2>0
    <3>4. max_prbs' = init - tot[j + 1]
      BY <3>1, <3>2, <3>3
    <3>. QED BY <1>0, <2>0, <3>2, <3>4 DEF CapInv
  <2>3. ASSUME i >= 1, j = i PROVE CapInv'
    BY <1>0, <1>1, <2>0, <2>3 DEF CapInv
  <2>4. ASSUME i >= 1, j > i PROVE CapInv'
    <3>1. max_prbs <= init - tot[i] /\ min_prbs[j] >= 0
      BY <1>0, <1>1, <2>0, <2>4 DEF CapInv
    <3>2. max_prbs' = max_prbs - min_prbs[j] /\ j + 1 > i
      BY <1>0, <2>0, <2>4
    <3>3. min_prbs[j] \in Int /\ tot[i] \in Int /\ init \in Int /\ max_prbs \in Int
      BY <1>0, <2>0
    <3>4. max_prbs' <= init - tot[i]
      BY <3>1, <3>2, <3>3
    <3>. QED BY <1>0, <2>0, <3>2, <3>4 DEF CapInv
  <2>5. CapInv'
    BY <1>0, <2>0, <2>2, <2>3, <2>4 DEF CapInv
  <2>. QED BY <1>2, <2>1, <2>5, Zenon
<1>4. CASE CapMax
  <2>1. PICK first \in MaxRatios, second \in MaxRatios :
          max_prbs' = IF max_prbs > PercentOf(init, first)
                      THEN PercentOf(init, second) ELSE max_prbs
    BY <1>4, Zenon DEF CapMax
  <2>2. /\ PercentOf(init, first) \in Int /\ PercentOf(init, first) <= init
        /\ PercentOf(init, second) \in Int /\ PercentOf(init, second) <= init
    BY <1>0, SchedAssumption, PercentBound, Zenon
  <2>3. ~raised' => max_prbs' <= init - tot[i]
    <3>1. i >= 1 => max_prbs <= init - tot[i]
      BY <1>0, <1>1, <1>4 DEF CapInv, CapMax
    <3>2. i = 0 => tot[i] = 0
      BY <1>1, Zenon DEF Prefix
    <3>3. ~raised' => ~(max_prbs' > max_prbs)
      BY <1>4, Zenon DEF CapMax
    <3>. QED BY <1>0, <2>1, <2>2, <3>1, <3>2, <3>3
  <2>4. /\ phase' = "alloc" /\ sched_s' = 0 /\ i' = i /\ init' = init /\ tot' = tot
    BY <1>4, Zenon DEF CapMax
  <2>5. 0 <= Larger(0, max_prbs')
    BY <1>0, <2>1, <2>2 DEF Larger
  <2>. QED BY <1>2, <2>3, <2>4, <2>5, Zenon DEF CapInv, AllocInv, Larger
<1>. QED BY <1>3, <1>4, Zenon

\* An allocation stays within the cap of its slice.
LEMMA AllocStep ==
  ASSUME TypeOK, BudgetInv, NEW u \in UE, AllocUe(u)
  PROVE  BudgetInv'
<1>. USE SchedAssumption DEF TypeOK, LoopType
<1>. PICK start \in RB, mx \in 1..BW :
       /\ IsMaxRbSize(ue[u].range, start, mx)
       /\ \E size \in FindNbRb(ue[u].d, MinRbSize, mx) : sched_s' = sched_s + size
  BY Zenon DEF AllocUe
<1>1. PICK size \in FindNbRb(ue[u].d, MinRbSize, mx) : sched_s' = sched_s + size
  OBVIOUS
<1>2. size \in Nat /\ size <= Larger(MinRbSize, mx)
  <2>1. ue[u] \in UeNeed /\ ue[u].kind = "new"
    BY Zenon DEF AllocUe, Candidates, GridType
  <2>2. ue[u].d \in Nat \ {0}
    BY <2>1, DemandType, Zenon
  <2>3. mx \in Nat \ {0} /\ MinRbSize \in Nat \ {0}
    OBVIOUS
  <2>4. size \in Nat \ {0} /\ size <= Larger(MinRbSize, mx)
    BY <2>2, <2>3, FindNbRbBound, Zenon
  <2>. QED BY <2>4, Zenon
<1>3. size <= remain_s
  BY <1>2 DEF IsMaxRbSize, AllocUe, Going, Larger, remain_s
<1>4. sched_s' <= Larger(0, max_prbs)
  BY <1>1, <1>2, <1>3 DEF remain_s, Larger
<1>. QED BY <1>4, Zenon DEF AllocUe, BudgetInv, Prefix, CapInv, AllocInv, BudgetKept, Larger

\* What a slice has used is added to the total, which stays within the slot.
LEMMA SliceEndStep ==
  ASSUME TypeOK, BudgetInv, SliceEnd
  PROVE  BudgetInv'
<1>t. /\ init \in Int /\ max_prbs \in Int /\ i \in 0..NumSlice /\ sched_s \in Nat
      /\ min_prbs \in [0..NumSlice -> Int] /\ tot \in [0..(NumSlice + 1) -> Int]
      /\ NumSlice \in Nat
  BY SchedAssumption, Zenon DEF TypeOK, LoopType, Sid
<1>s. /\ min_prbs' = [min_prbs EXCEPT ![i] = sched_s]
      /\ tot' = [tot EXCEPT ![i + 1] = tot[i] + sched_s]
      /\ init' = init /\ j' = j /\ phase = "alloc"
  BY Zenon DEF SliceEnd
<1>0. tot'[0] = 0
  BY <1>t, <1>s DEF BudgetInv
<1>1. CASE init < 0
  BY <1>t, <1>0, <1>1 DEF BudgetInv, SliceEnd, BudgetKept
<1>2. CASE init >= 0
  <2>1. /\ tot[i] <= init /\ (~raised => max_prbs <= init - tot[i])
        /\ sched_s <= Larger(0, max_prbs)
        /\ \A k \in 0..(i - 1) : tot[k + 1] = tot[k] + min_prbs[k]
        /\ \A k \in 0..NumSlice : min_prbs[k] >= 0
    BY <1>2, <1>s, Zenon DEF BudgetInv, Prefix, AllocInv, Sid
  <2>2. tot'[i + 1] = tot[i] + sched_s
    BY <1>t, <1>s
  <2>3. phase' \in {"end", "cap"} \/ (phase' = "fatal" /\ raised')
    <3>1. ~raised => tot[i] + sched_s <= init
      BY <1>t, <2>1, SMTT(20) DEF Larger
    <3>2. ~raised => ~(tot'[i + 1] > init)
      BY <1>t, <2>2, <3>1
    <3>. QED BY <3>2, Zenon DEF SliceEnd
  <2>4. \A k \in 0..NumSlice : min_prbs'[k] >= 0
    BY <1>t, <1>s, <2>1
  <2>5. ASSUME phase' = "cap" PROVE Prefix' /\ CapInv' /\ AllocInv'
    <3>1. i' = i + 1 /\ max_prbs' = init /\ j' = 0 /\ init' = init
      BY <2>5, Zenon DEF SliceEnd, BudgetInv
    <3>0. tot'[i + 1] <= init
      <4>1. ~(tot'[i + 1] > init)
        BY <2>5, Zenon DEF SliceEnd
      <4>. QED BY <1>t, <2>2, <4>1
    <3>2. ASSUME NEW k \in 0..i PROVE tot'[k + 1] = tot'[k] + min_prbs'[k]
      <4>1. CASE k = i
        <5>1. tot'[i] = tot[i] /\ min_prbs'[i] = sched_s
          BY <1>t, <1>s
        <5>. QED BY <4>1, <5>1, <2>2, Zenon
      <4>2. CASE k < i
        <5>1. tot'[k] = tot[k] /\ tot'[k + 1] = tot[k + 1]
          BY <1>t, <1>s, <4>2
        <5>2. min_prbs'[k] = min_prbs[k]
          BY <1>t, <1>s, <4>2
        <5>3. tot[k + 1] = tot[k] + min_prbs[k]
          BY <1>t, <4>2, <2>1
        <5>. QED BY <5>1, <5>2, <5>3, Zenon
      <4>. QED BY <1>t, <4>1, <4>2
    <3>3. Prefix'
      <4>1. i' - 1 = i
        BY <1>t, <3>1
      <4>. QED BY <1>0, <3>0, <3>1, <3>2, <4>1, Zenon DEF Prefix
    <3>. QED BY <1>t, <1>0, <2>5, <3>1, <3>3 DEF CapInv, AllocInv
  <2>. QED BY <1>0, <1>s, <2>3, <2>4, <2>5, Zenon DEF BudgetInv, BudgetKept, Sid
<1>. QED BY <1>t, <1>1, <1>2

\* Every step of the scheduler preserves the inductive invariant.
LEMMA BudgetInductive ==
  ASSUME TypeOK, TypeOK', BudgetInv, [Next]_vars
  PROVE  BudgetInv'
<1>. USE SchedAssumption DEF TypeOK, LoopType
<1>1. CASE SlotStart \/ Retx \/ RetxSkip
  <2>1. /\ phase \in {"idle", "retx"} /\ phase' = "retx" /\ tot' = tot /\ min_prbs' = min_prbs
    BY <1>1, Zenon DEF SlotStart, Retx, RetxSkip, NextRetxUe, loop
  <2>. QED BY <2>1, Zenon DEF BudgetInv, BudgetKept
<1>2. CASE ShareStart
  <2>1. phase = "retx" /\ phase' = "share" /\ tot' = tot /\ min_prbs' = min_prbs
    BY <1>2, Zenon DEF ShareStart
  <2>2. \A k \in Sid : min_prbs[k] >= 0
    <3>1. \A k \in Sid : min_prbs[k] = 0
      BY <2>1, Zenon DEF BudgetInv
    <3>. QED BY <3>1
  <2>. QED BY <2>1, <2>2, Zenon DEF BudgetInv, BudgetKept
<1>3. CASE Share
  <2>1. PICK ratio \in MinRatios :
          min_prbs' = [min_prbs EXCEPT ![i] = PercentOf(init, ratio)]
    BY <1>3, Zenon DEF Share
  <2>2. init >= 0 => PercentOf(init, ratio) >= 0
    BY PercentBound, Zenon
  <2>3. init >= 0 => \A k \in Sid : min_prbs'[k] >= 0
    BY <1>3, <2>1, <2>2, Zenon DEF BudgetInv, Share
  <2>4. phase' \in {"share", "cap"} /\ init' = init /\ tot' = tot
        /\ (phase' = "cap" => i' = 0)
    BY <1>3, Zenon DEF Share
  <2>5. tot[0] = 0 /\ init \in Int
    BY Zenon DEF BudgetInv
  <2>6. phase' = "cap" /\ init >= 0 => Prefix' /\ CapInv' /\ AllocInv'
    <3>. SUFFICES ASSUME phase' = "cap", init >= 0 PROVE Prefix' /\ CapInv' /\ AllocInv'
      OBVIOUS
    <3>1. ~(0 >= 1) /\ 0..(0 - 1) = {} /\ 0 <= init
      BY <2>5
    <3>. QED BY <2>4, <2>5, <3>1, Zenon DEF Prefix, CapInv, AllocInv
  <2>. QED BY <2>3, <2>4, <2>5, <2>6, Zenon DEF BudgetInv, BudgetKept
<1>4. CASE \E u \in UE : SkipUe(u)
  <2>1. /\ phase' = phase /\ phase = "alloc" /\ tot' = tot /\ min_prbs' = min_prbs /\ j' = j
        /\ i' = i /\ init' = init /\ max_prbs' = max_prbs /\ raised' = raised
        /\ sched_s' = sched_s
    BY <1>4, Zenon DEF SkipUe
  <2>. QED BY <2>1, Zenon DEF BudgetInv, BudgetKept, Prefix, CapInv, AllocInv
<1>5. CASE SlotEnd
  BY <1>5, Zenon DEF SlotEnd, BudgetInv, BudgetKept
<1>6. CASE UNCHANGED vars
  BY <1>6, Zenon DEF vars, slot, grid, loop, BudgetInv, BudgetKept, Prefix, CapInv, AllocInv
<1>. QED BY <1>1, <1>2, <1>3, <1>4, <1>5, <1>6, CapStep, AllocStep, SliceEndStep, Zenon
         DEF Next

\* The inductive invariant holds in every state.
LEMMA BudgetInvariant == Spec => []BudgetInv
<1>1. Init => BudgetInv
  BY SchedAssumption DEF Init, BudgetInv, BudgetKept, Sid
<1>2. TypeOK /\ TypeOK' /\ BudgetInv /\ [Next]_vars => BudgetInv'
  BY BudgetInductive, Zenon
<1>. QED BY <1>1, <1>2, TypeCorrect, PTL DEF Spec

\* The slices never use more RBs than the second stage of dl_sched_unit starts
\* with: "PRB Violation" can only follow a first stage that overdrew the slot, or a
\* policy update between the two reads of max_ratio that raised a cap.
THEOREM Budget == Spec => []BudgetKept
<1>1. BudgetInv => BudgetKept
  BY Zenon DEF BudgetInv
<1>. QED BY <1>1, BudgetInvariant, PTL

-----------------------------------------------------------------------------
(* The promises of the slot *)

\* The strengthening of SharesKept that is inductive.  While the cap of slice i is
\* computed and j has passed i, the cap is exactly what the slices before i have left
\* less what is promised to the slices between i and j; while slice i is scheduled,
\* its cap, if no second read raised it, leaves alone what is promised to all slices
\* after it.  In a slot that the first stage has overdrawn only the slice at index 0 is reached.
ShareInv ==
  /\ init < 0 /\ phase \in {"cap", "alloc"} => i = 0
  /\ i >= 1 /\ phase = "cap" /\ j > i =>
       /\ IsFiniteSet(Prbs(min_prbs, (i + 1)..(j - 1)))
       /\ max_prbs = init - tot[i] - Cardinality(Prbs(min_prbs, (i + 1)..(j - 1)))
  /\ i >= 1 /\ phase = "alloc" =>
       /\ IsFiniteSet(Prbs(min_prbs, (i + 1)..NumSlice))
       /\ ~raised => max_prbs <= init - tot[i] - SumFrom(i + 1)

\* The RBs of one slice.
LEMMA SlicePrbs ==
  ASSUME NEW k, NEW m \in Nat
  PROVE  IsFiniteSet({k} \X (1..m)) /\ Cardinality({k} \X (1..m)) = m
<1>1. IsFiniteSet(1..m) /\ Cardinality(1..m) = m
  BY FS_Interval
<1>2. IsFiniteSet({k}) /\ Cardinality({k}) = 1
  BY FS_Singleton, Zenon
<1>. QED BY <1>1, <1>2, FS_Product, SMTT(20)

\* A further slice adds its RBs.
LEMMA PrbsAdd ==
  ASSUME NEW n, NEW S, NEW k, k \notin S, n[k] \in Nat, IsFiniteSet(Prbs(n, S))
  PROVE  /\ IsFiniteSet(Prbs(n, S \cup {k}))
         /\ Cardinality(Prbs(n, S \cup {k})) = Cardinality(Prbs(n, S)) + n[k]
<1>. DEFINE A == Prbs(n, S)
            B == {k} \X (1..n[k])
<1>1. Prbs(n, S \cup {k}) = A \cup B
  BY Zenon DEF Prbs
<1>2. A \cap B = {}
  <2>. SUFFICES ASSUME NEW x \in A, x \in B PROVE FALSE
    OBVIOUS
  <2>1. PICK l \in S : x \in {l} \X (1..n[l])
    BY Zenon DEF Prbs
  <2>2. x[1] = l /\ x[1] = k
    BY <2>1, Zenon
  <2>. QED BY <2>2, Zenon
<1>3. IsFiniteSet(B) /\ Cardinality(B) = n[k]
  BY SlicePrbs, Zenon
<1>. HIDE DEF A, B
<1>4. IsFiniteSet(A) /\ Cardinality(A) \in Nat
  BY FS_CardinalityType, Zenon DEF A
<1>5. /\ IsFiniteSet(A \cup B)
      /\ Cardinality(A \cup B) = Cardinality(A) + Cardinality(B) - Cardinality({})
  BY <1>2, <1>3, <1>4, FS_Union
<1>6. Cardinality({}) = 0
  BY FS_EmptySet, Zenon
<1>7. Cardinality(A \cup B) = Cardinality(A) + n[k]
  BY <1>3, <1>4, <1>5, <1>6
<1>. QED BY <1>1, <1>5, <1>7, Zenon DEF A

\* The types of the second stage, and its shares, which are not negative once the
\* slice at index 0 is behind.
LEMMA ShareTypes ==
  ASSUME TypeOK, BudgetInv, ShareInv, i >= 1, phase \in {"cap", "alloc"}
  PROVE  /\ init \in Int /\ max_prbs \in Int /\ i \in 1..NumSlice /\ sched_s \in Nat
         /\ j \in 0..(NumSlice + 1) /\ NumSlice \in Nat /\ tot[i] \in Int
         /\ \A k \in 0..NumSlice : min_prbs[k] \in Nat
<1>1. /\ init \in Int /\ max_prbs \in Int /\ i \in 0..NumSlice /\ sched_s \in Nat
      /\ j \in 0..(NumSlice + 1) /\ NumSlice \in Nat
      /\ min_prbs \in [0..NumSlice -> Int] /\ tot \in [0..(NumSlice + 1) -> Int]
  BY SchedAssumption, Zenon DEF TypeOK, LoopType, Sid
<1>2. init >= 0
  BY <1>1 DEF ShareInv
<1>3. \A k \in 0..NumSlice : min_prbs[k] >= 0
  BY <1>2, Zenon DEF BudgetInv, Sid
<1>. QED BY <1>1, <1>3

\* Reserving what is promised to slice j takes it off the cap of slice i.
LEMMA ShareReserve ==
  ASSUME TypeOK, BudgetInv, ShareInv, CapReserve
  PROVE  ShareInv'
<1>0. /\ phase = "cap" /\ j <= NumSlice /\ phase' = "cap" /\ j' = j + 1
      /\ max_prbs' = IF j = i THEN max_prbs ELSE max_prbs - min_prbs[j]
      /\ i' = i /\ init' = init /\ tot' = tot /\ min_prbs' = min_prbs
  BY Zenon DEF CapReserve
<1>. SUFFICES ASSUME i >= 1, j + 1 > i
              PROVE  /\ IsFiniteSet(Prbs(min_prbs, (i + 1)..j))
                     /\ max_prbs' = init - tot[i] - Cardinality(Prbs(min_prbs, (i + 1)..j))
  <2>1. (j + 1) - 1 = j
    BY <1>0 DEF TypeOK, LoopType
  <2>. QED BY <1>0, <2>1, Zenon DEF ShareInv
<1>1. /\ init \in Int /\ max_prbs \in Int /\ i \in 1..NumSlice
      /\ j \in 0..(NumSlice + 1) /\ NumSlice \in Nat /\ tot[i] \in Int
      /\ \A k \in 0..NumSlice : min_prbs[k] \in Nat
  BY <1>0, ShareTypes, Zenon
<1>2. CASE j = i
  <2>1. (i + 1)..j = {}
    BY <1>1, <1>2
  <2>2. Prbs(min_prbs, (i + 1)..j) = {}
    BY <2>1, Zenon DEF Prbs
  <2>3. IsFiniteSet({}) /\ Cardinality({}) = 0
    BY FS_EmptySet, Zenon
  <2>4. max_prbs = init - tot[i]
    <3>1. init >= 0
      BY <1>0, <1>1 DEF ShareInv
    <3>2. CapInv
      BY <1>0, <3>1, Zenon DEF BudgetInv
    <3>3. max_prbs = init - tot[j]
      BY <1>0, <1>1, <1>2, <3>2 DEF CapInv
    <3>. QED BY <1>2, <3>3, Zenon
  <2>5. max_prbs' = init - tot[i] - 0
    BY <1>0, <1>1, <1>2, <2>4
  <2>. QED BY <2>2, <2>3, <2>5, Zenon
<1>3. CASE j > i
  <2>. DEFINE S == (i + 1)..(j - 1)
  <2>1. /\ IsFiniteSet(Prbs(min_prbs, S))
        /\ max_prbs = init - tot[i] - Cardinality(Prbs(min_prbs, S))
    BY <1>0, <1>3, Zenon DEF ShareInv
  <2>2. S \cup {j} = (i + 1)..j /\ j \notin S /\ min_prbs[j] \in Nat
    BY <1>0, <1>1, <1>3
  <2>. HIDE DEF S
  <2>3. /\ IsFiniteSet(Prbs(min_prbs, S \cup {j}))
        /\ Cardinality(Prbs(min_prbs, S \cup {j})) = Cardinality(Prbs(min_prbs, S)) + min_prbs[j]
    BY <2>1, <2>2, PrbsAdd, Zenon
  <2>4. Cardinality(Prbs(min_prbs, S)) \in Nat
    BY <2>1, FS_CardinalityType, Zenon
  <2>5. max_prbs' = max_prbs - min_prbs[j]
    BY <1>0, <1>1, <1>3
  <2>6. max_prbs' = init - tot[i] - Cardinality(Prbs(min_prbs, S \cup {j}))
    BY <1>1, <2>1, <2>2, <2>3, <2>4, <2>5
  <2>. QED BY <2>2, <2>3, <2>6, Zenon
<1>. QED BY <1>1, <1>2, <1>3

\* The cap of max_ratio can only lower what is left, or raised tells.
LEMMA ShareCap ==
  ASSUME TypeOK, max_prbs' \in Int, BudgetInv, ShareInv, CapMax
  PROVE  ShareInv'
<1>0. /\ phase = "cap" /\ j = NumSlice + 1 /\ phase' = "alloc"
      /\ i' = i /\ init' = init /\ tot' = tot /\ min_prbs' = min_prbs
  BY Zenon DEF CapMax
<1>. SUFFICES ASSUME i >= 1
              PROVE  /\ IsFiniteSet(Prbs(min_prbs, (i + 1)..NumSlice))
                     /\ ~raised' => max_prbs' <= init - tot[i] - SumFrom(i + 1)
  BY <1>0, Zenon DEF ShareInv, SumFrom
<1>2. /\ init \in Int /\ max_prbs \in Int /\ i \in 1..NumSlice
      /\ NumSlice \in Nat /\ tot[i] \in Int
  BY <1>0, ShareTypes, Zenon
<1>3. j - 1 = NumSlice /\ j > i
  BY <1>0, <1>2
<1>4. /\ IsFiniteSet(Prbs(min_prbs, (i + 1)..NumSlice))
      /\ max_prbs = init - tot[i] - SumFrom(i + 1)
  BY <1>0, <1>3, Zenon DEF ShareInv, SumFrom
<1>5. max_prbs' \in Int
  OBVIOUS
<1>6. ~raised' => ~(max_prbs' > max_prbs)
  BY Zenon DEF CapMax
<1>7. ~raised' => max_prbs' <= max_prbs
  BY <1>2, <1>5, <1>6
<1>. QED BY <1>4, <1>7, Zenon

\* Every step preserves the invariant.
LEMMA ShareStep ==
  ASSUME TypeOK, TypeOK', BudgetInv, ShareInv, [Next]_vars
  PROVE  ShareInv'
<1>1. CASE SlotStart \/ Retx \/ RetxSkip \/ ShareStart \/ SlotEnd
  <2>1. phase' \notin {"cap", "alloc"}
    BY <1>1, Zenon DEF SlotStart, Retx, RetxSkip, NextRetxUe, ShareStart, SlotEnd
  <2>. QED BY <2>1, Zenon DEF ShareInv
<1>2. CASE Share
  <2>1. phase' # "alloc" /\ (phase' = "cap" => i' = 0)
    BY <1>2, Zenon DEF Share
  <2>. QED BY <2>1 DEF ShareInv
<1>3. CASE \E u \in UE : AllocUe(u) \/ SkipUe(u)
  <2>1. /\ phase' \in {"alloc", "overrun"} /\ phase = "alloc" /\ i' = i /\ init' = init
        /\ tot' = tot /\ min_prbs' = min_prbs /\ max_prbs' = max_prbs /\ raised' = raised
    BY <1>3, Zenon DEF AllocUe, SkipUe
  <2>. QED BY <2>1, Zenon DEF ShareInv, SumFrom
<1>4. CASE SliceEnd
  <2>1. phase' # "alloc" /\ init' = init /\ j' = 0 /\ i \in Nat
    BY <1>4 DEF SliceEnd, BudgetInv, TypeOK, LoopType, Sid
  <2>2. i' \in Nat
    BY <1>4, <2>1 DEF SliceEnd
  <2>3. init < 0 => phase' # "cap"
    <3>. SUFFICES ASSUME init < 0 PROVE phase' # "cap"
      OBVIOUS
    <3>1. i = 0 /\ tot[0] = 0
      BY <1>4, Zenon DEF ShareInv, BudgetInv, SliceEnd
    <3>2. tot'[1] = sched_s /\ sched_s \in Nat /\ init \in Int
      <4>1. /\ tot \in [0..(NumSlice + 1) -> Int] /\ sched_s \in Nat /\ NumSlice \in Nat
            /\ init \in Int
        BY SchedAssumption, Zenon DEF TypeOK, LoopType
      <4>2. tot' = [tot EXCEPT ![1] = 0 + sched_s]
        BY <1>4, <3>1 DEF SliceEnd
      <4>. QED BY <4>1, <4>2
    <3>3. tot'[i + 1] > init
      BY <3>1, <3>2
    <3>. QED BY <1>4, <3>3, Zenon DEF SliceEnd
  <2>. QED BY <2>1, <2>2, <2>3 DEF ShareInv
<1>5. CASE UNCHANGED vars
  BY <1>5, Zenon DEF vars, loop, ShareInv, SumFrom
<1>6. max_prbs' \in Int
  BY Zenon DEF TypeOK, LoopType
<1>. QED BY <1>1, <1>2, <1>3, <1>4, <1>5, <1>6, ShareReserve, ShareCap, Zenon DEF Next

\* The promises of slice i and of those after it: its own share comes on top.
LEMMA SumSplit ==
  ASSUME NEW n, NEW k \in 0..NumSlice, n[k] \in Nat,
         IsFiniteSet(Prbs(n, (k + 1)..NumSlice))
  PROVE  /\ Cardinality(Prbs(n, (k + 1)..NumSlice)) \in Nat
         /\ Cardinality(Prbs(n, k..NumSlice)) = Cardinality(Prbs(n, (k + 1)..NumSlice)) + n[k]
<1>. DEFINE S == (k + 1)..NumSlice
<1>1. S \cup {k} = k..NumSlice /\ k \notin S
  BY SchedAssumption
<1>2. IsFiniteSet(Prbs(n, S))
  OBVIOUS
<1>. HIDE DEF S
<1>3. Cardinality(Prbs(n, S \cup {k})) = Cardinality(Prbs(n, S)) + n[k]
  BY <1>1, <1>2, PrbsAdd, Zenon
<1>4. Cardinality(Prbs(n, S)) \in Nat
  BY <1>2, FS_CardinalityType, Zenon
<1>. QED BY <1>1, <1>3, <1>4, Zenon DEF S

\* The invariant makes the cap of a slice at least its own share.
LEMMA OwnShare ==
  ASSUME TypeOK, BudgetInv, ShareInv
  PROVE  OwnShareLeft
<1>. SUFFICES ASSUME phase = "cap", j = NumSlice + 1, i >= 1, tot[i] + SumFrom(i) <= init
              PROVE  max_prbs >= min_prbs[i]
  BY Zenon DEF OwnShareLeft, Intact
<1>1. /\ init \in Int /\ max_prbs \in Int /\ i \in 1..NumSlice /\ NumSlice \in Nat
      /\ tot[i] \in Int /\ min_prbs[i] \in Nat
  BY ShareTypes
<1>2. j - 1 = NumSlice /\ j > i /\ i \in 0..NumSlice
  BY <1>1
<1>3. /\ IsFiniteSet(Prbs(min_prbs, (i + 1)..NumSlice))
      /\ max_prbs = init - tot[i] - SumFrom(i + 1)
  BY <1>2, Zenon DEF ShareInv, SumFrom
<1>4. SumFrom(i + 1) \in Nat /\ SumFrom(i) = SumFrom(i + 1) + min_prbs[i]
  BY <1>1, <1>2, <1>3, SumSplit, Zenon DEF SumFrom
<1>. QED BY <1>1, <1>3, <1>4

\* A slice that is done has left alone what is promised to those after it.
LEMMA LeftIntact ==
  ASSUME TypeOK, BudgetInv, ShareInv, SliceEnd, phase' = "cap", i >= 1, ~raised, Intact(i)
  PROVE  Intact(i)'
<1>1. /\ init \in Int /\ max_prbs \in Int /\ i \in 1..NumSlice /\ NumSlice \in Nat
      /\ tot[i] \in Int /\ min_prbs[i] \in Nat /\ sched_s \in Nat /\ i \in 0..NumSlice
  BY ShareTypes DEF SliceEnd
<1>2. /\ IsFiniteSet(Prbs(min_prbs, (i + 1)..NumSlice))
      /\ max_prbs <= init - tot[i] - SumFrom(i + 1)
  BY Zenon DEF ShareInv, SliceEnd
<1>3. SumFrom(i + 1) \in Nat /\ SumFrom(i) = SumFrom(i + 1) + min_prbs[i]
  BY <1>1, <1>2, SumSplit, Zenon DEF SumFrom
<1>4. sched_s <= Larger(0, max_prbs)
  <2>1. init >= 0
    BY <1>1 DEF ShareInv, SliceEnd
  <2>. QED BY <2>1, Zenon DEF BudgetInv, AllocInv, SliceEnd
<1>5. tot[i] + sched_s + SumFrom(i + 1) <= init
  <2>. DEFINE s == SumFrom(i + 1)
              t == tot[i]
              m == min_prbs[i]
  <2>1. /\ s \in Nat /\ t \in Int /\ m \in Nat
        /\ t + (s + m) <= init /\ max_prbs <= init - t - s
    BY <1>1, <1>2, <1>3, Zenon DEF Intact
  <2>. HIDE DEF s, t, m
  <2>2. t + sched_s + s <= init
    BY <1>1, <1>4, <2>1 DEF Larger
  <2>. QED BY <2>2, Zenon DEF s, t
<1>6. tot'[i + 1] = tot[i] + sched_s
  <2>1. tot \in [0..(NumSlice + 1) -> Int] /\ i + 1 \in 0..(NumSlice + 1)
    BY <1>1 DEF TypeOK, LoopType
  <2>. QED BY <2>1, Zenon DEF SliceEnd
<1>7. Prbs(min_prbs', (i + 1)..NumSlice) = Prbs(min_prbs, (i + 1)..NumSlice)
  <2>1. min_prbs \in [0..NumSlice -> Int] /\ min_prbs' = [min_prbs EXCEPT ![i] = sched_s]
    BY Zenon DEF TypeOK, LoopType, Sid, SliceEnd
  <2>2. \A l \in (i + 1)..NumSlice : min_prbs'[l] = min_prbs[l]
    BY <1>1, <2>1
  <2>. QED BY <2>2, Zenon DEF Prbs
<1>8. i' = i + 1 /\ init' = init
  BY Zenon DEF SliceEnd
<1>. QED BY <1>5, <1>6, <1>7, <1>8, Zenon DEF Intact, SumFrom

\* The promises of the slot are kept for every number of slices and every order the
\* sort puts them in: a slice at index 1 or later is left its own minimum, and what
\* pf_dl_slice gives to it is not taken from the slices after it, as long as no
\* second read of max_ratio raised a cap.
THEOREM PromisesKept == Spec => SharesKept
<1>1. Init => ShareInv
  BY Zenon DEF Init, ShareInv
<1>2. TypeOK /\ TypeOK' /\ BudgetInv /\ ShareInv /\ [Next]_vars => ShareInv'
  BY ShareStep, Zenon
<1>3. TypeOK /\ BudgetInv /\ ShareInv => OwnShareLeft
  BY OwnShare, Zenon
<1>4. TypeOK /\ BudgetInv /\ ShareInv /\ Next =>
        (phase = "alloc" /\ phase' = "cap" /\ i >= 1 /\ ~raised /\ Intact(i) => Intact(i)')
  <2>. SUFFICES ASSUME TypeOK, BudgetInv, ShareInv, Next,
                       phase = "alloc", phase' = "cap", i >= 1, ~raised, Intact(i)
                PROVE  Intact(i)'
    OBVIOUS
  <2>1. SliceEnd
    BY Zenon DEF Next, SlotStart, Retx, RetxSkip, NextRetxUe, ShareStart, Share, CapReserve,
           CapMax, AllocUe, SkipUe, SlotEnd
  <2>. QED BY <2>1, LeftIntact, Zenon
<1>. QED BY <1>1, <1>2, <1>3, <1>4, TypeCorrect, BudgetInvariant, PTL DEF Spec, SharesKept

-----------------------------------------------------------------------------
(* Where the allocations lie *)

\* The strengthening of InBand that is inductive: the RBs still to give are free.
\* An allocation takes its size off the count, and at most as many RBs off the free
\* ones, even where the exclusive-or frees symbols.
BandInv ==
  /\ n_rb_sched <= Count(mask) /\ InBand
  /\ phase = "idle" => alloc = [u \in UE |-> NoAlloc]

\* A set of RBs is finite.
LEMMA RbsFinite ==
  ASSUME NEW S \in SUBSET RB
  PROVE  IsFiniteSet(S) /\ Cardinality(S) \in Nat
<1>1. IsFiniteSet(RB)
  BY SchedAssumption, FS_Interval DEF RB
<1>2. IsFiniteSet(S)
  BY <1>1, FS_Subset, Zenon
<1>. QED BY <1>2, FS_CardinalityType, Zenon

\* All free RBs lie between the first of them and the end of the band.
LEMMA CountFromStart ==
  ASSUME NEW start \in RB, \A p \in 0..(start - 1) : ~Free(mask, p)
  PROVE  Count(mask) <= BW - start
<1>. DEFINE F == {rb \in RB : Free(mask, rb)}
            T == start..(BW - 1)
<1>1. F \in SUBSET T
  BY SchedAssumption DEF RB
<1>2. IsFiniteSet(T) /\ Cardinality(T) = BW - start
  BY SchedAssumption, FS_Interval DEF RB
<1>3. Cardinality(F) <= Cardinality(T)
  BY <1>1, <1>2, FS_Subset, Zenon
<1>. QED BY <1>2, <1>3, Zenon DEF Count

\* The exclusive-or with an allocation takes at most its size off the free RBs.
LEMMA ToggleCount ==
  ASSUME NEW m \in [RB -> SUBSET Symbols], NEW start \in Nat, NEW size \in Nat,
         NEW bits \in SUBSET Symbols
  PROVE  Count(m) <= Count(Toggle(m, start, size, bits)) + size
<1>. DEFINE A == {rb \in RB : Free(m, rb)}
            B == {rb \in RB : Free(Toggle(m, start, size, bits), rb)}
            R == start..(start + size - 1)
<1>1. A \subseteq B \cup R
  BY Zenon DEF Toggle, Free, Rbs
<1>2. IsFiniteSet(B) /\ Cardinality(B) \in Nat /\ Cardinality(A) \in Nat
  BY RbsFinite, Zenon
<1>3. IsFiniteSet(R) /\ Cardinality(R) = size
  BY FS_Interval
<1>4. IsFiniteSet(B \cap R) /\ Cardinality(B \cap R) \in Nat
  BY <1>2, FS_Subset, FS_CardinalityType, Zenon
<1>5. /\ IsFiniteSet(B \cup R)
      /\ Cardinality(B \cup R) = Cardinality(B) + Cardinality(R) - Cardinality(B \cap R)
  BY <1>2, <1>3, FS_Union, Zenon
<1>6. Cardinality(A) <= Cardinality(B \cup R)
  BY <1>1, <1>5, FS_Subset, Zenon
<1>. HIDE DEF A, B, R
<1>7. Cardinality(A) <= Cardinality(B) + size
  BY <1>2, <1>3, <1>4, <1>5, <1>6
<1>. QED BY <1>7, Zenon DEF Count, A, B

\* An allocation that ends inside the band, or is excepted, keeps the invariant.
LEMMA AllocateInBand ==
  ASSUME GridType, BandInv, NEW u \in UE, NEW start \in Nat, NEW size \in Nat,
         NEW bits \in SUBSET Symbols, Allocate(u, start, size, bits),
         start + size > BW => /\ ue[u].kind = "new" /\ ue[u].range[1] > 0
                              /\ ue[u].range[2] + MinRbSize > BW,
         ue' = ue, phase' # "idle"
  PROVE  BandInv'
<1>1. n_rb_sched' <= Count(mask')
  <2>1. mask' = Toggle(mask, start, size, bits) /\ n_rb_sched' = n_rb_sched - size
    BY Zenon DEF Allocate
  <2>2. Count(mask) <= Count(mask') + size
    BY <2>1, ToggleCount, Zenon DEF GridType
  <2>3. Count(mask) \in Nat /\ Count(mask') \in Nat
    BY CountType, Zenon
  <2>. QED BY <2>1, <2>2, <2>3 DEF BandInv, GridType
<1>2. InBand'
  <2>. SUFFICES ASSUME NEW v \in UE, alloc'[v][1] + alloc'[v][2] > BW
                PROVE  /\ ue[v].kind = "new" /\ ue[v].range[1] > 0
                       /\ ue[v].range[2] + MinRbSize > BW
    BY Zenon DEF InBand
  <2>1. CASE v = u
    <3>1. alloc'[v] = <<start, size, bits>>
      BY <2>1, Zenon DEF Allocate, GridType
    <3>2. start + size > BW
      BY <3>1
    <3>. QED BY <2>1, <3>2, Zenon
  <2>2. CASE v # u
    <3>1. alloc'[v] = alloc[v]
      BY <2>2, Zenon DEF Allocate, GridType
    <3>. QED BY <3>1, Zenon DEF BandInv, InBand
  <2>. QED BY <2>1, <2>2, Zenon
<1>. QED BY <1>1, <1>2, Zenon DEF BandInv

\* Before the first allocation nothing reaches beyond the band.
LEMMA NothingGiven ==
  ASSUME alloc = [u \in UE |-> NoAlloc]
  PROVE  InBand
<1>. SUFFICES ASSUME NEW u \in UE PROVE ~(alloc[u][1] + alloc[u][2] > BW)
  BY Zenon DEF InBand
<1>. QED BY SchedAssumption DEF NoAlloc

\* The same after a step.
LEMMA NothingOutside ==
  ASSUME alloc' = [u \in UE |-> NoAlloc]
  PROVE  InBand'
<1>. SUFFICES ASSUME NEW u \in UE PROVE ~(alloc'[u][1] + alloc'[u][2] > BW)
  BY Zenon DEF InBand
<1>. QED BY SchedAssumption DEF NoAlloc

\* What allocate_dl_retransmission finds is usable and inside the band.
LEMMA RetxFree ==
  ASSUME GridType, NEW start \in RB, NEW size \in 1..BW, NEW bits \in SUBSET Symbols,
         cur \in UE, ue[cur].kind = "retx", RetxFits(ue[cur], start, size, bits)
  PROVE  /\ start + size <= BW
         /\ \A rb \in Rbs(start, size) : rb \in RB /\ bits \subseteq mask[rb]
<1>0. Rbs(start, size) \subseteq UsableIn(ue[cur].range, bits)
  BY Zenon DEF RetxFits, FirstRun
<1>r. ue[cur].range \in RB \X RB
  <2>1. ue[cur] \in UeNeed
    BY Zenon DEF GridType
  <2>. QED BY <2>1, RangeType, Zenon
<1>s. ue[cur].range[1]..ue[cur].range[2] \subseteq RB
  BY <1>r, SchedAssumption DEF RB
<1>1. \A rb \in Rbs(start, size) : rb \in RB /\ bits \subseteq mask[rb]
  BY <1>0, <1>s, Zenon DEF UsableIn, Usable
<1>2. start + size - 1 \in Rbs(start, size)
  BY SchedAssumption DEF Rbs, RB
<1>3. start + size - 1 \in RB
  BY <1>1, <1>2, Zenon
<1>. QED BY <1>1, <1>3, SchedAssumption DEF RB

\* What pf_dl_slice allocates: it starts at rbStart, and its size exceeds neither
\* the minimum nor the run that was counted.
LEMMA AllocUeGrant ==
  ASSUME TypeOK, NEW u \in UE, AllocUe(u)
  PROVE  \E start \in RB, mx \in 1..BW, size \in Nat :
           /\ IsRbStart(ue[u].range, start) /\ IsMaxRbSize(ue[u].range, start, mx)
           /\ size <= Larger(MinRbSize, mx) /\ Allocate(u, start, size, Symbols)
<1>. PICK start \in RB, mx \in 1..BW :
       /\ IsRbStart(ue[u].range, start) /\ IsMaxRbSize(ue[u].range, start, mx)
       /\ \E size \in FindNbRb(ue[u].d, MinRbSize, mx) :
            Allocate(u, start, size, Symbols)
  BY Zenon DEF AllocUe
<1>1. PICK size \in FindNbRb(ue[u].d, MinRbSize, mx) : Allocate(u, start, size, Symbols)
  OBVIOUS
<1>2. ue[u] \in UeNeed /\ ue[u].kind = "new"
  BY Zenon DEF AllocUe, Candidates, TypeOK, GridType
<1>3. ue[u].d \in Nat \ {0}
  BY <1>2, DemandType, Zenon
<1>4. mx \in Nat \ {0} /\ MinRbSize \in Nat \ {0}
  BY SchedAssumption
<1>5. size \in Nat /\ size <= Larger(MinRbSize, mx)
  BY <1>3, <1>4, FindNbRbBound, Zenon
<1>. QED BY <1>1, <1>5, Zenon

\* The run that is counted ends inside the range.
LEMMA MaxRbSizeInRange ==
  ASSUME NEW range \in RB \X RB, NEW start \in RB, NEW mx \in 1..BW,
         IsRbStart(range, start), IsMaxRbSize(range, start, mx)
  PROVE  start <= range[2] /\ start + mx <= range[2] + 1
<1>0. start <= range[2] /\ start \in Int /\ range[2] \in Int
  BY SchedAssumption DEF IsRbStart, RB
<1>1. CASE mx = 1
  BY <1>0, <1>1
<1>2. CASE mx > 1
  <2>1. mx - 1 \in 1..(mx - 1)
    BY <1>2, SchedAssumption
  <2>2. start + (mx - 1) <= range[2]
    BY <2>1, Zenon DEF IsMaxRbSize
  <2>. QED BY <1>0, <2>2, SchedAssumption
<1>. QED BY <1>1, <1>2, SchedAssumption

\* New data, too, keeps the invariant: where the minimum is more than the first free
\* run and the range begins with the band, the free RBs still to give lie between
\* rbStart and the end of the band.
LEMMA AllocUeInBand ==
  ASSUME TypeOK, BandInv, NEW u \in UE, AllocUe(u)
  PROVE  BandInv'
<1>1. PICK start \in RB, mx \in 1..BW, size \in Nat :
        /\ IsRbStart(ue[u].range, start) /\ IsMaxRbSize(ue[u].range, start, mx)
        /\ size <= Larger(MinRbSize, mx) /\ Allocate(u, start, size, Symbols)
  BY AllocUeGrant, Zenon
<1>2. ue[u] \in UeNeed /\ ue[u].kind = "new"
  BY Zenon DEF AllocUe, Candidates, TypeOK, GridType
<1>. DEFINE r == ue[u].range
<1>3. r \in RB \X RB
  BY <1>2, RangeType, Zenon
<1>4. start <= r[2] /\ start + mx <= r[2] + 1
  BY <1>1, <1>3, MaxRbSizeInRange, Zenon
<1>5. r[1] = 0 => start + MinRbSize <= BW
  <2>. SUFFICES ASSUME r[1] = 0 PROVE start + MinRbSize <= BW
    OBVIOUS
  <2>1. MinRbSize <= n_rb_sched /\ n_rb_sched <= Count(mask)
    BY Zenon DEF AllocUe, Going, BandInv
  <2>2. \A p \in 0..(start - 1) : ~Free(mask, p)
    BY <1>1, Zenon DEF IsRbStart
  <2>3. Count(mask) <= BW - start
    BY <2>2, CountFromStart, Zenon
  <2>4. Count(mask) \in Nat /\ n_rb_sched \in Int /\ start \in Nat
    BY CountType DEF TypeOK, GridType, RB
  <2>. QED BY <2>1, <2>3, <2>4, SchedAssumption
<1>. HIDE DEF r
<1>6. start + size > BW => r[1] > 0 /\ r[2] + MinRbSize > BW
  BY <1>1, <1>3, <1>4, <1>5, SchedAssumption DEF Larger, RB
<1>7. start \in Nat /\ phase' # "idle" /\ ue' = ue
  BY SchedAssumption DEF RB, AllocUe, slot
<1>. QED BY <1>1, <1>2, <1>6, <1>7, AllocateInBand, Zenon DEF TypeOK, r

\* No allocation of the slice-aware scheduler reaches beyond the bandwidth part,
\* whatever minimum nr_find_nb_rb is asked for and however the free RBs lie, but for
\* new data in a CORESET 0 that begins above the first RB and ends near the top.
THEOREM StaysInBand == Spec => []InBand
<1>1. Init => BandInv
  <2>1. Init => n_rb_sched <= Count(mask)
    BY CountType DEF Init
  <2>. QED BY <2>1, NothingGiven, Zenon DEF Init, BandInv
<1>2. TypeOK /\ BandInv /\ [Next]_vars => BandInv'
  <2>. SUFFICES ASSUME TypeOK, BandInv, [Next]_vars PROVE BandInv'
    OBVIOUS
  <2>1. CASE SlotStart
    <3>1. n_rb_sched' <= Count(mask')
      BY <2>1, CountType DEF SlotStart
    <3>2. alloc' = [u \in UE |-> NoAlloc] /\ phase' # "idle"
      BY <2>1, Zenon DEF SlotStart, BandInv
    <3>. QED BY <3>1, <3>2, NothingOutside, Zenon DEF BandInv
  <2>2. CASE Retx
    <3>1. PICK a \in RB \X (1..BW) \X SUBSET Symbols :
            RetxFits(ue[cur], a[1], a[2], a[3]) /\ Allocate(cur, a[1], a[2], a[3])
      BY <2>2, Zenon DEF Retx
    <3>2. a[1] + a[2] <= BW
      BY <2>2, <3>1, RetxFree, Zenon DEF TypeOK, Retx
    <3>3. a[1] \in Nat /\ a[2] \in Nat /\ cur \in UE
      <4>1. a \in RB \X (1..BW) \X SUBSET Symbols /\ cur \in UE
        BY <2>2, <3>1, Zenon DEF Retx
      <4>2. a[1] \in RB /\ a[2] \in 1..BW
        BY <4>1
      <4>. QED BY <4>1, <4>2, SchedAssumption DEF RB
    <3>4. ue' = ue /\ phase' # "idle"
      BY <2>2, Zenon DEF Retx, NextRetxUe, slot
    <3>5. ~(a[1] + a[2] > BW)
      BY <3>2, <3>3, SchedAssumption
    <3>. QED BY <3>1, <3>3, <3>4, <3>5, AllocateInBand, Zenon DEF TypeOK
  <2>3. CASE UNCHANGED <<slot, grid>> /\ (phase' = "idle" => phase = "idle")
    BY <2>3, Zenon DEF slot, grid, BandInv, InBand, Count, Free
  <2>4. CASE SlotEnd
    <3>1. n_rb_sched' <= Count(mask')
      BY <2>4, CountType DEF SlotEnd
    <3>2. alloc' = [u \in UE |-> NoAlloc]
      BY <2>4, Zenon DEF SlotEnd
    <3>. QED BY <3>1, <3>2, NothingOutside, Zenon DEF BandInv
  <2>5. ASSUME NEW u \in UE, AllocUe(u) PROVE BandInv'
    BY <2>5, AllocUeInBand, Zenon
  <2>6. ASSUME NEW u \in UE, SkipUe(u) PROVE BandInv'
    BY <2>3, <2>6, Zenon DEF SkipUe
  <2>7. CASE RetxSkip \/ ShareStart \/ Share \/ CapReserve \/ CapMax \/ SliceEnd
    <3>1. phase' # "idle" /\ UNCHANGED <<slot, grid>>
      BY <2>7, Zenon DEF RetxSkip, NextRetxUe, ShareStart, Share, CapReserve, CapMax, SliceEnd
    <3>. QED BY <2>3, <3>1, Zenon
  <2>8. CASE UNCHANGED vars
    BY <2>3, <2>8, Zenon DEF vars
  <2>. QED BY <2>1, <2>2, <2>4, <2>5, <2>6, <2>7, <2>8, Zenon DEF Next
<1>3. BandInv => InBand
  BY Zenon DEF BandInv
<1>. QED BY <1>1, <1>2, <1>3, TypeCorrect, PTL DEF Spec

\* Where the first free run of the range has room, new data fits into it.
LEMMA AllocUeFree ==
  ASSUME TypeOK, NEW u \in UE, HasRoom(u), AllocUe(u)
  PROVE  /\ \A rb \in Rbs(alloc'[u][1], alloc'[u][2]) :
              rb \in RB /\ alloc'[u][3] \subseteq mask[rb]
         /\ \A v \in UE : v # u => alloc'[v] = alloc[v]
<1>. DEFINE r == ue[u].range
<1>1. PICK start \in RB, mx \in 1..BW, size \in Nat :
        /\ IsRbStart(r, start) /\ IsMaxRbSize(r, start, mx)
        /\ size <= Larger(MinRbSize, mx) /\ Allocate(u, start, size, Symbols)
  BY AllocUeGrant
<1>2. r \in RB \X RB
  <2>1. ue[u] \in UeNeed /\ ue[u].kind = "new"
    BY Zenon DEF AllocUe, Candidates, TypeOK, GridType
  <2>. QED BY <2>1, RangeType, Zenon
<1>3. PICK p \in r[1]..r[2] :
        /\ Rbs(p, MinRbSize) \subseteq UsableIn(r, Symbols)
        /\ \A q \in r[1]..(p - 1) : ~Free(mask, q)
  BY Zenon DEF HasRoom
<1>. HIDE DEF r
<1>t. /\ r[1] \in Int /\ r[2] \in Int /\ r[1]..r[2] \subseteq RB /\ p \in Int /\ start \in Int
      /\ start \in r[1]..r[2]
  BY <1>1, <1>2, SchedAssumption DEF RB, IsRbStart
<1>f. ASSUME NEW rb \in UsableIn(r, Symbols)
      PROVE  rb \in RB /\ rb \in r[1]..r[2] /\ Free(mask, rb)
  <2>1. rb \in RB /\ rb \in r[1]..r[2] /\ Symbols \subseteq mask[rb]
    BY <1>t, Zenon DEF UsableIn, Usable
  <2>2. mask[rb] \subseteq Symbols
    BY <2>1, Zenon DEF TypeOK, GridType
  <2>. QED BY <2>1, <2>2, Zenon DEF Free
<1>4. p \in Rbs(p, MinRbSize)
  BY <1>t, SchedAssumption DEF Rbs
<1>5. Free(mask, p)
  BY <1>3, <1>4, <1>f, Zenon
<1>6. start = p
  <2>1. ~(p < start)
    <3>. SUFFICES ASSUME p < start PROVE FALSE
      OBVIOUS
    <3>1. p \in r[1]..(start - 1)
      BY <1>t, <1>3
    <3>. QED BY <1>1, <1>5, <3>1, Zenon DEF IsRbStart
  <2>2. ~(start < p)
    <3>. SUFFICES ASSUME start < p PROVE FALSE
      OBVIOUS
    <3>1. start \in r[1]..(p - 1) /\ start # r[2]
      BY <1>t, <1>3
    <3>. QED BY <1>1, <1>3, <3>1, Zenon DEF IsRbStart
  <2>. QED BY <1>t, <2>1, <2>2
<1>7. ASSUME NEW rb \in Rbs(start, size) PROVE rb \in RB /\ Free(mask, rb)
  <2>1. rb \in Int /\ start <= rb /\ (rb < start + MinRbSize \/ rb < start + mx)
    BY <1>1, <1>t, SchedAssumption DEF Rbs, Larger
  <2>2. CASE rb < start + MinRbSize
    <3>1. rb \in Rbs(p, MinRbSize)
      BY <1>6, <1>t, <2>1, <2>2, SchedAssumption DEF Rbs
    <3>. QED BY <1>3, <1>f, <3>1, Zenon
  <2>3. CASE rb < start + mx /\ rb # start
    <3>. DEFINE k == rb - start
    <3>1. k \in 1..(mx - 1) /\ start + k = rb
      BY <1>t, <2>1, <2>3, SchedAssumption
    <3>2. rb <= r[2] /\ Free(mask, rb)
      BY <1>1, <3>1, Zenon DEF IsMaxRbSize
    <3>3. rb \in r[1]..r[2]
      BY <1>t, <2>1, <3>2
    <3>. QED BY <1>t, <3>2, <3>3, Zenon
  <2>. QED BY <1>5, <1>6, <2>1, <2>2, <2>3, Zenon
<1>8. alloc'[u] = <<start, size, Symbols>> /\ \A v \in UE : v # u => alloc'[v] = alloc[v]
  BY <1>1, Zenon DEF Allocate, TypeOK, GridType
<1>. QED BY <1>7, <1>8 DEF Free

\* A UE is given only symbols that are free at that moment: always in a
\* retransmission, and in new data where the first free run of the UE's range has
\* min_rbSize RBs or more.
THEOREM GivenWereFree == Spec => OnlyFreeRbs
<1>. DEFINE Fits(u) == \A rb \in Rbs(alloc'[u][1], alloc'[u][2]) :
                         rb \in RB /\ alloc'[u][3] \subseteq mask[rb]
            Step == \A u \in UE :
                      alloc'[u] # alloc[u] /\ (ue[u].kind = "retx" \/ HasRoom(u)) => Fits(u)
<1>1. TypeOK /\ [Next]_vars => [Step]_vars
  <2>. SUFFICES ASSUME TypeOK, Next, NEW u \in UE, alloc'[u] # alloc[u],
                       ue[u].kind = "retx" \/ HasRoom(u)
                PROVE  Fits(u)
    OBVIOUS
  <2>1. CASE alloc' = alloc
    BY <2>1, Zenon
  <2>2. CASE Retx
    <3>1. PICK a \in RB \X (1..BW) \X SUBSET Symbols :
            RetxFits(ue[cur], a[1], a[2], a[3]) /\ Allocate(cur, a[1], a[2], a[3])
      BY <2>2, Zenon DEF Retx
    <3>2. \A rb \in Rbs(a[1], a[2]) : rb \in RB /\ a[3] \subseteq mask[rb]
      <4>1. a[1] \in RB /\ a[2] \in 1..BW /\ a[3] \in SUBSET Symbols
        OBVIOUS
      <4>2. GridType /\ cur \in UE /\ ue[cur].kind = "retx"
        BY <2>2, Zenon DEF TypeOK, Retx
      <4>. QED BY <3>1, <4>1, <4>2, RetxFree
    <3>3. alloc' = [alloc EXCEPT ![cur] = <<a[1], a[2], a[3]>>]
      BY <3>1, Zenon DEF Allocate
    <3>4. alloc'[u] = <<a[1], a[2], a[3]>>
      BY <3>3, Zenon DEF TypeOK, GridType
    <3>5. alloc'[u][1] = a[1] /\ alloc'[u][2] = a[2] /\ alloc'[u][3] = a[3]
      BY <3>4
    <3>. QED BY <3>2, <3>5, Zenon
  <2>3. CASE SlotEnd
    BY <2>3 DEF SlotEnd, NoAlloc, Rbs
  <2>4. ASSUME NEW v \in UE, AllocUe(v) PROVE Fits(u)
    <3>1. v = u
      BY <2>4, Zenon DEF AllocUe, Allocate, TypeOK, GridType
    <3>2. ue[u].kind = "new"
      BY <2>4, <3>1, Zenon DEF AllocUe, Candidates
    <3>3. HasRoom(u)
      BY <3>2, Zenon
    <3>. QED BY <2>4, <3>1, <3>3, AllocUeFree, Zenon
  <2>. QED BY <2>1, <2>2, <2>3, <2>4, ZenonT(40)
           DEF Next, SlotStart, RetxSkip, ShareStart, Share, CapReserve, CapMax,
               SliceEnd, SkipUe, grid
<1>. QED BY <1>1, TypeCorrect, PTL DEF Spec, OnlyFreeRbs
=============================================================================
