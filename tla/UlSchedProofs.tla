--------------------------- MODULE UlSchedProofs ---------------------------
(***************************************************************************)
(* The grants of an uplink slot stay in the band, apart from each other and *)
(* on free RBs, for every number of UEs, every band, every resource map and *)
(* every demand.                                                            *)
(***************************************************************************)
EXTENDS UlSched, FiniteSetTheorems, WellFoundedInduction, TLAPS

\* What keeps the grants apart when the free block ends with the band.  Nobody asks
\* for the symbols "t" alone, so an RB with "h" left is untouched; every grant takes
\* the first RBs with "h" left, so those that remain reach up to the end of the
\* band, and the end of the band is a limit as good as the end of the free block.
MaskInv ==
  /\ \A rb \in RB : "h" \in mask[rb] => mask[rb] = Symbols
  /\ \A rb, q \in RB : rb <= q /\ "h" \in mask[rb] => "h" \in mask[q]
  /\ \A u \in UE : \A rb \in RB : Given(u, rb) \cap mask[rb] = {}
  /\ \A rb \in blocked : mask[rb] = {}

\* Between two slots nothing is allocated or waits.
IdleInv ==
  phase = "idle" => UE_sched = {} /\ alloc = [u \in UE |-> NoAlloc]

\* The second loop only holds UEs with new data.
WaitingInv == \A u \in UE_sched : ue[u].kind = "new"

\* The strengthening of GrantsInPlace that is inductive.
GrantInv ==
  /\ TypeOK /\ InBand /\ IdleInv /\ WaitingInv
  /\ ReachesEnd => NoConflict /\ MaskInv

-----------------------------------------------------------------------------
(* Lemmas on the operators *)

\* A nonempty set of naturals has a least element, which Min returns.
LEMMA MinNat ==
  ASSUME NEW S \in SUBSET Nat, S # {}
  PROVE  Min(S) \in S /\ \A y \in S : Min(S) <= y
<1>1. \E x \in S : \A y \in S : ~(<<y, x>> \in OpToRel(<, Nat))
  BY NatLessThanWellFounded, WFMin, Zenon
<1>2. PICK x \in S : \A y \in S : ~(<<y, x>> \in OpToRel(<, Nat))
  BY <1>1, Zenon
<1>3. \A y \in S : ~(y < x)
  BY <1>2, Zenon DEF OpToRel
<1>4. \A y \in S : x <= y
  BY <1>3
<1>. QED BY <1>4, Zenon DEF Min

\* A nonempty set of naturals with a bound has a greatest element, which Max returns.
LEMMA MaxNat ==
  ASSUME NEW k \in Nat, NEW S \in SUBSET (0..k), S # {}
  PROVE  Max(S) \in S /\ \A y \in S : Max(S) >= y
<1>. DEFINE T == {k - n : n \in S}
<1>1. T \in SUBSET Nat /\ T # {}
  <2>1. \A n \in S : n \in 0..k /\ k - n \in Nat
    OBVIOUS
  <2>. QED BY <2>1, Zenon
<1>2. Min(T) \in T /\ \A y \in T : Min(T) <= y
  BY <1>1, MinNat, Zenon
<1>3. PICK x \in S : Min(T) = k - x
  BY <1>2, Zenon
<1>4. \A y \in S : x >= y
  <2>. SUFFICES ASSUME NEW y \in S PROVE x >= y
    OBVIOUS
  <2>1. k - y \in T /\ x \in 0..k /\ y \in 0..k
    OBVIOUS
  <2>2. k - x <= k - y
    BY <1>2, <1>3, <2>1, Zenon
  <2>. QED BY <2>1, <2>2
<1>. QED BY <1>4, Zenon DEF Max

\* rbStart is the first RB usable in the symbols, or the end of the band.
LEMMA RbStartFirst ==
  ASSUME NEW bits
  PROVE  /\ RbStart(bits) \in 0..BW
         /\ RbStart(bits) < BW => Usable(bits, RbStart(bits))
         /\ \A rb \in RB : Usable(bits, rb) => RbStart(bits) <= rb
<1>. DEFINE S == {rb \in RB : Usable(bits, rb)} \cup {BW}
<1>1. S \in SUBSET Nat /\ S # {}
  BY UlSchedAssumption DEF RB
<1>2. RbStart(bits) \in S /\ \A y \in S : RbStart(bits) <= y
  BY <1>1, MinNat, Zenon DEF RbStart
<1>. QED BY <1>2, UlSchedAssumption DEF RB

\* The run that is counted from rbStart is usable and inside the band.
LEMMA RunFromFree ==
  ASSUME NEW start \in 0..BW
  PROVE  /\ RunFrom(start) \in 0..BW /\ start + RunFrom(start) <= BW
         /\ \A rb \in Rbs(start, RunFrom(start)) : Usable(Symbols, rb)
<1>. DEFINE S == {n \in 0..BW : start + n <= BW
                                  /\ \A rb \in Rbs(start, n) : Usable(Symbols, rb)}
<1>1. 0 \in S
  BY UlSchedAssumption DEF Rbs
<1>2. Max(S) \in S
  BY <1>1, MaxNat, UlSchedAssumption, Zenon
<1>. QED BY <1>2, Zenon DEF RunFrom

\* The free block of a slot holds no blocked RB and, if it holds the last RB of the
\* band, every RB above one of its own.
LEMMA LargestFreeBlock ==
  ASSUME NEW b \in SUBSET RB
  PROVE  /\ LargestFree(b) \subseteq RB \ b
         /\ BW - 1 \in LargestFree(b) =>
              \A rb \in LargestFree(b) : \A q \in RB : rb <= q => q \in LargestFree(b)
<1>1. CASE FreeRuns(b) = {}
  BY <1>1, Zenon DEF LargestFree
<1>2. CASE FreeRuns(b) # {}
  <2>. DEFINE Lens == {r[2] : r \in FreeRuns(b)}
              len == Max(Lens)
              Starts == {r[1] : r \in {q \in FreeRuns(b) : q[2] = len}}
              st == Min(Starts)
  <2>1. Lens \in SUBSET (0..BW) /\ Lens # {}
    BY <1>2, UlSchedAssumption DEF FreeRuns
  <2>2. len \in Lens
    BY <2>1, MaxNat, UlSchedAssumption, Zenon
  <2>. HIDE DEF len
  <2>3. Starts \in SUBSET Nat /\ Starts # {}
    <3>1. PICK r \in FreeRuns(b) : r[2] = len
      BY <2>2, Zenon
    <3>2. \A q \in FreeRuns(b) : q[1] \in Nat
      BY UlSchedAssumption DEF FreeRuns, RB
    <3>. QED BY <3>1, <3>2, Zenon
  <2>4. st \in Starts
    BY <2>3, MinNat, Zenon
  <2>5. st \in RB /\ len \in 1..BW /\ Rbs(st, len) \subseteq RB \ b
    BY <2>4, Zenon DEF FreeRuns
  <2>6. LargestFree(b) = Rbs(st, len)
    BY <1>2, Zenon DEF LargestFree, len
  <2>. HIDE DEF st
  <2>. QED BY <2>5, <2>6, UlSchedAssumption DEF Rbs, RB
<1>. QED BY <1>1, <1>2, Zenon

\* The size of a transport block that awaits its retransmission.
LEMMA RetxType ==
  ASSUME NEW need \in UeNeed, need.kind = "retx"
  PROVE  need.size \in Nat \ {0}
BY UlSchedAssumption, Zenon DEF UeNeed

\* The demand of a UE with new data.
LEMMA DemandType ==
  ASSUME NEW need \in UeNeed, need.kind = "new"
  PROVE  need.d \in Nat \ {0}
BY UlSchedAssumption, Zenon DEF UeNeed

-----------------------------------------------------------------------------
(* What a grant does to the invariant *)

\* A grant from rbStart that fits into the band keeps the types and the band.
LEMMA GrantKeepsTypes ==
  ASSUME TypeOK, InBand, remainUEs > 0, NEW u \in UE, NEW bits \in SUBSET Symbols,
         NEW start \in 0..BW, NEW size \in Nat, start + size <= BW, NEW n \in Int,
         Allocate(u, start, size, bits, n)
  PROVE  /\ mask' \in [RB -> SUBSET Symbols]
         /\ n_rb_sched' \in Int /\ remainUEs' \in 0..MaxSchedUes
         /\ alloc' \in [UE -> Nat \X Nat \X SUBSET Symbols]
         /\ InBand'
<1>1. mask' \in [RB -> SUBSET Symbols]
  BY Zenon DEF TypeOK, Allocate, Toggle
<1>2. n_rb_sched' \in Int /\ remainUEs' \in 0..MaxSchedUes
  BY UlSchedAssumption DEF TypeOK, Allocate
<1>3. alloc' \in [UE -> Nat \X Nat \X SUBSET Symbols]
  BY UlSchedAssumption DEF TypeOK, Allocate
<1>4. InBand'
  <2>. SUFFICES ASSUME NEW v \in UE PROVE alloc'[v][1] + alloc'[v][2] <= BW
    BY Zenon DEF InBand
  <2>1. CASE v = u
    BY <2>1, Zenon DEF TypeOK, Allocate
  <2>2. CASE v # u
    BY <2>2, Zenon DEF TypeOK, Allocate, InBand
  <2>. QED BY <2>1, <2>2, Zenon
<1>. QED BY <1>1, <1>2, <1>3, <1>4, Zenon

\* From rbStart up to the end of the band every RB is untouched.
LEMMA FullFromStart ==
  ASSUME MaskInv, NEW bits \in {{"h"}, Symbols}, NEW rb \in RB, RbStart(bits) <= rb
  PROVE  mask[rb] = Symbols
<1>1. RbStart(bits) \in RB /\ Usable(bits, RbStart(bits))
  BY RbStartFirst, UlSchedAssumption DEF RB
<1>2. "h" \in mask[RbStart(bits)]
  BY <1>1, Zenon DEF Usable, Symbols
<1>3. "h" \in mask[rb]
  BY <1>1, <1>2, Zenon DEF MaskInv
<1>. QED BY <1>3, Zenon DEF MaskInv

\* When the free block ends with the band, such a grant stays apart from the others
\* and leaves the mask in order.
LEMMA GrantKeepsApart ==
  ASSUME TypeOK, NoConflict, MaskInv, NEW u \in UE, NEW bits \in {{"h"}, Symbols},
         NEW size \in Nat, RbStart(bits) + size <= BW, NEW n \in Int,
         Allocate(u, RbStart(bits), size, bits, n), UNCHANGED slot
  PROVE  NoConflict' /\ MaskInv'
<1>. DEFINE start == RbStart(bits)
            Run == Rbs(start, size)
<1>1. start \in 0..BW
  BY RbStartFirst, Zenon
<1>2. \A rb \in RB : start <= rb => mask[rb] = Symbols
  BY FullFromStart, Zenon
<1>3. \A rb \in RB : "h" \in mask[rb] => start <= rb
  BY RbStartFirst, Zenon DEF MaskInv, Usable, Symbols
<1>4. \A rb \in Run : rb \in RB /\ start <= rb
  BY <1>1, UlSchedAssumption DEF Rbs, RB
<1>5. \A rb \in RB : mask'[rb] = IF rb \in Run THEN Symbols \ bits ELSE mask[rb]
  BY <1>2, <1>4, Zenon DEF Allocate, Toggle, Symbols
<1>6. \A rb \in RB : Given(u, rb)' = IF rb \in Run THEN bits ELSE {}
  BY Zenon DEF Given, Allocate, TypeOK
<1>7. \A v \in UE : v # u => \A rb \in RB : Given(v, rb)' = Given(v, rb)
  BY Zenon DEF Given, Allocate, TypeOK
<1>8. blocked' = blocked /\ blocked \subseteq RB
  BY Zenon DEF slot, TypeOK
<1>9. \A rb \in RB : Given(u, rb)' \subseteq mask[rb] /\ mask'[rb] \subseteq mask[rb]
  BY <1>2, <1>4, <1>5, <1>6 DEF Symbols, TypeOK
<1>. HIDE DEF start, Run
<1>10. NoConflict'
  <2>1. \A v \in UE : v # u => \A rb \in RB : Given(u, rb)' \cap Given(v, rb)' = {}
    BY <1>7, <1>9 DEF MaskInv
  <2>2. \A v, w \in UE : v # w => \A rb \in RB : Given(v, rb)' \cap Given(w, rb)' = {}
    BY <2>1, <1>7 DEF NoConflict
  <2>3. \A v \in UE : \A rb \in blocked : Given(v, rb)' = {}
    BY <1>7, <1>8, <1>9 DEF NoConflict, MaskInv
  <2>. QED BY <2>2, <2>3, <1>8, Zenon DEF NoConflict
<1>11. MaskInv'
  <2>1. \A rb \in RB : "h" \in mask'[rb] => rb \notin Run /\ mask'[rb] = mask[rb]
    BY <1>5, Zenon DEF Symbols
  <2>2. \A rb \in RB : "h" \in mask'[rb] => mask'[rb] = Symbols
    BY <2>1, Zenon DEF MaskInv
  <2>3. \A rb, q \in RB : rb <= q /\ "h" \in mask'[rb] => "h" \in mask'[q]
    <3>. SUFFICES ASSUME NEW rb \in RB, NEW q \in RB, rb <= q, "h" \in mask'[rb]
                  PROVE  "h" \in mask'[q]
      OBVIOUS
    <3>1. "h" \in mask[rb] /\ rb \notin Run
      BY <2>1, Zenon
    <3>2. start <= rb /\ "h" \in mask[q]
      BY <3>1, <1>3, Zenon DEF MaskInv
    <3>3. q \notin Run
      BY <3>1, <3>2, <1>1, UlSchedAssumption DEF Run, Rbs, RB
    <3>. QED BY <3>2, <3>3, <1>5, Zenon
  <2>4. \A v \in UE : \A rb \in RB : Given(v, rb)' \cap mask'[rb] = {}
    <3>1. \A rb \in RB : Given(u, rb)' \cap mask'[rb] = {}
      BY <1>5, <1>6, Zenon
    <3>2. \A v \in UE : v # u => \A rb \in RB : Given(v, rb)' \cap mask'[rb] = {}
      BY <1>7, <1>9 DEF MaskInv
    <3>. QED BY <3>1, <3>2, Zenon
  <2>5. \A rb \in blocked' : mask'[rb] = {}
    BY <1>8, <1>9, Zenon DEF MaskInv
  <2>. QED BY <2>2, <2>3, <2>4, <2>5, Zenon DEF MaskInv
<1>. QED BY <1>10, <1>11, Zenon

-----------------------------------------------------------------------------
(* The actions *)

\* The slot starts with its free block unallocated.
LEMMA SlotStartKeeps ==
  ASSUME GrantInv, SlotStart PROVE GrantInv'
<1>. USE DEF GrantInv
<1>1. blocked' \in SUBSET RB
  BY UlSchedAssumption, Zenon DEF SlotStart
<1>2. LargestFree(blocked') \subseteq RB \ blocked'
  BY <1>1, LargestFreeBlock, Zenon
<1>3. ReachesEnd' => \A rb \in LargestFree(blocked') : \A q \in RB :
                       rb <= q => q \in LargestFree(blocked')
  BY <1>1, LargestFreeBlock, Zenon DEF ReachesEnd
<1>. DEFINE F == LargestFree(blocked')
<1>. HIDE DEF F
<1>4. mask' = [rb \in RB |-> IF rb \in F THEN Symbols ELSE {}]
  BY Zenon DEF SlotStart, F
<1>5. TypeOK'
  <2>1. IsFiniteSet(RB)
    BY UlSchedAssumption, FS_Interval DEF RB
  <2>2. Cardinality(F) \in Nat
    BY <2>1, <1>2, FS_Subset, FS_CardinalityType, Zenon DEF F
  <2>3. n_rb_sched' \in Int
    BY <2>2 DEF SlotStart, F
  <2>. QED BY <1>1, <1>4, <2>3, UlSchedAssumption DEF TypeOK, SlotStart
<1>6. alloc' = alloc /\ alloc = [u \in UE |-> NoAlloc] /\ UE_sched' = {}
  BY Zenon DEF SlotStart, IdleInv
<1>7. InBand' /\ IdleInv' /\ WaitingInv'
  BY <1>6, Zenon DEF InBand, IdleInv, WaitingInv, SlotStart
<1>8. \A u \in UE : \A rb \in RB : Given(u, rb)' = {}
  BY <1>6, Zenon DEF Given, NoAlloc
<1>9. NoConflict'
  BY <1>1, <1>8, Zenon DEF NoConflict
<1>10. ReachesEnd' => MaskInv'
  <2>. SUFFICES ASSUME ReachesEnd' PROVE MaskInv'
    OBVIOUS
  <2>1. \A rb \in RB : "h" \in mask'[rb] => rb \in F /\ mask'[rb] = Symbols
    BY <1>4, Zenon
  <2>2. \A rb, q \in RB : rb <= q /\ "h" \in mask'[rb] => "h" \in mask'[q]
    BY <1>3, <1>4, <2>1, Zenon DEF Symbols, F
  <2>3. \A rb \in blocked' : mask'[rb] = {}
    BY <1>1, <1>2, <1>4, Zenon DEF F
  <2>. QED BY <1>8, <2>1, <2>2, <2>3, Zenon DEF MaskInv
<1>. QED BY <1>5, <1>7, <1>9, <1>10, Zenon

\* A step outside "idle" that grants RBs from rbStart keeps the invariant, provided
\* the grant ends inside the band and the loops go on as they do.
LEMMA GrantKeeps ==
  ASSUME GrantInv, phase # "idle", remainUEs > 0, NEW u \in UE,
         NEW bits \in {{"h"}, Symbols}, NEW size \in Nat, RbStart(bits) + size <= BW,
         NEW n \in Int, Allocate(u, RbStart(bits), size, bits, n),
         UNCHANGED <<phase, slot>>, cur' \in 1..(NumUE + 1), UE_sched' \subseteq UE_sched
  PROVE  GrantInv'
<1>. USE DEF GrantInv
<1>1. RbStart(bits) \in 0..BW /\ bits \in SUBSET Symbols
  BY RbStartFirst, Zenon DEF Symbols
<1>2. /\ mask' \in [RB -> SUBSET Symbols]
      /\ n_rb_sched' \in Int /\ remainUEs' \in 0..MaxSchedUes
      /\ alloc' \in [UE -> Nat \X Nat \X SUBSET Symbols]
      /\ InBand'
  BY <1>1, GrantKeepsTypes, Zenon
<1>3. TypeOK'
  BY <1>2, Zenon DEF TypeOK, slot
<1>4. IdleInv' /\ WaitingInv'
  BY Zenon DEF IdleInv, WaitingInv, slot
<1>5. ReachesEnd' <=> ReachesEnd
  BY Zenon DEF ReachesEnd, slot
<1>6. ReachesEnd => NoConflict' /\ MaskInv'
  BY GrantKeepsApart, Zenon
<1>. QED BY <1>2, <1>3, <1>4, <1>5, <1>6, Zenon

\* A step that grants nothing keeps what is said of the grants.
LEMMA NoGrantKeeps ==
  ASSUME GrantInv, phase # "idle", UNCHANGED <<slot, grid>>, phase' \in {"ues", "new"},
         cur' \in 1..(NumUE + 1), UE_sched' \subseteq UE,
         \A u \in UE_sched' : ue[u].kind = "new"
  PROVE  GrantInv'
<1>. USE DEF GrantInv, slot, grid
<1>1. TypeOK' /\ InBand' /\ IdleInv' /\ WaitingInv'
  BY Zenon DEF TypeOK, InBand, IdleInv, WaitingInv
<1>2. \A u \in UE : \A rb \in RB : Given(u, rb)' = Given(u, rb)
  BY Zenon DEF Given
<1>3. ReachesEnd' <=> ReachesEnd
  BY Zenon DEF ReachesEnd
<1>4. blocked' = blocked /\ blocked \subseteq RB /\ mask' = mask
  BY Zenon DEF TypeOK
<1>5. NoConflict => NoConflict'
  BY <1>2, <1>4 DEF NoConflict
<1>6. MaskInv => MaskInv'
  BY <1>2, <1>4, Zenon DEF MaskInv
<1>. QED BY <1>1, <1>3, <1>5, <1>6, Zenon

\* The iterator of the first loop moves on inside its range.
LEMMA CurNext ==
  ASSUME cur \in UE, NextUe PROVE cur' \in 1..(NumUE + 1)
BY UlSchedAssumption DEF UE, NextUe

\* A retransmission, with the old time-domain allocation or another.
LEMMA RetxKeeps ==
  ASSUME GrantInv, Retx PROVE GrantInv'
<1>1. /\ phase = "ues" /\ cur \in UE /\ ue[cur].kind = "retx" /\ remainUEs > 0
      /\ UNCHANGED <<phase, slot>> /\ UE_sched' = UE_sched /\ NextUe
  BY Zenon DEF Retx, AtUe, NextUe
<1>2. cur' \in 1..(NumUE + 1)
  BY <1>1, CurNext, Zenon
<1>3. CASE RetxSame
  <2>. DEFINE bits == IF ue[cur].tda = "short" THEN {"h"} ELSE Symbols
  <2>1. ue[cur] \in UeNeed
    BY <1>1, Zenon DEF GrantInv, TypeOK
  <2>2. ue[cur].size \in Nat
    BY <1>1, <2>1, RetxType, Zenon
  <2>3. /\ RbStart(bits) + ue[cur].size <= BW
        /\ Allocate(cur, RbStart(bits), ue[cur].size, bits, 0)
    BY <1>3, Zenon DEF RetxSame
  <2>4. bits \in {{"h"}, Symbols}
    OBVIOUS
  <2>. HIDE DEF bits
  <2>. QED BY <1>1, <1>2, <2>2, <2>3, <2>4, GrantKeeps
<1>4. CASE RetxOther
  <2>1. PICK size \in 1..RunFrom(RbStart(Symbols)) :
          Allocate(cur, RbStart(Symbols), size, Symbols, 0)
    BY <1>4, Zenon DEF RetxOther
  <2>2. RbStart(Symbols) \in 0..BW
    BY RbStartFirst, Zenon
  <2>3. /\ RunFrom(RbStart(Symbols)) \in 0..BW
        /\ RbStart(Symbols) + RunFrom(RbStart(Symbols)) <= BW
    BY <2>2, RunFromFree, Zenon
  <2>4. size \in Nat /\ RbStart(Symbols) + size <= BW
    BY <2>2, <2>3, UlSchedAssumption
  <2>. QED BY <1>1, <1>2, <2>1, <2>4, GrantKeeps
<1>. QED BY <1>3, <1>4, Zenon DEF Retx

\* A minimum grant.
LEMMA MinGrantKeeps ==
  ASSUME GrantInv, MinGrant PROVE GrantInv'
<1>1. /\ phase = "ues" /\ cur \in UE /\ remainUEs > 0
      /\ UNCHANGED <<phase, slot>> /\ UE_sched' = UE_sched /\ NextUe
      /\ Allocate(cur, RbStart(Symbols), MinRb, Symbols, MinRb)
      /\ RbStart(Symbols) + MinRb < BW
  BY Zenon DEF MinGrant, AtUe, NextUe
<1>2. cur' \in 1..(NumUE + 1)
  BY <1>1, CurNext, Zenon
<1>3. RbStart(Symbols) \in 0..BW
  BY RbStartFirst, Zenon
<1>4. MinRb \in Nat /\ MinRb \in Int /\ RbStart(Symbols) + MinRb <= BW
  BY <1>1, <1>3, UlSchedAssumption
<1>. QED BY <1>1, <1>2, <1>4, GrantKeeps, Zenon

\* What a grant of new data is: a run of free RBs from rbStart.
LEMMA NewDataGrant ==
  ASSUME TypeOK, WaitingInv, NEW u \in UE, NewData(u)
  PROVE  \E size \in Nat :
           /\ Allocate(u, RbStart(Symbols), size, Symbols, size)
           /\ size <= RunFrom(RbStart(Symbols))
<1>. DEFINE start == RbStart(Symbols)
            run == RunFrom(start)
<1>1. start \in 0..BW
  BY RbStartFirst, Zenon
<1>2. run \in Nat
  BY <1>1, RunFromFree, UlSchedAssumption
<1>3. run >= MinRb
  BY Zenon DEF NewData, HasRoom
<1>4. PICK mx \in MaxRbSizes(start) : \E size \in FindNbRb(ue[u].d, MinRb, mx) :
        Allocate(u, start, size, Symbols, size)
  BY Zenon DEF NewData
<1>5. PICK size \in FindNbRb(ue[u].d, MinRb, mx) :
        Allocate(u, start, size, Symbols, size)
  BY <1>4, Zenon
<1>6. ue[u].d \in Nat
  BY DemandType, Zenon DEF TypeOK, WaitingInv, NewData
<1>7. mx \in Nat /\ MinRb <= mx /\ mx <= run
  <2>. DEFINE S == {MinRb, run}
  <2>1. S \in SUBSET (0..run) /\ S # {}
    BY <1>2, <1>3, UlSchedAssumption
  <2>2. Max(S) \in S
    BY <1>2, <2>1, MaxNat, Zenon
  <2>3. mx \in MinRb..Max(S)
    BY Zenon DEF MaxRbSizes
  <2>. QED BY <1>2, <1>3, <2>2, <2>3, UlSchedAssumption
<1>8. size \in Nat /\ size <= run
  BY <1>2, <1>3, <1>6, <1>7, UlSchedAssumption DEF FindNbRb
<1>. QED BY <1>5, <1>8, Zenon

\* New data of the second loop.
LEMMA NewDataKeeps ==
  ASSUME GrantInv, NEW u \in UE, NewData(u) PROVE GrantInv'
<1>1. PICK size \in Nat : /\ Allocate(u, RbStart(Symbols), size, Symbols, size)
                          /\ size <= RunFrom(RbStart(Symbols))
  BY NewDataGrant, Zenon DEF GrantInv
<1>2. RbStart(Symbols) \in 0..BW
  BY RbStartFirst, Zenon
<1>3. /\ RunFrom(RbStart(Symbols)) \in 0..BW
      /\ RbStart(Symbols) + RunFrom(RbStart(Symbols)) <= BW
  BY <1>2, RunFromFree, Zenon
<1>4. RbStart(Symbols) + size <= BW
  BY <1>1, <1>2, <1>3, UlSchedAssumption
<1>5. /\ phase = "new" /\ remainUEs > 0 /\ UNCHANGED <<phase, slot>>
      /\ cur' \in 1..(NumUE + 1) /\ UE_sched' \subseteq UE_sched
  BY Zenon DEF NewData, Going, GrantInv, TypeOK
<1>. QED BY <1>1, <1>4, <1>5, GrantKeeps

\* Between two slots the state is that of the start.
LEMMA EmptyGrid ==
  ASSUME Init PROVE GrantInv
<1>1. TypeOK
  BY UlSchedAssumption DEF Init, TypeOK, UeNeed, NoAlloc
<1>2. InBand
  BY UlSchedAssumption DEF Init, InBand, NoAlloc
<1>3. \A u \in UE : \A rb \in RB : Given(u, rb) = {}
  BY Zenon DEF Init, Given, NoAlloc
<1>4. NoConflict /\ MaskInv
  BY <1>3, Zenon DEF Init, NoConflict, MaskInv
<1>. QED BY <1>1, <1>2, <1>4, Zenon DEF Init, GrantInv, IdleInv, WaitingInv

\* The end of a slot brings back the state of the start.
LEMMA SlotEndKeeps ==
  ASSUME SlotEnd PROVE GrantInv'
<1>1. TypeOK'
  BY UlSchedAssumption DEF SlotEnd, TypeOK, UeNeed, NoAlloc
<1>2. InBand'
  BY UlSchedAssumption DEF SlotEnd, InBand, NoAlloc
<1>3. \A u \in UE : \A rb \in RB : Given(u, rb)' = {}
  BY Zenon DEF SlotEnd, Given, NoAlloc
<1>4. NoConflict' /\ MaskInv'
  BY <1>3, Zenon DEF SlotEnd, NoConflict, MaskInv
<1>. QED BY <1>1, <1>2, <1>4, Zenon DEF SlotEnd, GrantInv, IdleInv, WaitingInv

\* Every step keeps the invariant.
LEMMA GrantInvStep ==
  ASSUME GrantInv, [Next]_vars PROVE GrantInv'
<1>1. CASE SlotStart
  BY <1>1, SlotStartKeeps, Zenon
<1>2. CASE Retx
  BY <1>2, RetxKeeps, Zenon
<1>3. CASE MinGrant
  BY <1>3, MinGrantKeeps
<1>4. CASE Enqueue
  <2>1. cur \in UE /\ NextUe /\ ue[cur].kind = "new" /\ phase = "ues"
    BY <1>4, Zenon DEF Enqueue, AtUe
  <2>2. cur' \in 1..(NumUE + 1)
    BY <2>1, CurNext, Zenon
  <2>3. UE_sched' \subseteq UE /\ \A u \in UE_sched' : ue[u].kind = "new"
    BY <1>4, <2>1, Zenon DEF Enqueue, GrantInv, TypeOK, WaitingInv
  <2>. QED BY <1>4, <2>1, <2>2, <2>3, NoGrantKeeps, Zenon DEF Enqueue, NextUe
<1>5. CASE Skip
  <2>1. cur \in UE /\ NextUe /\ phase = "ues"
    BY <1>5, Zenon DEF Skip
  <2>2. cur' \in 1..(NumUE + 1)
    BY <2>1, CurNext, Zenon
  <2>. QED BY <1>5, <2>1, <2>2, NoGrantKeeps, Zenon DEF Skip, NextUe, GrantInv, TypeOK, WaitingInv
<1>6. CASE UesEnd
  BY <1>6, NoGrantKeeps, Zenon DEF UesEnd, GrantInv, TypeOK, WaitingInv
<1>7. CASE SlotEnd
  BY <1>7, SlotEndKeeps, Zenon
<1>8. ASSUME NEW u \in UE, NewData(u) PROVE GrantInv'
  BY <1>8, NewDataKeeps, Zenon
<1>9. ASSUME NEW u \in UE, NewSkip(u) PROVE GrantInv'
  BY <1>9, NoGrantKeeps, Zenon DEF NewSkip, Going, GrantInv, TypeOK, WaitingInv
<1>10. CASE UNCHANGED vars
  BY <1>10, Zenon DEF vars, slot, grid, GrantInv, TypeOK, InBand, IdleInv, WaitingInv,
     ReachesEnd, NoConflict, MaskInv, Given
<1>. QED BY <1>1, <1>2, <1>3, <1>4, <1>5, <1>6, <1>7, <1>8, <1>9, <1>10, Zenon DEF Next

-----------------------------------------------------------------------------
(* The theorems *)

\* The strengthened invariant holds.
LEMMA GrantInvHolds == Spec => []GrantInv
<1>1. Init => GrantInv
  BY EmptyGrid, Zenon
<1>2. GrantInv /\ [Next]_vars => GrantInv'
  BY GrantInvStep, Zenon
<1>. QED BY <1>1, <1>2, PTL DEF Spec

\* In every slot the grants of allocate_ul_retransmission and pf_ul stay inside the
\* band, and where the free block ends with the band they share no symbol of an RB
\* and take nothing that vrb_map_UL had blocked.
THEOREM GrantsPlaced == Spec => []GrantsInPlace
<1>1. GrantInv => GrantsInPlace
  BY Zenon DEF GrantInv, GrantsInPlace, DisjointGrants
<1>. QED BY <1>1, GrantInvHolds, PTL

\* New data is only put on RBs that rballoc_mask holds to be free in all symbols,
\* wherever the free block lies: the check of the run in pf_ul is enough.
THEOREM NewDataFree == Spec => NewDataOnFree
<1>. DEFINE Fits(u) == \A rb \in Rbs(alloc'[u][1], alloc'[u][2]) :
                         rb \in RB /\ Usable(Symbols, rb)
            Step == \A u \in UE : alloc'[u] # alloc[u] /\ ue[u].kind = "new" => Fits(u)
<1>1. GrantInv /\ [Next]_vars => [Step]_vars
  <2>. SUFFICES ASSUME GrantInv, Next, NEW u \in UE, alloc'[u] # alloc[u],
                       ue[u].kind = "new"
                PROVE  Fits(u)
    OBVIOUS
  <2>. USE DEF GrantInv, TypeOK
  <2>1. CASE SlotEnd
    BY <2>1 DEF SlotEnd, NoAlloc, Rbs
  <2>2. CASE Retx
    <3>1. alloc'[u] = alloc[u]
      BY <2>2, Zenon DEF Retx, RetxSame, RetxOther, Allocate, AtUe
    <3>. QED BY <3>1, Zenon
  <2>3. CASE MinGrant
    <3>1. alloc'[u] = alloc[u]
      BY <2>3, Zenon DEF MinGrant, Allocate, AtUe
    <3>. QED BY <3>1
  <2>4. CASE SlotStart \/ Enqueue \/ Skip \/ UesEnd \/ \E v \in UE : NewSkip(v)
    BY <2>4, Zenon DEF SlotStart, Enqueue, Skip, UesEnd, NewSkip, grid
  <2>5. ASSUME NEW v \in UE, NewData(v) PROVE Fits(u)
    <3>1. PICK size \in Nat : /\ Allocate(v, RbStart(Symbols), size, Symbols, size)
                              /\ size <= RunFrom(RbStart(Symbols))
      BY <2>5, NewDataGrant, Zenon
    <3>2. v = u
      BY <3>1, Zenon DEF Allocate
    <3>3. alloc'[u][1] = RbStart(Symbols) /\ alloc'[u][2] = size
      BY <3>1, <3>2, Zenon DEF Allocate
    <3>4. RbStart(Symbols) \in 0..BW
      BY RbStartFirst, Zenon
    <3>5. /\ RunFrom(RbStart(Symbols)) \in 0..BW
          /\ RbStart(Symbols) + RunFrom(RbStart(Symbols)) <= BW
          /\ \A rb \in Rbs(RbStart(Symbols), RunFrom(RbStart(Symbols))) :
               Usable(Symbols, rb)
      BY <3>4, RunFromFree, Zenon
    <3>. QED BY <3>1, <3>3, <3>4, <3>5, UlSchedAssumption DEF Rbs, RB
  <2>. QED BY <2>1, <2>2, <2>3, <2>4, <2>5, Zenon DEF Next
<1>. QED BY <1>1, GrantInvHolds, PTL DEF Spec, NewDataOnFree

=============================================================================
