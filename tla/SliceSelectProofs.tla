------------------------- MODULE SliceSelectProofs -------------------------
(***************************************************************************)
(* SliceSelect for any number of UEs, slices, NSSAIs and bearers.  The       *)
(* inductive invariant says what the slot's passes over the bearers leave    *)
(* behind until the slot ends: the sid of every bearer they looked at is the *)
(* one of its NSSAI, and the choice conserves work.  Both outlive the passes *)
(* because bearers and timers do not change while a slot is being scheduled. *)
(***************************************************************************)
EXTENDS SliceSelect, FiniteSetTheorems, TLAPS

Types ==
  /\ phase \in {"idle", "sched", "fatal"}
  /\ lc \in [UE -> [Drbs -> Nssais \cup {None}]]
  /\ sid \in [UE -> [Lcids -> Sid]]
  /\ status \in [UE -> SUBSET Lcids]
  /\ chosen \in [UE -> Int]

\* The sids the slot works with are those of the bearers' NSSAIs.
Refreshed ==
  phase = "sched" =>
    \A u \in UE : \A l \in Looked(u) \ {Srb} : sid[u][l] = SidOf[lc[u][l]]

Inv == Types /\ Refreshed /\ WorkConserving /\ NeverFatal

-----------------------------------------------------------------------------
(* The list of slices                                                      *)

\* nr_store_dl_slice_info leaves a sid for every bearer: 0 or a configured one.
LEMMA StoredType ==
  ASSUME Types, NEW u \in UE
  PROVE  Stored(u) \in [Lcids -> Sid]
<1>1. ASSUME NEW l \in Looked(u), l # Srb
      PROVE  SidOf[lc[u][l]] \in Sid
  <2>1. l \in Drbs /\ lc[u][l] # None
    BY <1>1, Zenon DEF Looked, Configured
  <2>2. lc[u][l] \in Nssais
    BY <2>1 DEF Types
  <2> QED BY <2>2, SelectAssumption, Zenon
<1>2. \A l \in Lcids : sid[u][l] \in Sid
  BY Zenon DEF Types
<1>3. 0 \in Sid
  BY Zenon DEF Sid
<1> QED BY <1>1, <1>2, <1>3, Zenon DEF Stored

\* nr_get_ue_active_slice_list lists configured slices only.
LEMMA ActiveSlices ==
  ASSUME Types, NEW u \in UE
  PROVE  /\ Active(u) \subseteq Slices /\ IsFiniteSet(Active(u))
         /\ Cardinality(Active(u)) <= Cardinality(Slices)
         /\ Cardinality(Active(u)) \in Nat /\ Cardinality(Slices) \in Nat
<1>1. Active(u) \subseteq Slices
  BY StoredType DEF Active, Sid, Configured, Lcids
<1> QED BY <1>1, SelectAssumption, FS_Subset, FS_CardinalityType, Zenon

\* A list of one slice.
LEMMA NthOfOne ==
  ASSUME NEW a \in Nat
  PROVE  Nth({a}, 1) = a
<1>1. Cardinality({a}) = 1
  BY FS_Singleton, Zenon
<1>2. {t \in {a} : t < a} = {}
  OBVIOUS
<1>3. Cardinality({}) = 0
  BY FS_EmptySet, Zenon
<1> QED BY <1>1, <1>2, <1>3 DEF Nth

\* A list of two slices has both, in increasing order.
LEMMA NthOfTwo ==
  ASSUME NEW a \in Nat, NEW b \in Nat, a < b
  PROVE  Nth({a, b}, 1) = a /\ Nth({a, b}, 2) = b
<1> DEFINE S == {a, b}
<1>1. Cardinality(S) = 2
  <2>1. S = {a} \cup {b} /\ b \notin {a}
    OBVIOUS
  <2>2. IsFiniteSet({a}) /\ Cardinality({a}) = 1
    BY FS_Singleton, Zenon
  <2>3. Cardinality({a} \cup {b}) = 1 + 1
    BY <2>1, <2>2, FS_AddElement, Zenon
  <2> QED BY <2>1, <2>3
<1>2. {t \in S : t < a} = {} /\ {t \in S : t < b} = {a}
  OBVIOUS
<1>3. Cardinality({t \in S : t < a}) = 0 /\ Cardinality({t \in S : t < b}) = 1
  BY <1>2, FS_EmptySet, FS_Singleton, Zenon
<1>4. (CHOOSE s \in S : Cardinality({t \in S : t < s}) = 1 - 1) = a
  BY <1>3
<1>5. (CHOOSE s \in S : Cardinality({t \in S : t < s}) = 2 - 1) = b
  BY <1>3
<1> QED BY <1>1, <1>4, <1>5 DEF Nth

\* avail_slice_list[1..2] are the UE's active slices.
LEMMA AvailOfOne ==
  ASSUME Types, NEW u \in UE, Cardinality(Active(u)) = 1
  PROVE  Active(u) = {Avail(u, 1)} /\ Avail(u, 1) \in Nat
<1>1. PICK a : Active(u) = {a}
  BY ActiveSlices, FS_Singleton, Zenon
<1>2. a \in Nat
  BY <1>1, ActiveSlices, SelectAssumption, Zenon
<1> QED BY <1>1, <1>2, NthOfOne DEF Avail

LEMMA AvailOfTwo ==
  ASSUME Types, NEW u \in UE, Cardinality(Active(u)) = 2
  PROVE  /\ Active(u) = {Avail(u, 1), Avail(u, 2)}
         /\ Avail(u, 1) \in Nat /\ Avail(u, 2) \in Nat
<1>1. PICK a \in Active(u) : TRUE
  BY ActiveSlices, FS_EmptySet
<1>2. Cardinality(Active(u) \ {a}) = 1 /\ IsFiniteSet(Active(u) \ {a})
  BY <1>1, ActiveSlices, FS_RemoveElement
<1>3. PICK b : Active(u) \ {a} = {b}
  BY <1>2, FS_Singleton, Zenon
<1>4. Active(u) = {a, b} /\ a # b /\ Active(u) = {b, a}
  BY <1>1, <1>3, Zenon
<1>5. a \in Nat /\ b \in Nat
  BY <1>4, ActiveSlices, SelectAssumption, Zenon
<1>6. Avail(u, 1) = Nth(Active(u), 1) /\ Avail(u, 2) = Nth(Active(u), 2)
  BY DEF Avail
<1>7. CASE a < b
  <2>1. Nth({a, b}, 1) = a /\ Nth({a, b}, 2) = b
    BY <1>5, <1>7, NthOfTwo, Zenon
  <2> QED BY <1>4, <1>5, <1>6, <2>1, Zenon
<1>8. CASE b < a
  <2>1. Nth({b, a}, 1) = b /\ Nth({b, a}, 2) = a
    BY <1>5, <1>8, NthOfTwo, Zenon
  <2> QED BY <1>4, <1>5, <1>6, <2>1, Zenon
<1>9. a < b \/ b < a
  BY <1>4, <1>5
<1> QED BY <1>7, <1>8, <1>9, Zenon

-----------------------------------------------------------------------------
(* The choice                                                              *)

\* With at most two slices to choose from, the fallbacks find the bytes.
LEMMA ChoiceConserves ==
  ASSUME Types, NEW u \in UE, NumSlices(u) <= 3
  PROVE  /\ Choice(u) \in Int
         /\ \/ \E l \in data[u] \cap Looked(u) : Stored(u)[l] = Choice(u)
            \/ \A l \in data[u] \cap Looked(u) : Stored(u)[l] = 0
<1> DEFINE n == Cardinality(Active(u))
           Waiting == data[u] \cap Looked(u)
<1>1. n \in 0..2
  BY ActiveSlices DEF NumSlices
<1>2. \A l \in Waiting : Stored(u)[l] = 0 \/ Stored(u)[l] \in Active(u)
  BY Zenon DEF Active, Looked
<1>3. CASE n = 0
  <2>1. Active(u) = {}
    BY <1>3, ActiveSlices, FS_EmptySet, Zenon
  <2>2. Choice(u) = 0
    BY <1>3 DEF Choice, Avail, NumSlices
  <2> QED BY <2>1, <2>2, <1>2
<1>4. CASE n = 1
  <2>1. Choice(u) = Avail(u, 1)
    BY <1>4 DEF Choice, NumSlices
  <2> QED BY <2>1, <1>2, <1>4, AvailOfOne
<1>5. CASE n = 2
  <2> DEFINE turn == IF Bytes(u, Avail(u, Turn(u))) THEN Turn(u) ELSE 3 - Turn(u)
  <2>1. Choice(u) = Avail(u, turn)
    BY <1>5 DEF Choice, NumSlices
  <2>2. Turn(u) \in {1, 2}
    BY Zenon DEF Turn
  <2>3. CASE Bytes(u, Avail(u, Turn(u)))
    <3>1. \E l \in Waiting : Stored(u)[l] = Choice(u)
      BY <2>1, <2>3, Zenon DEF Bytes
    <3> QED BY <3>1, <2>1, <2>2, <2>3, <1>5, AvailOfTwo
  <2>4. CASE ~Bytes(u, Avail(u, Turn(u)))
    <3>1. Choice(u) = Avail(u, 3 - Turn(u))
      BY <2>1, <2>4, Zenon
    <3>2. Active(u) = {Avail(u, Turn(u)), Choice(u)} /\ Choice(u) \in Nat
      BY <3>1, <2>2, <1>5, AvailOfTwo
    <3>3. \A l \in Waiting : Stored(u)[l] # Avail(u, Turn(u))
      BY <2>4, Zenon DEF Bytes
    <3> QED BY <3>2, <3>3, <1>2
  <2> QED BY <2>3, <2>4, Zenon
<1> QED BY <1>1, <1>3, <1>4, <1>5

-----------------------------------------------------------------------------
(* The steps                                                               *)

LEMMA InvInit == Init => Inv
BY DEF Init, Inv, Types, Refreshed, WorkConserving, NeverFatal, Sid

LEMMA InvPreprocess ==
  ASSUME Inv, Preprocess
  PROVE  Inv'
<1> USE DEF Inv
<1>1. \A u \in UE : sid'[u] = Stored(u) /\ status'[u] = Status(u)
  BY Zenon DEF Preprocess
<1>2. lc' = lc /\ timer' = timer /\ failure' = failure /\ data' = data
  BY Zenon DEF Preprocess, env
<1>3. \A u \in UE : Looked(u)' = Looked(u)
  BY <1>2, Zenon DEF Looked, Configured
<1>4. \A u \in UE : Looked(u) \subseteq Lcids
  BY Zenon DEF Looked, Configured, Lcids
<1>5. Types'
  <2>1. sid' \in [UE -> [Lcids -> Sid]]
    BY StoredType, Zenon DEF Preprocess
  <2>2. status' \in [UE -> SUBSET Lcids]
    BY <1>4, Zenon DEF Preprocess, Status, Types
  <2>3. chosen' \in [UE -> Int]
    <3>1. ASSUME NEW u \in UE, ~(failure[u] \/ NumSlices(u) > 3)
          PROVE  Choice(u) \in Int
      <4>1. NumSlices(u) <= 3
        BY <3>1, ActiveSlices DEF NumSlices
      <4> QED BY <4>1, ChoiceConserves, Zenon
    <3> QED BY <3>1, Zenon DEF Preprocess, Types
  <2> QED BY <1>2, <2>1, <2>2, <2>3, Zenon DEF Types, Preprocess
<1>6. Refreshed'
  <2>1. ASSUME NEW u \in UE, NEW l \in Looked(u) \ {Srb}
        PROVE  Stored(u)[l] = SidOf[lc[u][l]]
    BY <2>1, <1>4, Zenon DEF Stored
  <2> QED BY <2>1, <1>1, <1>2, <1>3 DEF Refreshed
<1>7. WorkConserving'
  <2> SUFFICES ASSUME phase' = "sched", NEW u \in UE, ~failure[u]
               PROVE  \/ \E l \in status'[u] \cap Looked(u) : sid'[u][l] = chosen'[u]
                      \/ \A l \in status'[u] \cap Looked(u) : sid'[u][l] = 0
    BY <1>2, <1>3, Zenon DEF WorkConserving
  <2>1. ~(NumSlices(u) > 3)
    BY Zenon DEF Preprocess
  <2>2. NumSlices(u) <= 3
    BY <2>1, ActiveSlices DEF NumSlices
  <2>3. chosen'[u] = Choice(u)
    BY <2>1, Zenon DEF Preprocess
  <2>4. status'[u] \cap Looked(u) = data[u] \cap Looked(u)
    BY <1>1, Zenon DEF Status
  <2> QED BY <1>1, <2>2, <2>3, <2>4, ChoiceConserves, Zenon
<1>8. NeverFatal'
  <2>1. ASSUME Cardinality(Slices) <= 2, NEW u \in UE
        PROVE  ~(NumSlices(u) > 3)
    BY <2>1, ActiveSlices DEF NumSlices
  <2> QED BY <2>1, Zenon DEF NeverFatal, Preprocess
<1> QED BY <1>5, <1>6, <1>7, <1>8, Zenon

\* The other threads leave alone what the slot works with.
LEMMA InvOthers ==
  ASSUME Inv, NEW u \in UE,
         \/ \E l \in Lcids : Arrive(u, l)
         \/ \E l \in Drbs : Remove(u, l) \/ \E n \in Nssais : Setup(u, l, n)
         \/ RrcTimer(u)
         \/ UlFailure(u)
  PROVE  Inv'
<1>1. CASE \E l \in Lcids : Arrive(u, l)
  <2>1. UNCHANGED <<phase, lc, timer, failure, status, sid, chosen>>
    BY <1>1, Zenon DEF Arrive
  <2>2. \A v \in UE : Looked(v)' = Looked(v)
    BY <2>1, Zenon DEF Looked, Configured
  <2> QED BY <2>1, <2>2, Zenon DEF Inv, Types, Refreshed, WorkConserving, NeverFatal
<1>2. CASE \E l \in Drbs : Remove(u, l)
  <2>1. PICK l \in Drbs : Remove(u, l)
    BY <1>2, Zenon
  <2>2. lc' \in [UE -> [Drbs -> Nssais \cup {None}]]
    BY <2>1, Zenon DEF Remove, Inv, Types
  <2> QED BY <2>1, <2>2, Zenon DEF Remove, Inv, Types, Refreshed, WorkConserving, NeverFatal
<1>3. CASE \E l \in Drbs : \E n \in Nssais : Setup(u, l, n)
  <2>1. PICK l \in Drbs, n \in Nssais : Setup(u, l, n)
    BY <1>3, Zenon
  <2>2. lc' \in [UE -> [Drbs -> Nssais \cup {None}]]
    BY <2>1, Zenon DEF Setup, Inv, Types
  <2> QED BY <2>1, <2>2, Zenon DEF Setup, Inv, Types, Refreshed, WorkConserving, NeverFatal
<1>4. CASE RrcTimer(u)
  BY <1>4, Zenon DEF RrcTimer, Inv, Types, Refreshed, WorkConserving, NeverFatal
<1>5. CASE UlFailure(u)
  BY <1>5, Zenon DEF UlFailure, Inv, Types, Refreshed, WorkConserving, NeverFatal
<1> QED BY <1>1, <1>2, <1>3, <1>4, <1>5, Zenon

LEMMA InvNext == Inv /\ [Next]_vars => Inv'
<1> SUFFICES ASSUME Inv, [Next]_vars PROVE Inv'
  OBVIOUS
<1>1. CASE Preprocess
  BY <1>1, InvPreprocess, Zenon
<1>2. CASE Transmit
  BY <1>2 DEF Transmit, Inv, Types, Refreshed, WorkConserving, NeverFatal
<1>3. CASE UNCHANGED vars
  BY <1>3 DEF vars, env, Inv, Types, Refreshed, WorkConserving, NeverFatal, Looked, Configured
<1> QED BY <1>1, <1>2, <1>3, InvOthers, Zenon DEF Next

-----------------------------------------------------------------------------
(* Theorems                                                                *)

LEMMA Invariance == Spec => []Inv
BY InvInit, InvNext, PTL DEF Spec

\* nr_slice_preprocess never gives a UE an empty slice while one of its
\* configured slices has bytes, however bearers, timers and failures change.
THEOREM ChoiceIsWorkConserving == Spec => []WorkConserving
<1>1. Inv => WorkConserving
  BY Zenon DEF Inv
<1> QED BY <1>1, Invariance, PTL

\* The AssertFatal of nr_slice_preprocess is unreachable with two slices.
THEOREM TwoSlicesSuffice == Spec => []NeverFatal
<1>1. Inv => NeverFatal
  BY Zenon DEF Inv
<1> QED BY <1>1, Invariance, PTL

\* A data bearer is only served in the slice of its NSSAI, but for the DTCH
\* during RRC processing.
THEOREM ServedInOwnSlice == Spec => []OwnSliceOnly
<1>1. Inv => OwnSliceOnly
  BY Zenon DEF Inv, Refreshed, OwnSliceOnly, Allowed, Looked
<1> QED BY <1>1, Invariance, PTL
=============================================================================
