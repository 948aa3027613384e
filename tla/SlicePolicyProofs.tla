-------------------------- MODULE SlicePolicyProofs --------------------------
(***************************************************************************)
(* The policy of the slices, for every number of slices, every content of   *)
(* the policy file and every control message.                               *)
(***************************************************************************)
EXTENDS SlicePolicy, FiniteSetTheorems, WellFoundedInduction, TLAPS

Triple == [min : Ratio, max : Ratio, dedi : Ratio]
UpdLocals ==
  [pc : {"idle", "write", "sum", "reset"}, file : PolicyFiles \cup {<<>>},
   e : Nat, s : Sid, f : 1..3, sum : Nat, sum_dedi : Nat]
CtrlLocals ==
  [pc : {"idle", "min", "max", "sum"}, msg : CtrlMsgs \cup {<<>>}, s : Sid, sum : Ratio]

\* The types, and the structure of the locals of the two writers, of which
\* only one runs.
Types ==
  /\ writer \in Writers /\ policy \in [Sid -> Triple]
  /\ upd \in UpdLocals /\ ctrl \in CtrlLocals
  /\ writer = "reload" => ctrl = IdleCtrl
  /\ writer = "control" => upd = IdleUpd
  /\ upd.pc = "idle" => upd = IdleUpd
  /\ upd.pc = "write" => upd.file \in PolicyFiles /\ upd.e \in 1..Len(upd.file)
  /\ upd.pc = "reset" => upd.f \in 1..2
  /\ upd.pc = "sum" => upd.f = 1
  /\ upd.pc # "sum" => upd.sum = 0 /\ upd.sum_dedi = 0
  /\ upd.sum <= 255 * upd.s /\ upd.sum_dedi <= 255 * upd.s
  /\ ctrl.pc # "idle" => ctrl.msg \in CtrlMsgs

\* While a slice is written (f > 1) the entry names it and the stores before f
\* are done; every other slice is in order.
OrderInv ==
  writer = "reload" =>
    /\ \A s \in Sid : (s # upd.s \/ upd.f = 1) => Ordered(s)
    /\ upd.pc = "write" /\ upd.f > 1 =>
         /\ Nssai(upd.s) = FileNssai(upd.file[upd.e])
         /\ policy[upd.s].min = FileRatios(upd.file[upd.e]).min
         /\ upd.f = 3 => policy[upd.s].max = FileRatios(upd.file[upd.e]).max
    /\ upd.pc = "reset" /\ upd.f = 2 => policy[upd.s].min = 0

-----------------------------------------------------------------------------
(* Lemmas on the operators *)

\* The slices: there is always the default one.
LEMMA Slices ==
  /\ Len(SliceNssai) \in Nat /\ 0 \in Sid /\ Sid \subseteq Nat
  /\ \A s \in Sid : ~AtEnd(s) => s + 1 \in Sid
BY PolicyAssumption DEF Sid, AtEnd

\* An int stored into a uint8_t.
LEMMA Uint8Range ==
  ASSUME NEW n \in Int PROVE Uint8(n) \in Ratio
BY DEF Uint8, Ratio

\* The larger of two ratios.
LEMMA LargerRatio ==
  ASSUME NEW a \in Ratio, NEW b \in Ratio
  PROVE  Larger(a, b) \in Ratio /\ a <= Larger(a, b) /\ b <= Larger(a, b)
BY DEF Larger, Ratio

\* The sum of the control stays in its uint8_t.
LEMMA NewSumRange ==
  ASSUME NEW a \in Ratio, NEW r \in Ratio
  PROVE  /\ NewSum(a, r) \in Ratio /\ NewSum(a, r) <= a + r
         /\ a + r <= 255 => NewSum(a, r) = a + r
<1>. DEFINE n == a + r
<1>1. n \in Nat
  BY DEF Ratio
<1>. HIDE DEF n
<1>2. n % 256 \in 0..255
  BY <1>1
<1>3. n <= 255 => n % 256 = n
  BY <1>1
<1>4. n % 256 <= n
  BY <1>1, <1>2, <1>3
<1>. QED BY <1>2, <1>3, <1>4 DEF NewSum, Uint8, Ratio, n

\* It stays below any number the sum was below, the new ratio added to both.
LEMMA NewSumBelow ==
  ASSUME NEW a \in Ratio, NEW r \in Ratio, NEW b \in Nat, a <= b
  PROVE  NewSum(a, r) \in Ratio /\ NewSum(a, r) <= b + r
<1>1. NewSum(a, r) \in Ratio /\ NewSum(a, r) <= a + r
  BY NewSumRange
<1>. QED BY <1>1 DEF Ratio

\* A sum that is rejected is above 100, and so is everything above it.
LEMMA RejectsAbove ==
  ASSUME NEW x \in Ratio, NEW b \in Nat, x <= b, Rejects(x) PROVE b > 100
BY DEF Rejects, Ratio

\* One more ratio in a sum.
LEMMA AddRatio ==
  ASSUME NEW a \in Nat, NEW r \in Ratio, NEW n \in Nat, a <= 255 * n
  PROVE  a + r \in Nat /\ a + r <= 255 * (n + 1)
BY DEF Ratio

\* The ratios stored for an entry are uint8_t values in order.
LEMMA RatiosOrdered ==
  ASSUME NEW ent \in Entry
  PROVE  /\ FileRatios(ent) \in Triple
         /\ FileRatios(ent).dedi <= FileRatios(ent).min
         /\ FileRatios(ent).min <= FileRatios(ent).max
<1>. DEFINE dedi == Uint8(ent.dedi)
            mn   == Larger(Uint8(ent.min), dedi)
            mx   == Larger(Uint8(ent.max), mn)
<1>1. dedi \in Ratio /\ Uint8(ent.min) \in Ratio /\ Uint8(ent.max) \in Ratio
  BY Uint8Range DEF Entry
<1>2. mn \in Ratio /\ dedi <= mn
  BY <1>1, LargerRatio
<1>3. mx \in Ratio /\ mn <= mx
  BY <1>1, <1>2, LargerRatio
<1>4. FileRatios(ent) = [min |-> mn, max |-> mx, dedi |-> dedi]
  BY DEF FileRatios
<1>. HIDE DEF dedi, mn, mx
<1>. QED BY <1>1, <1>2, <1>3, <1>4 DEF Triple

\* The entry the reload is at.
LEMMA EntryType ==
  ASSUME Types, upd.pc = "write"
  PROVE  /\ upd.file \in Seq(Entry) /\ upd.e \in 1..Len(upd.file)
         /\ upd.file[upd.e] \in Entry
BY PolicyAssumption DEF Types

-----------------------------------------------------------------------------
(* Types *)

\* A writer at rest.
LEMMA IdleTypes ==
  /\ IdleUpd \in UpdLocals /\ IdleCtrl \in CtrlLocals
  /\ IdleUpd.pc = "idle" /\ IdleUpd.s = 0 /\ IdleUpd.f = 1
  /\ IdleUpd.sum = 0 /\ IdleUpd.sum_dedi = 0
  /\ IdleCtrl.pc = "idle" /\ IdleCtrl.s = 0 /\ IdleCtrl.sum = 0
BY Slices DEF IdleUpd, IdleCtrl, UpdLocals, CtrlLocals, Ratio

\* The locals of the reload at store f of slice s for entry e.
At(pc, e, s, f) ==
  [pc |-> pc, file |-> upd.file, e |-> e, s |-> s, f |-> f, sum |-> 0, sum_dedi |-> 0]
MoreStores == upd.f < 3 /\ Nssai(upd.s) = FileNssai(upd.file[upd.e])

\* Where the reload goes next while it writes: four cases.
LEMMA NextWriteIs ==
  ASSUME Types, upd.pc = "write"
  PROVE  /\ MoreStores => NextWrite(upd) = At("write", upd.e, upd.s, upd.f + 1)
         /\ ~MoreStores /\ ~AtEnd(upd.s)
              => NextWrite(upd) = At("write", upd.e, upd.s + 1, 1)
         /\ ~MoreStores /\ AtEnd(upd.s) /\ upd.e < Len(upd.file)
              => NextWrite(upd) = At("write", upd.e + 1, 0, 1)
         /\ ~MoreStores /\ AtEnd(upd.s) /\ ~(upd.e < Len(upd.file))
              => NextWrite(upd) = At("sum", upd.e, 0, 1)
<1>1. upd \in UpdLocals /\ upd.sum = 0 /\ upd.sum_dedi = 0
  BY DEF Types
<1>2. CASE MoreStores
  <2>1. NextWrite(upd) = [upd EXCEPT !.f = @ + 1]
    BY <1>2 DEF NextWrite, MoreStores
  <2>. QED BY <1>1, <1>2, <2>1 DEF UpdLocals, At
<1>3. CASE ~MoreStores /\ ~AtEnd(upd.s)
  <2>1. NextWrite(upd) = [upd EXCEPT !.f = 1, !.s = @ + 1]
    BY <1>3 DEF NextWrite, MoreStores
  <2>. QED BY <1>1, <1>3, <2>1, Zenon DEF UpdLocals, At
<1>4. CASE ~MoreStores /\ AtEnd(upd.s) /\ upd.e < Len(upd.file)
  <2>1. NextWrite(upd) = [upd EXCEPT !.f = 1, !.s = 0, !.e = @ + 1]
    BY <1>4 DEF NextWrite, MoreStores
  <2>. QED BY <1>1, <1>4, <2>1, Zenon DEF UpdLocals, At
<1>5. CASE ~MoreStores /\ AtEnd(upd.s) /\ ~(upd.e < Len(upd.file))
  <2>1. NextWrite(upd) = [upd EXCEPT !.f = 1, !.s = 0, !.pc = "sum"]
    BY <1>5 DEF NextWrite, MoreStores
  <2>. QED BY <1>1, <1>5, <2>1, Zenon DEF UpdLocals, At
<1>. QED BY <1>2, <1>3, <1>4, <1>5

\* Such a record is one of the locals.
LEMMA AtTypes ==
  ASSUME NEW pc \in {"write", "sum"}, NEW e \in Nat, NEW s \in Sid, NEW f \in 1..3,
         upd.file \in PolicyFiles
  PROVE  /\ At(pc, e, s, f) \in UpdLocals
         /\ At(pc, e, s, f).pc = pc /\ At(pc, e, s, f).file = upd.file
         /\ At(pc, e, s, f).e = e /\ At(pc, e, s, f).s = s /\ At(pc, e, s, f).f = f
         /\ At(pc, e, s, f).sum = 0 /\ At(pc, e, s, f).sum_dedi = 0
BY DEF At, UpdLocals

\* The locals of the reload while it goes from entry to entry.
LEMMA NextWriteTypes ==
  ASSUME Types, upd.pc = "write"
  PROVE  /\ NextWrite(upd) \in UpdLocals
         /\ NextWrite(upd).pc \in {"write", "sum"} /\ NextWrite(upd).file = upd.file
         /\ NextWrite(upd).e \in 1..Len(upd.file)
         /\ NextWrite(upd).pc = "sum" => NextWrite(upd).f = 1
         /\ NextWrite(upd).sum = 0 /\ NextWrite(upd).sum_dedi = 0
<1>1. /\ Len(upd.file) \in Nat /\ upd.e \in 1..Len(upd.file)
      /\ upd.file \in PolicyFiles /\ upd.s \in Sid /\ upd.f \in 1..3
  BY EntryType DEF Types, UpdLocals
<1>2. PICK pc \in {"write", "sum"}, e \in 1..Len(upd.file), s \in Sid, f \in 1..3 :
        NextWrite(upd) = At(pc, e, s, f) /\ (pc = "sum" => f = 1)
  <2>1. MoreStores => upd.f + 1 \in 1..3
    BY <1>1 DEF MoreStores
  <2>2. ~AtEnd(upd.s) => upd.s + 1 \in Sid
    BY <1>1, Slices, Zenon
  <2>3. upd.e < Len(upd.file) => upd.e + 1 \in 1..Len(upd.file)
    BY <1>1
  <2>4. 1 \in 1..3 /\ 0 \in Sid
    BY Slices
  <2>5. CASE MoreStores
    BY <1>1, <2>1, <2>5, NextWriteIs
  <2>6. CASE ~MoreStores /\ ~AtEnd(upd.s)
    BY <1>1, <2>2, <2>4, <2>6, NextWriteIs
  <2>7. CASE ~MoreStores /\ AtEnd(upd.s) /\ upd.e < Len(upd.file)
    BY <1>1, <2>3, <2>4, <2>7, NextWriteIs
  <2>8. CASE ~MoreStores /\ AtEnd(upd.s) /\ ~(upd.e < Len(upd.file))
    BY <1>1, <2>4, <2>8, NextWriteIs
  <2>. QED BY <2>5, <2>6, <2>7, <2>8
<1>. QED BY <1>1, <1>2, AtTypes

LEMMA TypesInit ==
  ASSUME Init PROVE Types
<1>1. policy \in [Sid -> Triple]
  BY DEF Init, DefaultPolicy, Triple, Ratio
<1>. QED BY <1>1, IdleTypes DEF Init, Types

LEMMA UpdStartTypes ==
  ASSUME Types, UpdStart PROVE Types'
<1>1. PICK file \in PolicyFiles :
        upd' = [IdleUpd EXCEPT !.pc = IF file = <<>> THEN "sum" ELSE "write", !.file = file]
  BY Zenon DEF UpdStart
<1>2. file \in Seq(Entry)
  BY PolicyAssumption
<1>3. file # <<>> => 1 \in 1..Len(file)
  BY <1>2
<1>4. upd' \in UpdLocals
  BY <1>1, IdleTypes, Zenon DEF UpdLocals
<1>5. /\ upd'.pc \in {"sum", "write"}
      /\ upd'.pc = "write" => file # <<>>
      /\ upd'.file = file /\ upd'.e = 1 /\ upd'.s = 0 /\ upd'.f = 1
      /\ upd'.sum = 0 /\ upd'.sum_dedi = 0
  BY <1>1 DEF IdleUpd
<1>6. writer # "control" /\ UNCHANGED <<writer, policy, ctrl>>
  BY DEF UpdStart
<1>7. /\ upd'.file \in PolicyFiles
      /\ upd'.pc = "write" => upd'.e \in 1..Len(upd'.file)
  BY <1>3, <1>5
<1>8. upd'.sum <= 255 * upd'.s /\ upd'.sum_dedi <= 255 * upd'.s
  <2>1. 0 <= 255 * 0
    OBVIOUS
  <2>. QED BY <1>5, <2>1, Zenon
<1>9. upd'.f \in 1..2
  <2>1. 1 \in 1..2
    OBVIOUS
  <2>. QED BY <1>5, <2>1, Zenon
<1>. QED BY <1>4, <1>5, <1>6, <1>7, <1>8, <1>9, Zenon DEF Types

LEMMA UpdWriteTypes ==
  ASSUME Types, UpdWrite PROVE Types'
<1>1. upd.pc = "write" /\ upd' = NextWrite(upd) /\ writer' = writer /\ ctrl' = ctrl
  BY DEF UpdWrite
<1>2. policy' \in [Sid -> Triple]
  <2>1. FileRatios(upd.file[upd.e]) \in Triple
    BY <1>1, EntryType, RatiosOrdered
  <2>2. upd.f \in {1, 2, 3} /\ upd.s \in Sid
    BY DEF Types, UpdLocals
  <2>3. Fields[upd.f] \in {"min", "max", "dedi"}
    BY <2>2 DEF Fields
  <2>. QED BY <2>1, <2>2, <2>3 DEF UpdWrite, Types, Triple
<1>3. writer # "control"
  BY <1>1, IdleTypes DEF Types
<1>4. upd' \in UpdLocals
  BY <1>1, NextWriteTypes
<1>5. upd'.s \in Nat
  BY <1>4, Slices, Zenon DEF UpdLocals
<1>. QED BY <1>1, <1>2, <1>3, <1>4, <1>5, NextWriteTypes DEF Types

LEMMA UpdSumTypes ==
  ASSUME Types, UpdSum PROVE Types'
<1>1. /\ upd.pc = "sum" /\ upd \in UpdLocals /\ upd.f = 1 /\ upd.s \in Sid
      /\ upd.sum \in Nat /\ upd.sum_dedi \in Nat
      /\ upd.sum <= 255 * upd.s /\ upd.sum_dedi <= 255 * upd.s
  BY DEF UpdSum, Types, UpdLocals
<1>2. writer # "control" /\ UNCHANGED <<writer, policy, ctrl>>
  BY <1>1, IdleTypes DEF Types, UpdSum
<1>3. CASE ~AtEnd(upd.s)
  <2>1. policy[upd.s].min \in Ratio /\ policy[upd.s].dedi \in Ratio
    BY <1>1 DEF Types, Triple
  <2>. DEFINE sum == upd.sum + policy[upd.s].min
              dedi == upd.sum_dedi + policy[upd.s].dedi
  <2>a. upd.s \in Nat /\ upd.s + 1 \in Sid
    BY <1>1, <1>3, Slices, Zenon
  <2>b. sum \in Nat /\ sum <= 255 * (upd.s + 1)
    BY ONLY <1>1, <2>1, <2>a, AddRatio
  <2>c. dedi \in Nat /\ dedi <= 255 * (upd.s + 1)
    BY ONLY <1>1, <2>1, <2>a, AddRatio
  <2>3. upd' = [upd EXCEPT !.s = @ + 1, !.sum = sum, !.sum_dedi = dedi]
    BY <1>3 DEF UpdSum
  <2>. HIDE DEF sum, dedi
  <2>4. upd' = [pc |-> "sum", file |-> upd.file, e |-> upd.e, s |-> upd.s + 1,
                f |-> 1, sum |-> sum, sum_dedi |-> dedi]
    BY <1>1, <2>3, Zenon DEF UpdLocals
  <2>5. upd' \in UpdLocals
    BY <1>1, <2>a, <2>b, <2>c, <2>4 DEF UpdLocals
  <2>6. /\ upd'.pc = "sum" /\ upd'.f = 1 /\ upd'.s = upd.s + 1
        /\ upd'.sum = sum /\ upd'.sum_dedi = dedi
    BY <2>4
  <2>. QED BY <1>2, <2>b, <2>c, <2>5, <2>6 DEF Types
<1>4. CASE AtEnd(upd.s)
  <2>1. upd' = IdleUpd \/ upd' = [IdleUpd EXCEPT !.pc = "reset"]
    BY <1>4 DEF UpdSum
  <2>2. /\ upd' \in UpdLocals /\ upd'.pc \in {"idle", "reset"}
        /\ upd'.f = 1 /\ upd'.s = 0 /\ upd'.sum = 0 /\ upd'.sum_dedi = 0
    BY <2>1, IdleTypes DEF UpdLocals
  <2>3. upd'.pc = "idle" => upd' = IdleUpd
    BY <2>1, IdleTypes DEF UpdLocals
  <2>. QED BY <1>2, <2>2, <2>3 DEF Types
<1>. QED BY <1>3, <1>4

LEMMA UpdResetTypes ==
  ASSUME Types, UpdReset PROVE Types'
<1>1. /\ upd.pc = "reset" /\ upd \in UpdLocals /\ upd.f \in 1..2 /\ upd.s \in Sid
      /\ upd.sum = 0 /\ upd.sum_dedi = 0
  BY DEF UpdReset, Types, UpdLocals
<1>2. writer # "control" /\ UNCHANGED <<writer, ctrl>>
  BY <1>1, IdleTypes DEF Types, UpdReset
<1>3. policy' \in [Sid -> Triple]
  BY <1>1 DEF UpdReset, Types, Triple, Ratio
<1>4. /\ upd' \in UpdLocals /\ upd'.pc \in {"idle", "reset"}
      /\ upd'.f \in 1..2 /\ upd'.sum = 0 /\ upd'.sum_dedi = 0
      /\ upd'.pc = "idle" => upd' = IdleUpd
  <2>1. CASE upd.f = 1
    <3>1. upd' = [upd EXCEPT !.f = 2]
      BY <2>1 DEF UpdReset
    <3>. QED BY <1>1, <3>1 DEF UpdLocals
  <2>2. CASE upd.f # 1 /\ ~AtEnd(upd.s)
    <3>1. upd' = [upd EXCEPT !.s = @ + 1, !.f = 1]
      BY <2>2 DEF UpdReset
    <3>2. upd' = [pc |-> "reset", file |-> upd.file, e |-> upd.e, s |-> upd.s + 1,
                  f |-> 1, sum |-> 0, sum_dedi |-> 0]
      BY <1>1, <3>1, Zenon DEF UpdLocals
    <3>3. upd.s + 1 \in Sid
      BY <1>1, <2>2, Slices, Zenon
    <3>. QED BY <1>1, <3>2, <3>3 DEF UpdLocals
  <2>3. CASE upd.f # 1 /\ AtEnd(upd.s)
    <3>1. upd' = IdleUpd
      BY <2>3 DEF UpdReset
    <3>. QED BY <3>1, IdleTypes
  <2>. QED BY <2>1, <2>2, <2>3
<1>5. upd'.s \in Nat
  BY <1>4, Slices, Zenon DEF UpdLocals
<1>. QED BY <1>2, <1>3, <1>4, <1>5 DEF Types

\* A control message, from one slice to the next.
LEMMA CtrlTypes ==
  ASSUME Types, CtrlStart \/ CtrlMin \/ CtrlMax \/ CtrlSum PROVE Types'
<1>1. writer # "reload" /\ writer' = writer /\ upd' = upd
  BY IdleTypes, Zenon DEF Types, CtrlStart, CtrlMin, CtrlMax, CtrlSum
<1>2. ctrl \in CtrlLocals /\ ctrl.s \in Sid /\ Uint8(ctrl.s) \in Ratio
  BY Slices, Uint8Range DEF Types, CtrlLocals
<1>3. CASE CtrlStart
  <2>1. PICK m \in CtrlMsgs : ctrl' = [IdleCtrl EXCEPT !.pc = "min", !.msg = m]
    BY <1>3, Zenon DEF CtrlStart
  <2>2. ctrl' \in CtrlLocals /\ ctrl'.msg = m
    BY <2>1, IdleTypes, Zenon DEF CtrlLocals
  <2>3. policy' = policy
    BY <1>3, Zenon DEF CtrlStart
  <2>. QED BY <1>1, <2>2, <2>3, Zenon DEF Types
<1>4. CASE CtrlMin
  <2>1. ctrl.pc = "min" /\ ctrl.msg \in CtrlMsgs /\ ctrl' = [ctrl EXCEPT !.pc = "max"]
    BY <1>4 DEF CtrlMin, Types
  <2>2. Uint8(ctrl.msg.min) \in Ratio
    BY <2>1, Uint8Range, PolicyAssumption DEF Message
  <2>3. policy' \in [Sid -> Triple]
    BY <1>2, <1>4, <2>2 DEF CtrlMin, Types, Triple
  <2>4. ctrl' \in CtrlLocals /\ ctrl'.msg = ctrl.msg
    BY <1>2, <2>1 DEF CtrlLocals
  <2>. QED BY <1>1, <2>1, <2>3, <2>4 DEF Types
<1>5. CASE CtrlMax
  <2>1. ctrl.pc = "max" /\ ctrl.msg \in CtrlMsgs /\ ctrl' = [ctrl EXCEPT !.pc = "sum"]
    BY <1>5 DEF CtrlMax, Types
  <2>2. Uint8(ctrl.msg.max) \in Ratio
    BY <2>1, Uint8Range, PolicyAssumption DEF Message
  <2>3. policy' \in [Sid -> Triple]
    BY <1>2, <1>5, <2>2 DEF CtrlMax, Types, Triple
  <2>4. ctrl' \in CtrlLocals /\ ctrl'.msg = ctrl.msg
    BY <1>2, <2>1 DEF CtrlLocals
  <2>. QED BY <1>1, <2>1, <2>3, <2>4 DEF Types
<1>6. CASE CtrlSum
  <2>. DEFINE sum == NewSum(ctrl.sum, policy[ctrl.s].min)
  <2>1. ctrl.pc = "sum" /\ ctrl.msg \in CtrlMsgs /\ policy' = policy
    BY <1>6 DEF CtrlSum, Types
  <2>2. policy[ctrl.s].min \in Ratio /\ ctrl.sum \in Ratio
    BY <1>2 DEF Types, Triple, CtrlLocals
  <2>3. sum \in Ratio
    BY <2>2, NewSumRange
  <2>4. CASE AtEnd(ctrl.s)
    <3>1. ctrl' = IdleCtrl
      BY <1>6, <2>4 DEF CtrlSum
    <3>. QED BY <1>1, <2>1, <3>1, IdleTypes DEF Types
  <2>5. CASE ~AtEnd(ctrl.s)
    <3>1. ctrl' = [ctrl EXCEPT !.pc = "min", !.s = @ + 1, !.sum = sum]
      BY <1>6, <2>5 DEF CtrlSum
    <3>. HIDE DEF sum
    <3>2. ctrl' = [pc |-> "min", msg |-> ctrl.msg, s |-> ctrl.s + 1, sum |-> sum]
      BY <1>2, <3>1, Zenon DEF CtrlLocals
    <3>3. ctrl' \in CtrlLocals /\ ctrl'.msg = ctrl.msg
      BY <1>2, <2>3, <2>5, <3>2, Slices, Zenon DEF CtrlLocals
    <3>. QED BY <1>1, <2>1, <3>3 DEF Types
  <2>. QED BY <2>4, <2>5
<1>. QED BY <1>3, <1>4, <1>5, <1>6

\* The types are inductive.
LEMMA TypesStep ==
  ASSUME Types, [Next]_vars PROVE Types'
<1>1. CASE UNCHANGED vars
  BY <1>1 DEF Types, vars
<1>. QED
  BY <1>1, UpdStartTypes, UpdWriteTypes, UpdSumTypes, UpdResetTypes, CtrlTypes DEF Next

\* Ratios stay uint8_t values, iterators stay on the list, and the sums of the
\* reload stay below 255 per slice read: no int overflows.
THEOREM PolicyTypes == Spec => []TypeOK
<1>1. Init => Types /\ fatal \in BOOLEAN
  <2>1. Init => fatal \in BOOLEAN
    BY Zenon DEF Init
  <2>. QED BY <2>1, TypesInit
<1>2. (Types /\ fatal \in BOOLEAN) /\ [Next]_vars => (Types /\ fatal \in BOOLEAN)'
  <2>1. ASSUME fatal \in BOOLEAN, [Next]_vars PROVE fatal' \in BOOLEAN
    BY <2>1, Zenon DEF Next, vars, UpdStart, UpdWrite, UpdSum, UpdReset,
       CtrlStart, CtrlMin, CtrlMax, CtrlSum
  <2>. QED BY <2>1, TypesStep
<1>3. Types /\ fatal \in BOOLEAN => TypeOK
  <2>. SUFFICES ASSUME Types, fatal \in BOOLEAN PROVE TypeOK
    OBVIOUS
  <2>1. /\ upd.pc \in {"idle", "write", "sum", "reset"} /\ upd.s \in Sid /\ upd.f \in 1..3
        /\ upd.sum \in Nat /\ upd.sum_dedi \in Nat
    BY DEF Types, UpdLocals
  <2>2. ctrl.pc \in {"idle", "min", "max", "sum"} /\ ctrl.s \in Sid /\ ctrl.sum \in Ratio
    BY DEF Types, CtrlLocals
  <2>3. upd.sum <= 255 * upd.s /\ upd.sum_dedi <= 255 * upd.s /\ upd.s \in Nat
    BY <2>1, Slices, Zenon DEF Types
  <2>4. upd.sum \in 0..(255 * upd.s) /\ upd.sum_dedi \in 0..(255 * upd.s)
    BY <2>1, <2>3
  <2>. QED BY <2>1, <2>2, <2>4, Zenon DEF Types, Triple, TypeOK
<1>. QED BY <1>1, <1>2, <1>3, PTL DEF Spec

-----------------------------------------------------------------------------
(* The reload: order of the ratios *)

\* What one store of the reload does to the policies.
LEMMA StoreEffect ==
  ASSUME Types, UpdWrite
  PROVE  /\ \A s \in Sid : s # upd.s => policy'[s] = policy[s]
         /\ Nssai(upd.s) # FileNssai(upd.file[upd.e]) => policy' = policy
         /\ Nssai(upd.s) = FileNssai(upd.file[upd.e]) =>
              LET new == FileRatios(upd.file[upd.e])
                  old == policy[upd.s]
              IN  /\ upd.f = 1 => policy'[upd.s] = [min |-> new.min, max |-> old.max, dedi |-> old.dedi]
                  /\ upd.f = 2 => policy'[upd.s] = [min |-> old.min, max |-> new.max, dedi |-> old.dedi]
                  /\ upd.f = 3 => policy'[upd.s] = [min |-> old.min, max |-> old.max, dedi |-> new.dedi]
<1>. DEFINE new == FileRatios(upd.file[upd.e])
<1>1. upd.s \in Sid /\ policy \in [Sid -> Triple] /\ upd.f \in 1..3
  BY DEF Types, UpdLocals
<1>2. Nssai(upd.s) # FileNssai(upd.file[upd.e]) => policy' = policy
  BY DEF UpdWrite
<1>3. ASSUME Nssai(upd.s) = FileNssai(upd.file[upd.e])
      PROVE  policy' = [policy EXCEPT ![upd.s][Fields[upd.f]] = new[Fields[upd.f]]]
  BY <1>3 DEF UpdWrite
<1>4. policy[upd.s] \in Triple
  BY <1>1
<1>5. Fields[1] = "min" /\ Fields[2] = "max" /\ Fields[3] = "dedi"
  BY DEF Fields
<1>. HIDE DEF new
<1>6. ASSUME Nssai(upd.s) = FileNssai(upd.file[upd.e]), upd.f = 1
      PROVE  policy'[upd.s] = [min |-> new.min, max |-> policy[upd.s].max, dedi |-> policy[upd.s].dedi]
  BY <1>1, <1>3, <1>4, <1>5, <1>6 DEF Triple
<1>7. ASSUME Nssai(upd.s) = FileNssai(upd.file[upd.e]), upd.f = 2
      PROVE  policy'[upd.s] = [min |-> policy[upd.s].min, max |-> new.max, dedi |-> policy[upd.s].dedi]
  BY <1>1, <1>3, <1>4, <1>5, <1>7 DEF Triple
<1>8. ASSUME Nssai(upd.s) = FileNssai(upd.file[upd.e]), upd.f = 3
      PROVE  policy'[upd.s] = [min |-> policy[upd.s].min, max |-> policy[upd.s].max, dedi |-> new.dedi]
  BY <1>1, <1>3, <1>4, <1>5, <1>8 DEF Triple
<1>9. \A s \in Sid : s # upd.s => policy'[s] = policy[s]
  BY <1>1, <1>2, <1>3
<1>. QED BY <1>2, <1>6, <1>7, <1>8, <1>9 DEF new

\* The order is restored with the third store, whatever stood there before.
LEMMA UpdWriteOrder ==
  ASSUME Types, OrderInv, UpdWrite PROVE OrderInv'
<1>. DEFINE ent == upd.file[upd.e]
            new == FileRatios(ent)
<1>1. /\ upd.pc = "write" /\ upd' = NextWrite(upd) /\ writer' = writer
      /\ upd.s \in Sid /\ upd.f \in 1..3 /\ policy \in [Sid -> Triple]
  BY DEF UpdWrite, Types, UpdLocals
<1>2. writer = "reload"
  BY <1>1, IdleTypes, PolicyAssumption DEF Types
<1>3. new \in Triple /\ new.dedi <= new.min /\ new.min <= new.max
  BY <1>1, EntryType, RatiosOrdered, Zenon
<1>. HIDE DEF new
<1>4. CASE MoreStores
  <2>1. upd' = At("write", upd.e, upd.s, upd.f + 1) /\ upd.f \in 1..2
    BY <1>1, <1>4, NextWriteIs DEF MoreStores
  <2>2. /\ upd'.pc = "write" /\ upd'.e = upd.e /\ upd'.s = upd.s /\ upd'.f = upd.f + 1
        /\ upd'.file = upd.file
    BY <2>1 DEF At
  <2>3. \A s \in Sid : s # upd.s => Ordered(s)'
    BY <1>2, StoreEffect DEF Ordered, OrderInv
  <2>4. Nssai(upd.s) = FileNssai(ent)
    BY <1>4 DEF MoreStores
  <2>5. policy'[upd.s].min = new.min /\ (upd.f = 2 => policy'[upd.s].max = new.max)
    BY <1>1, <1>2, <2>1, <2>4, StoreEffect DEF OrderInv, new
  <2>. QED BY <2>1, <2>2, <2>3, <2>4, <2>5 DEF OrderInv, new
<1>5. CASE ~MoreStores
  <2>1. upd'.f = 1 /\ upd'.pc \in {"write", "sum"}
    BY <1>1, <1>5, NextWriteIs DEF At
  <2>2. ASSUME NEW s \in Sid PROVE Ordered(s)'
    <3>1. CASE s # upd.s \/ Nssai(upd.s) # FileNssai(ent)
      <4>1. policy'[s] = policy[s]
        BY <3>1, StoreEffect
      <4>2. Ordered(s)
        BY <1>1, <1>2, <3>1 DEF OrderInv
      <4>. QED BY <4>1, <4>2 DEF Ordered
    <3>2. CASE s = upd.s /\ Nssai(upd.s) = FileNssai(ent)
      <4>1. upd.f = 3
        BY <1>1, <1>5, <3>2 DEF MoreStores
      <4>2. policy[s].min = new.min /\ policy[s].max = new.max
        BY <1>1, <1>2, <3>2, <4>1 DEF OrderInv, new
      <4>3. policy'[s] = [min |-> policy[s].min, max |-> policy[s].max, dedi |-> new.dedi]
        BY <3>2, <4>1, StoreEffect DEF new
      <4>. QED BY <1>3, <4>2, <4>3 DEF Ordered
    <3>. QED BY <3>1, <3>2
  <2>. QED BY <2>1, <2>2 DEF OrderInv
<1>. QED BY <1>4, <1>5

LEMMA OrderStep ==
  ASSUME Types, OrderInv, [Next]_vars PROVE OrderInv'
<1>1. ASSUME UpdStart PROVE OrderInv'
  <2>1. PICK file \in PolicyFiles :
          upd' = [IdleUpd EXCEPT !.pc = IF file = <<>> THEN "sum" ELSE "write", !.file = file]
    BY <1>1, Zenon DEF UpdStart
  <2>2. upd'.f = 1 /\ upd.f = 1 /\ policy' = policy /\ writer' = writer
    BY <1>1, <2>1, IdleTypes DEF UpdStart, IdleUpd, Types
  <2>3. ~(1 > 1) /\ 1 # 2
    OBVIOUS
  <2>. QED BY <2>2, <2>3, Zenon DEF OrderInv, Ordered
<1>2. ASSUME UpdSum PROVE OrderInv'
  <2>1. upd.f = 1 /\ policy' = policy /\ writer' = writer /\ upd \in UpdLocals
    BY <1>2 DEF UpdSum, Types
  <2>2. upd'.f = 1
    BY <1>2, <2>1 DEF UpdSum, UpdLocals, IdleUpd
  <2>. QED BY <2>1, <2>2 DEF OrderInv, Ordered
<1>3. ASSUME UpdReset PROVE OrderInv'
  <2>1. /\ upd.pc = "reset" /\ upd \in UpdLocals /\ upd.f \in 1..2 /\ upd.s \in Sid
        /\ policy \in [Sid -> Triple] /\ writer' = writer
    BY <1>3 DEF UpdReset, Types, UpdLocals
  <2>2. writer = "reload"
    BY <2>1, IdleTypes, PolicyAssumption DEF Types
  <2>3. \A s \in Sid : policy[s].dedi \in Ratio /\ policy[s].min \in Ratio /\ policy[s].max \in Ratio
    BY <2>1 DEF Triple
  <2>4. CASE upd.f = 1
    <3>1. /\ upd' = [upd EXCEPT !.f = 2]
          /\ policy' = [policy EXCEPT ![upd.s].min = 0]
      BY <1>3, <2>4 DEF UpdReset
    <3>2. upd'.pc = "reset" /\ upd'.f = 2 /\ upd'.s = upd.s
      BY <2>1, <3>1 DEF UpdLocals
    <3>3. policy'[upd.s].min = 0 /\ \A s \in Sid : s # upd.s => policy'[s] = policy[s]
      BY <2>1, <3>1 DEF Triple
    <3>. QED BY <2>2, <3>2, <3>3 DEF OrderInv, Ordered
  <2>5. CASE upd.f = 2
    <3>1. policy' = [policy EXCEPT ![upd.s].dedi = 0]
      BY <1>3, <2>5 DEF UpdReset
    <3>a. upd' = [upd EXCEPT !.s = @ + 1, !.f = 1] \/ upd' = IdleUpd
      BY <1>3, <2>5 DEF UpdReset
    <3>2. upd'.f = 1
      BY <2>1, <3>a, IdleTypes, Zenon DEF UpdLocals
    <3>3. /\ policy'[upd.s].min = policy[upd.s].min /\ policy'[upd.s].dedi = 0
          /\ policy'[upd.s].max = policy[upd.s].max
          /\ \A s \in Sid : s # upd.s => policy'[s] = policy[s]
      BY <2>1, <3>1 DEF Triple
    <3>4. policy[upd.s].min = 0 /\ \A s \in Sid : s # upd.s => Ordered(s)
      BY <2>1, <2>2, <2>5 DEF OrderInv
    <3>6. \A s \in Sid : s # upd.s => Ordered(s)'
      BY <3>3, <3>4 DEF Ordered
    <3>7. \A s \in Sid : Ordered(s)'
      <4>. TAKE s \in Sid
      <4>1. CASE s # upd.s
        BY <4>1, <3>6
      <4>2. CASE s = upd.s
        <5>1. policy'[s].dedi <= policy'[s].min /\ policy'[s].min <= policy'[s].max
          <6>1. policy'[s].dedi = 0 /\ policy'[s].min = 0 /\ policy'[s].max \in Ratio
            BY <2>1, <2>3, <3>3, <3>4, <4>2, Zenon
          <6>. QED BY ONLY <6>1 DEF Ratio
        <5>. QED BY <5>1 DEF Ordered
      <4>. QED BY <4>1, <4>2
    <3>. QED BY <3>2, <3>7 DEF OrderInv
  <2>. QED BY <2>1, <2>4, <2>5
<1>4. ASSUME CtrlStart \/ CtrlMin \/ CtrlMax \/ CtrlSum PROVE OrderInv'
  <2>1. writer # "reload" /\ writer' = writer
    BY <1>4, IdleTypes, Zenon DEF Types, CtrlStart, CtrlMin, CtrlMax, CtrlSum
  <2>. QED BY <2>1 DEF OrderInv
<1>5. CASE UNCHANGED vars
  BY <1>5 DEF OrderInv, Ordered, vars
<1>. QED BY <1>1, <1>2, <1>3, <1>4, <1>5, UpdWriteOrder DEF Next

\* Between two reloads every slice has dedicated <= min <= max, whatever the
\* file says and however often its entries name a slice.
THEOREM OrderedBetweenReloads == Spec => []FileOrdered
<1>1. Init => Types /\ OrderInv
  <2>1. Init => OrderInv
    BY IdleTypes DEF Init, OrderInv, Ordered, DefaultPolicy
  <2>. QED BY <2>1, TypesInit
<1>2. Types /\ OrderInv /\ [Next]_vars => (Types /\ OrderInv)'
  BY TypesStep, OrderStep
<1>3. Types /\ OrderInv => FileOrdered
  BY IdleTypes DEF Types, OrderInv, FileOrdered
<1>. QED BY <1>1, <1>2, <1>3, PTL DEF Spec

-----------------------------------------------------------------------------
(* The reload: the last entry wins *)

Names(file, e, s) == FileNssai(file[e]) = Nssai(s)

\* Slice s holds the ratios of the last of the first n entries that names it.
HoldsLast(pol, file, s, n) ==
  \A e \in 1..n :
    Names(file, e, s) /\ (\A k \in (e + 1)..n : ~Names(file, k, s))
      => pol[s] = FileRatios(file[e])

\* The slices below the iterator have seen the entry being written, the others
\* the ones before it.
LastInv ==
  /\ upd.pc = "write" =>
       \A s \in Sid : s # upd.s \/ upd.f = 1 =>
         HoldsLast(policy, upd.file, s, IF s < upd.s THEN upd.e ELSE upd.e - 1)
  /\ upd.pc = "sum" =>
       \A s \in Sid : HoldsLast(policy, upd.file, s, Len(upd.file))

\* An entry that does not name the slice changes nothing for it.
LEMMA HoldsLastSkip ==
  ASSUME NEW pol, NEW file, NEW s, NEW n \in Nat \ {0},
         HoldsLast(pol, file, s, n - 1), ~Names(file, n, s)
  PROVE  HoldsLast(pol, file, s, n)
<1>. SUFFICES ASSUME NEW e \in 1..n, Names(file, e, s),
                     \A k \in (e + 1)..n : ~Names(file, k, s)
              PROVE  pol[s] = FileRatios(file[e])
  BY DEF HoldsLast
<1>1. e \in 1..(n - 1) /\ \A k \in (e + 1)..(n - 1) : k \in (e + 1)..n
  BY DEF Names
<1>. QED BY <1>1 DEF HoldsLast

\* An entry that names it decides.
LEMMA HoldsLastHit ==
  ASSUME NEW pol, NEW file, NEW s, NEW n \in Nat \ {0},
         Names(file, n, s), pol[s] = FileRatios(file[n])
  PROVE  HoldsLast(pol, file, s, n)
<1>. SUFFICES ASSUME NEW e \in 1..n, Names(file, e, s),
                     \A k \in (e + 1)..n : ~Names(file, k, s)
              PROVE  pol[s] = FileRatios(file[e])
  BY DEF HoldsLast
<1>1. e < n => n \in (e + 1)..n
  OBVIOUS
<1>2. e = n
  BY <1>1
<1>. QED BY <1>2

LEMMA UpdWriteLast ==
  ASSUME Types, OrderInv, LastInv, UpdWrite PROVE LastInv'
<1>. DEFINE ent == upd.file[upd.e]
            new == FileRatios(ent)
            H(s, n) == HoldsLast(policy, upd.file, s, n)
            K(s, n) == HoldsLast(policy', upd.file, s, n)
<1>1. /\ upd.pc = "write" /\ upd' = NextWrite(upd)
      /\ upd.s \in Sid /\ upd.f \in 1..3 /\ policy \in [Sid -> Triple]
      /\ upd.file \in PolicyFiles /\ upd.e \in 1..Len(upd.file) /\ Len(upd.file) \in Nat
  BY EntryType DEF UpdWrite, Types, UpdLocals
<1>0. upd.s \in Nat /\ upd.e \in Nat /\ Sid \subseteq Nat
  <2>1. upd.s \in Sid /\ upd.e \in Nat
    BY DEF Types, UpdLocals
  <2>. QED BY <2>1, Slices, Zenon
<1>2. writer = "reload"
  BY <1>1, IdleTypes, PolicyAssumption DEF Types
<1>3. \A s \in Sid : s # upd.s \/ upd.f = 1 =>
        H(s, IF s < upd.s THEN upd.e ELSE upd.e - 1)
  BY <1>1 DEF LastInv
<1>4. \A s \in Sid : s # upd.s => policy'[s] = policy[s]
  BY StoreEffect
<1>5. \A s \in Sid : s # upd.s => K(s, IF s < upd.s THEN upd.e ELSE upd.e - 1)
  BY <1>3, <1>4 DEF HoldsLast
<1>6. CASE MoreStores
  <2>1. upd' = At("write", upd.e, upd.s, upd.f + 1) /\ upd.f + 1 \in 1..3
    BY <1>1, <1>6, NextWriteIs DEF MoreStores
  <2>2. /\ upd'.pc = "write" /\ upd'.e = upd.e /\ upd'.s = upd.s /\ upd'.f = upd.f + 1
        /\ upd'.file = upd.file
    BY <2>1 DEF At
  <2>3. upd'.f # 1
    BY <1>1, <2>2
  <2>. QED BY <1>5, <2>2, <2>3 DEF LastInv
<1>7. CASE ~MoreStores
  <2>1. K(upd.s, upd.e)
    <3>1. CASE Nssai(upd.s) # FileNssai(ent)
      <4>1. upd.f = 1
        BY <1>1, <1>2, <3>1 DEF OrderInv
      <4>2. H(upd.s, upd.e - 1)
        <5>1. ~(upd.s < upd.s)
          BY <1>0
        <5>. QED BY <1>1, <1>3, <4>1, <5>1
      <4>3. H(upd.s, upd.e)
        BY <1>1, <3>1, <4>2, HoldsLastSkip DEF Names
      <4>4. policy' = policy
        BY <3>1, StoreEffect
      <4>. QED BY <4>3, <4>4
    <3>2. CASE Nssai(upd.s) = FileNssai(ent)
      <4>1. upd.f = 3
        BY <1>1, <1>7, <3>2 DEF MoreStores
      <4>2. policy[upd.s].min = new.min /\ policy[upd.s].max = new.max
        BY <1>1, <1>2, <4>1 DEF OrderInv
      <4>3. policy'[upd.s] = [min |-> new.min, max |-> new.max, dedi |-> new.dedi]
        BY <3>2, <4>1, <4>2, StoreEffect
      <4>4. new \in Triple
        BY <1>1, EntryType, RatiosOrdered
      <4>5. policy'[upd.s] = new
        BY <4>3, <4>4 DEF Triple
      <4>. QED BY <1>1, <3>2, <4>5, HoldsLastHit DEF Names
    <3>. QED BY <3>1, <3>2
  <2>. HIDE DEF H, K
  <2>2. \A s \in Sid : s <= upd.s => K(s, upd.e)
    BY <1>0, <1>5, <2>1
  <2>3. \A s \in Sid : s > upd.s => K(s, upd.e - 1)
    BY <1>0, <1>5
  <2>4. AtEnd(upd.s) => \A s \in Sid : s <= upd.s
    BY DEF AtEnd, Sid
  <2>5. CASE ~AtEnd(upd.s)
    <3>1. upd' = At("write", upd.e, upd.s + 1, 1)
      BY <1>1, <1>7, <2>5, NextWriteIs
    <3>2. upd'.pc = "write" /\ upd'.e = upd.e /\ upd'.s = upd.s + 1 /\ upd'.file = upd.file
      BY <3>1 DEF At
    <3>3. \A s \in Sid : K(s, IF s < upd.s + 1 THEN upd.e ELSE upd.e - 1)
      BY <1>0, <2>2, <2>3
    <3>. QED BY <3>2, <3>3 DEF LastInv, K
  <2>6. CASE AtEnd(upd.s) /\ upd.e < Len(upd.file)
    <3>1. upd' = At("write", upd.e + 1, 0, 1)
      BY <1>1, <1>7, <2>6, NextWriteIs
    <3>2. upd'.pc = "write" /\ upd'.e = upd.e + 1 /\ upd'.s = 0 /\ upd'.file = upd.file
      BY <3>1 DEF At
    <3>3. \A s \in Sid : K(s, upd.e) /\ ~(s < 0)
      BY <1>1, <2>2, <2>4, <2>6, Slices
    <3>4. (upd.e + 1) - 1 = upd.e
      BY <1>1
    <3>5. \A s \in Sid : K(s, IF s < 0 THEN upd.e + 1 ELSE (upd.e + 1) - 1)
      BY <3>3, <3>4
    <3>. QED BY <3>2, <3>5 DEF LastInv, K
  <2>7. CASE AtEnd(upd.s) /\ ~(upd.e < Len(upd.file))
    <3>1. upd' = At("sum", upd.e, 0, 1)
      BY <1>1, <1>7, <2>7, NextWriteIs
    <3>2. upd'.pc = "sum" /\ upd'.file = upd.file
      BY <3>1 DEF At
    <3>3. \A s \in Sid : K(s, Len(upd.file))
      <4>1. upd.e = Len(upd.file)
        BY <1>1, <2>7
      <4>. QED BY <2>2, <2>4, <2>7, <4>1
    <3>. QED BY <3>2, <3>3 DEF LastInv, K
  <2>. QED BY <2>5, <2>6, <2>7
<1>. QED BY <1>6, <1>7

LEMMA LastStep ==
  ASSUME Types, OrderInv, LastInv, [Next]_vars PROVE LastInv'
<1>1. ASSUME UpdStart PROVE LastInv'
  <2>1. PICK file \in PolicyFiles :
          upd' = [IdleUpd EXCEPT !.pc = IF file = <<>> THEN "sum" ELSE "write", !.file = file]
    BY <1>1, Zenon DEF UpdStart
  <2>2. /\ upd'.e = 1 /\ upd'.s = 0 /\ upd'.file = file
        /\ upd'.pc = "sum" => file = <<>>
        /\ upd'.pc \in {"sum", "write"}
    BY <2>1 DEF IdleUpd
  <2>3. \A s \in Sid : ~(s < 0) /\ HoldsLast(policy', file, s, 0)
    BY Slices DEF HoldsLast
  <2>4. file = <<>> => Len(file) = 0
    OBVIOUS
  <2>5. 1 - 1 = 0
    OBVIOUS
  <2>6. \A s \in Sid : HoldsLast(policy', file, s, IF s < 0 THEN 1 ELSE 1 - 1)
    BY <2>3, <2>5
  <2>. QED BY <2>2, <2>3, <2>4, <2>6, Zenon DEF LastInv
<1>2. ASSUME UpdSum PROVE LastInv'
  <2>1. upd.pc = "sum" /\ upd \in UpdLocals /\ policy' = policy
    BY <1>2 DEF UpdSum, Types
  <2>2. CASE ~AtEnd(upd.s)
    <3>1. upd' = [upd EXCEPT !.s = @ + 1, !.sum = upd.sum + policy[upd.s].min,
                             !.sum_dedi = upd.sum_dedi + policy[upd.s].dedi]
      BY <1>2, <2>2 DEF UpdSum
    <3>2. upd'.pc = "sum" /\ upd'.file = upd.file
      BY <2>1, <3>1 DEF UpdLocals
    <3>. QED BY <2>1, <3>2 DEF LastInv
  <2>3. CASE AtEnd(upd.s)
    <3>1. upd' = IdleUpd \/ upd' = [IdleUpd EXCEPT !.pc = "reset"]
      BY <1>2, <2>3 DEF UpdSum
    <3>2. upd'.pc \in {"idle", "reset"}
      BY <3>1 DEF IdleUpd
    <3>. QED BY <3>2 DEF LastInv
  <2>. QED BY <2>2, <2>3
<1>3. ASSUME UpdReset PROVE LastInv'
  <2>1. upd.pc = "reset" /\ upd \in UpdLocals
    BY <1>3 DEF UpdReset, Types
  <2>2. \/ upd' = IdleUpd \/ upd' = [upd EXCEPT !.f = 2]
        \/ upd' = [upd EXCEPT !.s = @ + 1, !.f = 1]
    BY <1>3 DEF UpdReset
  <2>3. upd'.pc \in {"idle", "reset"}
    BY <2>1, <2>2, IdleTypes, Zenon DEF UpdLocals
  <2>. QED BY <2>3 DEF LastInv
<1>4. ASSUME CtrlStart \/ CtrlMin \/ CtrlMax \/ CtrlSum PROVE LastInv'
  <2>1. writer = "control" /\ upd' = upd
    BY <1>4, IdleTypes, PolicyAssumption, Zenon DEF Types, CtrlStart, CtrlMin, CtrlMax, CtrlSum
  <2>2. upd'.pc = "idle"
    BY <2>1, IdleTypes DEF Types
  <2>. QED BY <2>2 DEF LastInv
<1>5. CASE UNCHANGED vars
  BY <1>5 DEF LastInv, vars
<1>. QED BY <1>1, <1>2, <1>3, <1>4, <1>5, UpdWriteLast DEF Next

\* The largest element of a non-empty set of positions.
LEMMA MaxPosition ==
  ASSUME NEW n \in Nat, NEW S \in SUBSET (1..n), S # {}
  PROVE  Max(S) \in S /\ \A k \in S : k <= Max(S)
<1>. DEFINE T == {n - k : k \in S}
<1>1. T \in SUBSET Nat /\ T # {}
  <2>1. \A k \in S : k \in 1..n /\ n - k \in Nat
    OBVIOUS
  <2>. QED BY <2>1, Zenon
<1>2. PICK t \in T : \A y \in T : ~(<<y, t>> \in OpToRel(<, Nat))
  BY <1>1, NatLessThanWellFounded, WFMin, Zenon
<1>3. \A y \in T : t <= y
  <2>. TAKE y \in T
  <2>1. ~(y < t)
    BY <1>1, <1>2, Zenon DEF OpToRel
  <2>. QED BY <1>1, <2>1
<1>4. PICK m \in S : t = n - m
  OBVIOUS
<1>5. \A k \in S : k <= m
  BY <1>3, <1>4
<1>6. \E x \in S : \A y \in S : x >= y
  BY <1>5
<1>. QED BY <1>6 DEF Max

\* When the entries are written, the last one that names a slice has won.
THEOREM LastEntryDecides == Spec => []LastEntryWins
<1>1. Init => Types /\ OrderInv /\ LastInv
  <2>1. Init => OrderInv
    BY IdleTypes DEF Init, OrderInv, Ordered, DefaultPolicy
  <2>2. Init => LastInv
    BY IdleTypes DEF Init, LastInv
  <2>. QED BY <2>1, <2>2, TypesInit
<1>2. Types /\ OrderInv /\ LastInv /\ [Next]_vars => (Types /\ OrderInv /\ LastInv)'
  BY TypesStep, OrderStep, LastStep
<1>3. Types /\ LastInv => LastEntryWins
  <2>. SUFFICES ASSUME Types, LastInv, upd.pc = "sum", upd.file # <<>>, NEW s \in Sid,
                       {e \in DOMAIN upd.file : FileNssai(upd.file[e]) = Nssai(s)} # {}
                PROVE  policy[s] = FileRatios(upd.file[Max(
                         {e \in DOMAIN upd.file : FileNssai(upd.file[e]) = Nssai(s)})])
    BY Zenon DEF LastEntryWins
  <2>. DEFINE hits == {e \in DOMAIN upd.file : FileNssai(upd.file[e]) = Nssai(s)}
              n == Len(upd.file)
  <2>1. upd.file \in Seq(Entry)
    BY PolicyAssumption DEF Types, UpdLocals
  <2>2. n \in Nat /\ hits \in SUBSET (1..n)
    BY <2>1
  <2>3. Max(hits) \in hits /\ \A k \in hits : k <= Max(hits)
    BY <2>2, MaxPosition, Zenon
  <2>4. HoldsLast(policy, upd.file, s, n)
    BY DEF LastInv
  <2>5. \A k \in (Max(hits) + 1)..n : ~Names(upd.file, k, s)
    <3>. SUFFICES ASSUME NEW k \in (Max(hits) + 1)..n, Names(upd.file, k, s) PROVE FALSE
      OBVIOUS
    <3>1. Max(hits) \in 1..n
      BY <2>2, <2>3
    <3>2. k \in 1..n /\ k > Max(hits)
      BY <2>2, <3>1
    <3>3. k \in hits
      BY <2>1, <3>2 DEF Names
    <3>. HIDE DEF hits
    <3>. QED BY <2>2, <2>3, <3>1, <3>2, <3>3
  <2>6. Max(hits) \in 1..n /\ Names(upd.file, Max(hits), s)
    BY <2>2, <2>3 DEF Names
  <2>7. policy[s] = FileRatios(upd.file[Max(hits)])
    <3>. HIDE DEF hits, n
    <3>. QED BY <2>4, <2>5, <2>6 DEF HoldsLast
  <2>. QED BY <2>7
<1>. QED BY <1>1, <1>2, <1>3, PTL DEF Spec

-----------------------------------------------------------------------------
(* Sums of ratios *)

FieldNames == {"min", "max", "dedi"}

\* The points of a field are finitely many.
LEMMA PointsFinite ==
  ASSUME NEW pol, NEW field, NEW n
  PROVE  IsFiniteSet(Points(pol, field, n)) /\ SumBelow(pol, field, n) \in Nat
<1>1. IsFiniteSet(Sid) /\ IsFiniteSet(Ratio)
  <2>1. 0 \in Int /\ 255 \in Int /\ Len(SliceNssai) \in Int
    BY Slices
  <2>. QED BY <2>1, FS_Interval, Zenon DEF Sid, Ratio
<1>2. IsFiniteSet(Sid \X Ratio)
  BY <1>1, FS_Product
<1>3. Points(pol, field, n) \subseteq Sid \X Ratio
  BY DEF Points
<1>. QED BY <1>2, <1>3, FS_Subset, FS_CardinalityType DEF SumBelow

\* No slice is below 0.
LEMMA SumZero ==
  ASSUME NEW pol, NEW field PROVE SumBelow(pol, field, 0) = 0
<1>1. \A s \in Sid : ~(s < 0)
  BY Slices
<1>2. Points(pol, field, 0) = {}
  BY <1>1 DEF Points
<1>. QED BY <1>2, FS_EmptySet DEF SumBelow

\* Ratios of 0 add nothing.
LEMMA SumOfZeros ==
  ASSUME NEW pol, NEW field, NEW n, \A s \in Sid : s < n => pol[s][field] = 0
  PROVE  SumBelow(pol, field, n) = 0
<1>1. \A x \in Ratio : ~(x < 0)
  BY DEF Ratio
<1>2. ASSUME NEW p \in Points(pol, field, n) PROVE FALSE
  <2>1. p[1] \in Sid /\ p[2] \in Ratio /\ p[1] < n /\ p[2] < pol[p[1]][field]
    BY DEF Points
  <2>. QED BY <1>1, <2>1
<1>3. Points(pol, field, n) = {}
  BY <1>2
<1>. QED BY <1>3, FS_EmptySet DEF SumBelow

\* The sum looks only at the slices below n.
LEMMA SumSame ==
  ASSUME NEW p, NEW q, NEW field, NEW n,
         \A s \in Sid : s < n => p[s][field] = q[s][field]
  PROVE  SumBelow(p, field, n) = SumBelow(q, field, n)
<1>1. Points(p, field, n) = Points(q, field, n)
  BY DEF Points
<1>. QED BY <1>1 DEF SumBelow

\* The numbers below a ratio.
LEMMA BelowRatio ==
  ASSUME NEW r \in Ratio
  PROVE  /\ \A x \in Ratio : x < r <=> x \in 0..(r - 1)
         /\ 0..(r - 1) \subseteq Ratio
BY DEF Ratio

\* r points of one slice.
LEMMA PointsOfSlice ==
  ASSUME NEW s, NEW r \in Ratio
  PROVE  IsFiniteSet({s} \X (0..(r - 1))) /\ Cardinality({s} \X (0..(r - 1))) = r
<1>1. IsFiniteSet(0..(r - 1)) /\ Cardinality(0..(r - 1)) = r
  BY FS_Interval DEF Ratio
<1>2. IsFiniteSet({s}) /\ Cardinality({s}) = 1
  BY FS_Singleton
<1>. QED BY <1>1, <1>2, FS_Product DEF Ratio

\* The next slice adds its ratio.
LEMMA SumNext ==
  ASSUME NEW pol \in [Sid -> Triple], NEW field \in FieldNames, NEW n \in Sid
  PROVE  SumBelow(pol, field, n + 1) = SumBelow(pol, field, n) + pol[n][field]
<1>. DEFINE r == pol[n][field]
            A == Points(pol, field, n)
            B == {n} \X (0..(r - 1))
<1>1. r \in Ratio
  BY DEF Triple, FieldNames
<1>2. \A s \in Sid : s < n + 1 <=> s < n \/ s = n
  BY Slices
<1>3. \A x \in Ratio : x < r <=> x \in 0..(r - 1)
  BY <1>1, BelowRatio
<1>4. 0..(r - 1) \subseteq Ratio
  BY <1>1, BelowRatio
<1>5. Points(pol, field, n + 1) = A \cup B
  <2>1. ASSUME NEW p \in Points(pol, field, n + 1) PROVE p \in A \cup B
    <3>1. p \in Sid \X Ratio /\ p[1] < n + 1 /\ p[2] < pol[p[1]][field]
      BY DEF Points
    <3>2. CASE p[1] < n
      BY <3>1, <3>2 DEF Points
    <3>3. CASE p[1] = n
      BY <1>3, <3>1, <3>3
    <3>. QED BY <1>2, <3>1, <3>2, <3>3
  <2>2. A \subseteq Points(pol, field, n + 1)
    BY <1>2 DEF Points
  <2>3. B \subseteq Points(pol, field, n + 1)
    BY <1>2, <1>3, <1>4 DEF Points
  <2>. QED BY <2>1, <2>2, <2>3
<1>6. A \cap B = {}
  BY Slices DEF Points
<1>7. Cardinality(A \cup B) = Cardinality(A) + Cardinality(B) - Cardinality(A \cap B)
  BY <1>1, PointsFinite, PointsOfSlice, FS_Union, Zenon
<1>8. Cardinality(A \cap B) = 0 /\ Cardinality(B) = r
  BY <1>1, <1>6, PointsOfSlice, FS_EmptySet, Zenon
<1>9. /\ SumBelow(pol, field, n + 1) = Cardinality(A \cup B)
      /\ SumBelow(pol, field, n) = Cardinality(A) /\ Cardinality(A) \in Nat
  BY <1>5, PointsFinite, Zenon DEF SumBelow
<1>10. r \in Nat
  BY <1>1 DEF Ratio
<1>. HIDE DEF A, B, r
<1>11. SumBelow(pol, field, n + 1) = SumBelow(pol, field, n) + r
  BY ONLY <1>7, <1>8, <1>9, <1>10
<1>. QED BY <1>11 DEF r

\* Fewer slices have no more points.
LEMMA SumMonotone ==
  ASSUME NEW pol, NEW field, NEW m \in Nat, NEW n \in Nat, m <= n
  PROVE  SumBelow(pol, field, m) <= SumBelow(pol, field, n)
<1>1. \A s \in Sid : s < m => s < n
  BY Slices
<1>2. Points(pol, field, m) \subseteq Points(pol, field, n)
  BY <1>1 DEF Points
<1>3. IsFiniteSet(Points(pol, field, n))
  BY PointsFinite
<1>. HIDE DEF Points
<1>. QED BY <1>2, <1>3, FS_Subset DEF SumBelow

\* A new ratio of one slice adds at most itself.
LEMMA SumChanged ==
  ASSUME NEW p, NEW q, NEW field, NEW n, NEW s \in Sid, q[s][field] \in Ratio,
         \A t \in Sid : t # s => q[t][field] = p[t][field]
  PROVE  SumBelow(q, field, n) <= SumBelow(p, field, n) + q[s][field]
<1>. DEFINE r == q[s][field]
            A == Points(p, field, n)
            B == {s} \X (0..(r - 1))
<1>1. \A x \in Ratio : x < r => x \in 0..(r - 1)
  BY BelowRatio
<1>2. Points(q, field, n) \subseteq A \cup B
  <2>. SUFFICES ASSUME NEW z \in Points(q, field, n) PROVE z \in A \cup B
    OBVIOUS
  <2>1. z \in Sid \X Ratio /\ z[1] < n /\ z[2] < q[z[1]][field]
    BY DEF Points
  <2>2. CASE z[1] = s
    BY <1>1, <2>1, <2>2
  <2>3. CASE z[1] # s
    BY <2>1, <2>3 DEF Points
  <2>. QED BY <2>2, <2>3
<1>3. /\ IsFiniteSet(A \cup B) /\ IsFiniteSet(A \cap B)
      /\ Cardinality(A \cup B) = Cardinality(A) + Cardinality(B) - Cardinality(A \cap B)
  BY PointsFinite, PointsOfSlice, FS_Union, FS_Intersection, Zenon
<1>4. Cardinality(A \cap B) \in Nat /\ Cardinality(B) = r
  BY <1>3, PointsOfSlice, FS_CardinalityType, Zenon
<1>5. Cardinality(Points(q, field, n)) <= Cardinality(A \cup B)
  BY <1>2, <1>3, FS_Subset
<1>6. Cardinality(A) \in Nat /\ Cardinality(Points(q, field, n)) \in Nat
  BY PointsFinite DEF SumBelow
<1>7. r \in Nat
  BY DEF Ratio
<1>. HIDE DEF A, B, r
<1>. QED BY <1>3, <1>4, <1>5, <1>6, <1>7 DEF SumBelow, A, r

-----------------------------------------------------------------------------
(* The reload: no over-commitment *)

\* The sums are those of the slices already read, the slices already reset have
\* no guarantee, and at rest the guarantees fit the carrier.
SumInv ==
  writer = "reload" =>
    /\ upd.pc = "sum" => /\ upd.sum = SumBelow(policy, "min", upd.s)
                         /\ upd.sum_dedi = SumBelow(policy, "dedi", upd.s)
    /\ upd.pc = "reset" =>
         /\ \A s \in Sid : s < upd.s => policy[s].min = 0 /\ policy[s].dedi = 0
         /\ upd.f = 2 => policy[upd.s].min = 0
    /\ upd.pc = "idle" => Total("min") <= 100 /\ Total("dedi") <= 100

\* Every slice is below the end of the list.
LEMMA BelowEnd ==
  ASSUME NEW s \in Sid
  PROVE  s < Len(SliceNssai) + 1 /\ (AtEnd(s) => s + 1 = Len(SliceNssai) + 1)
BY PolicyAssumption DEF Sid, AtEnd

LEMMA UpdSumSums ==
  ASSUME Types, SumInv, UpdSum PROVE SumInv'
<1>. DEFINE sum == upd.sum + policy[upd.s].min
            dedi == upd.sum_dedi + policy[upd.s].dedi
<1>1. /\ upd.pc = "sum" /\ upd \in UpdLocals /\ upd.s \in Sid
      /\ policy \in [Sid -> Triple] /\ policy' = policy /\ writer' = writer
  BY DEF UpdSum, Types, UpdLocals
<1>2. writer = "reload"
  BY <1>1, IdleTypes, PolicyAssumption DEF Types
<1>3. /\ sum = SumBelow(policy, "min", upd.s + 1)
      /\ dedi = SumBelow(policy, "dedi", upd.s + 1)
  <2>1. upd.sum = SumBelow(policy, "min", upd.s) /\ upd.sum_dedi = SumBelow(policy, "dedi", upd.s)
    BY <1>1, <1>2 DEF SumInv
  <2>. QED BY <1>1, <2>1, SumNext DEF FieldNames
<1>4. CASE ~AtEnd(upd.s)
  <2>1. upd' = [upd EXCEPT !.s = @ + 1, !.sum = sum, !.sum_dedi = dedi]
    BY <1>4 DEF UpdSum
  <2>. HIDE DEF sum, dedi
  <2>2. upd'.pc = "sum" /\ upd'.s = upd.s + 1 /\ upd'.sum = sum /\ upd'.sum_dedi = dedi
    BY <1>1, <2>1 DEF UpdLocals
  <2>. QED BY <1>1, <1>3, <2>2 DEF SumInv
<1>5. CASE AtEnd(upd.s)
  <2>1. upd' = IF Overcommitted(sum, dedi) THEN [IdleUpd EXCEPT !.pc = "reset"] ELSE IdleUpd
    BY <1>5 DEF UpdSum
  <2>2. sum = Total("min") /\ dedi = Total("dedi")
    BY <1>1, <1>3, <1>5, BelowEnd DEF Total
  <2>3. Total("min") \in Nat /\ Total("dedi") \in Nat
    BY PointsFinite DEF Total
  <2>. HIDE DEF sum, dedi
  <2>4. CASE Overcommitted(sum, dedi)
    <3>1. upd' = [IdleUpd EXCEPT !.pc = "reset"]
      BY <2>1, <2>4
    <3>2. upd'.pc = "reset" /\ upd'.s = 0 /\ upd'.f = 1
      BY <3>1 DEF IdleUpd
    <3>3. \A s \in Sid : ~(s < 0)
      BY Slices
    <3>. QED BY <3>2, <3>3 DEF SumInv
  <2>5. CASE ~Overcommitted(sum, dedi)
    <3>1. upd' = IdleUpd
      BY <2>1, <2>5
    <3>2. Total("min") <= 100 /\ Total("dedi") <= 100
      BY <2>2, <2>3, <2>5 DEF Overcommitted
    <3>3. Total("min")' = Total("min") /\ Total("dedi")' = Total("dedi")
      BY <1>1 DEF Total
    <3>. QED BY <3>1, <3>2, <3>3, IdleTypes DEF SumInv
  <2>. QED BY <2>4, <2>5
<1>. QED BY <1>4, <1>5

LEMMA UpdResetSums ==
  ASSUME Types, SumInv, UpdReset PROVE SumInv'
<1>1. /\ upd.pc = "reset" /\ upd \in UpdLocals /\ upd.f \in 1..2 /\ upd.s \in Sid
      /\ policy \in [Sid -> Triple] /\ writer' = writer
  BY DEF UpdReset, Types, UpdLocals
<1>2. writer = "reload"
  BY <1>1, IdleTypes, PolicyAssumption DEF Types
<1>3. \A s \in Sid : s < upd.s => policy[s].min = 0 /\ policy[s].dedi = 0
  BY <1>1, <1>2 DEF SumInv
<1>4. upd.s \in Nat /\ Sid \subseteq Nat
  BY <1>1, Slices, Zenon
<1>5. CASE upd.f = 1
  <2>1. /\ upd' = [upd EXCEPT !.f = 2]
        /\ policy' = [policy EXCEPT ![upd.s].min = 0]
    BY <1>5 DEF UpdReset
  <2>2. upd'.pc = "reset" /\ upd'.f = 2 /\ upd'.s = upd.s
    BY <1>1, <2>1 DEF UpdLocals
  <2>3. policy'[upd.s].min = 0 /\ \A s \in Sid : s # upd.s => policy'[s] = policy[s]
    BY <1>1, <2>1 DEF Triple
  <2>4. \A s \in Sid : s < upd.s => s # upd.s
    BY <1>4
  <2>. QED BY <1>3, <2>2, <2>3, <2>4 DEF SumInv
<1>6. CASE upd.f = 2
  <2>1. policy' = [policy EXCEPT ![upd.s].dedi = 0]
    BY <1>6 DEF UpdReset
  <2>2. policy[upd.s].min = 0
    BY <1>1, <1>2, <1>6 DEF SumInv
  <2>3. /\ policy'[upd.s].min = 0 /\ policy'[upd.s].dedi = 0
        /\ \A s \in Sid : s # upd.s => policy'[s] = policy[s]
    BY <1>1, <2>1, <2>2 DEF Triple
  <2>4. \A s \in Sid : s < upd.s + 1 => policy'[s].min = 0 /\ policy'[s].dedi = 0
    BY <1>3, <1>4, <2>3
  <2>5. CASE ~AtEnd(upd.s)
    <3>1. upd' = [upd EXCEPT !.s = @ + 1, !.f = 1]
      BY <1>6, <2>5 DEF UpdReset
    <3>2. upd'.pc = "reset" /\ upd'.f = 1 /\ upd'.s = upd.s + 1
      BY <1>1, <3>1 DEF UpdLocals
    <3>. QED BY <2>4, <3>2 DEF SumInv
  <2>6. CASE AtEnd(upd.s)
    <3>1. upd' = IdleUpd
      BY <1>6, <2>6 DEF UpdReset
    <3>2. upd.s + 1 = Len(SliceNssai) + 1
      BY <1>1, <2>6, BelowEnd
    <3>3. Total("min")' = 0 /\ Total("dedi")' = 0
      BY <2>4, <3>2, SumOfZeros DEF Total
    <3>. QED BY <3>1, <3>3, IdleTypes DEF SumInv
  <2>. QED BY <2>5, <2>6
<1>. QED BY <1>1, <1>5, <1>6

LEMMA SumStep ==
  ASSUME Types, SumInv, [Next]_vars PROVE SumInv'
<1>1. ASSUME UpdStart PROVE SumInv'
  <2>1. PICK file \in PolicyFiles :
          upd' = [IdleUpd EXCEPT !.pc = IF file = <<>> THEN "sum" ELSE "write", !.file = file]
    BY <1>1, Zenon DEF UpdStart
  <2>2. /\ upd'.s = 0 /\ upd'.sum = 0 /\ upd'.sum_dedi = 0
        /\ upd'.pc \in {"sum", "write"}
    BY <2>1 DEF IdleUpd
  <2>. QED BY <2>2, SumZero, Zenon DEF SumInv
<1>2. ASSUME UpdWrite PROVE SumInv'
  <2>1. upd.pc = "write" /\ upd' = NextWrite(upd)
    BY <1>2 DEF UpdWrite
  <2>2. \/ upd'.pc = "write"
        \/ upd'.pc = "sum" /\ upd'.s = 0 /\ upd'.sum = 0 /\ upd'.sum_dedi = 0
    <3>1. (\E e, s, f : upd' = At("write", e, s, f)) \/ upd' = At("sum", upd.e, 0, 1)
      BY <2>1, NextWriteIs
    <3>. QED BY <3>1 DEF At
  <2>. QED BY <2>2, SumZero DEF SumInv
<1>3. ASSUME CtrlStart \/ CtrlMin \/ CtrlMax \/ CtrlSum PROVE SumInv'
  <2>1. writer # "reload" /\ writer' = writer
    BY <1>3, IdleTypes, Zenon DEF Types, CtrlStart, CtrlMin, CtrlMax, CtrlSum
  <2>. QED BY <2>1, Zenon DEF SumInv
<1>4. CASE UNCHANGED vars
  BY <1>4 DEF SumInv, Total, vars
<1>. QED BY <1>1, <1>2, <1>3, <1>4, UpdSumSums, UpdResetSums DEF Next

LEMMA InitSums ==
  ASSUME Init PROVE Total("min") = 0 /\ Total("dedi") = 0
BY SumOfZeros DEF Init, DefaultPolicy, Total

\* A gNB that reads its policy from the file never schedules with guarantees
\* above 100, for any files and any slices.
THEOREM ReloadFitsTheCarrier == Spec => [](writer = "reload" => NotOvercommitted)
<1>1. Init => Types /\ SumInv
  <2>1. Init => SumInv
    <3>1. Init => upd.pc = "idle"
      BY IdleTypes DEF Init
    <3>. QED BY <3>1, InitSums DEF SumInv
  <2>. QED BY <2>1, TypesInit
<1>2. Types /\ SumInv /\ [Next]_vars => (Types /\ SumInv)'
  BY TypesStep, SumStep
<1>3. SumInv => (writer = "reload" => NotOvercommitted)
  BY DEF SumInv, NotOvercommitted
<1>. QED BY <1>1, <1>2, <1>3, PTL DEF Spec

-----------------------------------------------------------------------------
(* The control *)

\* No message sets a dedicated ratio, and the uint8_t sum never exceeds the sum
\* of the minimum ratios of the slices already read.
CtrlInv ==
  writer = "control" =>
    /\ \A s \in Sid : policy[s].dedi = 0
    /\ ctrl.sum <= SumBelow(policy, "min", ctrl.s)

\* What a control step does to the policies: a store into the slice it is at.
LEMMA CtrlEffect ==
  ASSUME Types, CtrlStart \/ CtrlMin \/ CtrlMax \/ CtrlSum
  PROVE  /\ writer = "control" /\ writer' = writer /\ ctrl.s \in Sid
         /\ \A s \in Sid : policy'[s].dedi = policy[s].dedi
         /\ \A s \in Sid : s # ctrl.s => policy'[s] = policy[s]
         /\ CtrlStart \/ CtrlMax \/ CtrlSum
              => \A s \in Sid : policy'[s].min = policy[s].min
         /\ CtrlMin => LET hit == Nssai(ctrl.s) = CtrlNssai(ctrl.msg)
                       IN  policy'[ctrl.s].min = IF hit THEN Uint8(ctrl.msg.min)
                                                 ELSE policy[ctrl.s].min
<1>1. writer = "control" /\ writer' = writer /\ ctrl.s \in Sid /\ policy \in [Sid -> Triple]
  <2>1. ctrl.pc # "idle" \/ writer = "control"
    BY Zenon DEF CtrlStart, CtrlMin, CtrlMax, CtrlSum
  <2>2. writer = "control"
    BY <2>1, IdleTypes, PolicyAssumption, Zenon DEF Types
  <2>3. writer' = writer
    BY Zenon DEF CtrlStart, CtrlMin, CtrlMax, CtrlSum
  <2>. QED BY <2>2, <2>3, Zenon DEF Types, CtrlLocals
<1>2. \A s \in Sid : policy[s] \in Triple
  BY <1>1, Zenon
<1>3. ASSUME CtrlStart \/ CtrlSum PROVE policy' = policy
  BY <1>3, Zenon DEF CtrlStart, CtrlSum
<1>4. ASSUME CtrlMin
      PROVE  \/ policy' = policy /\ Nssai(ctrl.s) # CtrlNssai(ctrl.msg)
             \/ /\ policy' = [policy EXCEPT ![ctrl.s].min = Uint8(ctrl.msg.min)]
                /\ Nssai(ctrl.s) = CtrlNssai(ctrl.msg)
  BY <1>4 DEF CtrlMin
<1>5. ASSUME CtrlMax
      PROVE  policy' = policy \/ policy' = [policy EXCEPT ![ctrl.s].max = Uint8(ctrl.msg.max)]
  BY <1>5 DEF CtrlMax
<1>6. ASSUME CtrlMin
      PROVE  /\ \A s \in Sid : policy'[s].dedi = policy[s].dedi
             /\ \A s \in Sid : s # ctrl.s => policy'[s] = policy[s]
             /\ LET hit == Nssai(ctrl.s) = CtrlNssai(ctrl.msg)
                IN  policy'[ctrl.s].min = IF hit THEN Uint8(ctrl.msg.min)
                                          ELSE policy[ctrl.s].min
  BY <1>1, <1>2, <1>4, <1>6 DEF Triple
<1>7. ASSUME CtrlMax
      PROVE  /\ \A s \in Sid : policy'[s].dedi = policy[s].dedi
             /\ \A s \in Sid : s # ctrl.s => policy'[s] = policy[s]
             /\ \A s \in Sid : policy'[s].min = policy[s].min
  BY <1>1, <1>2, <1>5, <1>7 DEF Triple
<1>. QED BY <1>1, <1>3, <1>6, <1>7

\* Where a control step takes the iterator and the sum.
LEMMA CtrlMoves ==
  ASSUME Types, CtrlStart \/ CtrlMin \/ CtrlMax \/ CtrlSum
  PROVE  /\ CtrlStart => ctrl'.s = 0 /\ ctrl'.sum = 0 /\ ctrl'.pc = "min"
         /\ CtrlMin \/ CtrlMax
              => /\ ctrl'.s = ctrl.s /\ ctrl'.sum = ctrl.sum /\ ctrl'.msg = ctrl.msg
                 /\ ctrl.pc # "idle"
         /\ CtrlMin => ctrl.pc = "min" /\ ctrl'.pc = "max"
         /\ CtrlMax => ctrl.pc = "max" /\ ctrl'.pc = "sum"
         /\ CtrlSum => ctrl.pc = "sum"
         /\ CtrlSum /\ ~AtEnd(ctrl.s) =>
              /\ ctrl'.s = ctrl.s + 1 /\ ctrl'.sum = NewSum(ctrl.sum, policy[ctrl.s].min)
              /\ ctrl'.msg = ctrl.msg /\ ctrl'.pc = "min"
         /\ CtrlSum /\ AtEnd(ctrl.s) => ctrl' = IdleCtrl
<1>1. ctrl \in CtrlLocals
  BY Zenon DEF Types
<1>2. ASSUME CtrlStart PROVE ctrl'.s = 0 /\ ctrl'.sum = 0 /\ ctrl'.pc = "min"
  BY <1>2, Zenon DEF CtrlStart, IdleCtrl
<1>3. ASSUME CtrlMin
      PROVE  /\ ctrl'.s = ctrl.s /\ ctrl'.sum = ctrl.sum /\ ctrl'.msg = ctrl.msg
             /\ ctrl.pc = "min" /\ ctrl'.pc = "max"
  <2>1. ctrl' = [ctrl EXCEPT !.pc = "max"] /\ ctrl.pc = "min"
    BY <1>3 DEF CtrlMin
  <2>. QED BY <1>1, <2>1 DEF CtrlLocals
<1>4. ASSUME CtrlMax
      PROVE  /\ ctrl'.s = ctrl.s /\ ctrl'.sum = ctrl.sum /\ ctrl'.msg = ctrl.msg
             /\ ctrl.pc = "max" /\ ctrl'.pc = "sum"
  <2>1. ctrl' = [ctrl EXCEPT !.pc = "sum"] /\ ctrl.pc = "max"
    BY <1>4 DEF CtrlMax
  <2>. QED BY <1>1, <2>1 DEF CtrlLocals
<1>5. CtrlSum => ctrl.pc = "sum"
  BY DEF CtrlSum
<1>6. ASSUME CtrlSum, ~AtEnd(ctrl.s)
      PROVE  /\ ctrl'.s = ctrl.s + 1 /\ ctrl'.sum = NewSum(ctrl.sum, policy[ctrl.s].min)
             /\ ctrl'.msg = ctrl.msg /\ ctrl'.pc = "min"
  <2>. DEFINE sum == NewSum(ctrl.sum, policy[ctrl.s].min)
  <2>1. ctrl' = [ctrl EXCEPT !.pc = "min", !.s = @ + 1, !.sum = sum]
    BY <1>6 DEF CtrlSum
  <2>. HIDE DEF sum
  <2>2. ctrl'.s = ctrl.s + 1 /\ ctrl'.sum = sum /\ ctrl'.msg = ctrl.msg /\ ctrl'.pc = "min"
    BY <1>1, <2>1 DEF CtrlLocals
  <2>. QED BY <2>2 DEF sum
<1>7. CtrlSum /\ AtEnd(ctrl.s) => ctrl' = IdleCtrl
  BY DEF CtrlSum
<1>. QED BY <1>2, <1>3, <1>4, <1>5, <1>6, <1>7

\* Reading one more slice keeps the sum below the real one.
LEMMA CtrlSumBelow ==
  ASSUME Types, CtrlInv, CtrlSum
  PROVE  /\ NewSum(ctrl.sum, policy[ctrl.s].min) \in Ratio
         /\ NewSum(ctrl.sum, policy[ctrl.s].min) <= SumBelow(policy, "min", ctrl.s + 1)
<1>1. ctrl.s \in Sid /\ writer = "control"
  BY CtrlEffect
<1>2. policy[ctrl.s].min \in Ratio /\ ctrl.sum \in Ratio /\ policy \in [Sid -> Triple]
  BY <1>1 DEF Types, Triple, CtrlLocals
<1>3. SumBelow(policy, "min", ctrl.s + 1) = SumBelow(policy, "min", ctrl.s) + policy[ctrl.s].min
  BY <1>1, <1>2, SumNext DEF FieldNames
<1>4. ctrl.sum <= SumBelow(policy, "min", ctrl.s) /\ SumBelow(policy, "min", ctrl.s) \in Nat
  BY <1>1, PointsFinite DEF CtrlInv
<1>. QED BY <1>2, <1>3, <1>4, NewSumBelow

LEMMA CtrlStep ==
  ASSUME Types, CtrlInv, [Next]_vars PROVE CtrlInv'
<1>1. ASSUME CtrlStart \/ CtrlMin \/ CtrlMax \/ CtrlSum PROVE CtrlInv'
  <2>1. /\ writer = "control" /\ ctrl.s \in Sid
        /\ \A s \in Sid : policy[s].dedi = 0
        /\ ctrl.sum <= SumBelow(policy, "min", ctrl.s)
    BY <1>1, CtrlEffect DEF CtrlInv
  <2>2. \A s \in Sid : policy'[s].dedi = 0
    BY <1>1, <2>1, CtrlEffect
  <2>3. ctrl'.sum <= SumBelow(policy', "min", ctrl'.s)
    <3>1. CASE CtrlStart
      <4>1. ctrl'.sum = 0 /\ ctrl'.s = 0
        BY <1>1, <3>1, CtrlMoves
      <4>. QED BY <4>1, SumZero
    <3>2. CASE CtrlMin \/ CtrlMax
      <4>1. ctrl'.sum = ctrl.sum /\ ctrl'.s = ctrl.s
        BY <1>1, <3>2, CtrlMoves
      <4>2. \A s \in Sid : s < ctrl.s => s # ctrl.s
        BY <2>1, Slices
      <4>3. \A s \in Sid : s < ctrl.s => policy'[s].min = policy[s].min
        BY <1>1, <4>2, CtrlEffect
      <4>4. SumBelow(policy', "min", ctrl.s) = SumBelow(policy, "min", ctrl.s)
        BY <4>3, SumSame
      <4>. QED BY <2>1, <4>1, <4>4
    <3>3. CASE CtrlSum /\ ~AtEnd(ctrl.s)
      <4>1. policy' = policy
        BY <3>3 DEF CtrlSum
      <4>2. ctrl'.s = ctrl.s + 1 /\ ctrl'.sum = NewSum(ctrl.sum, policy[ctrl.s].min)
        BY <1>1, <3>3, CtrlMoves
      <4>. QED BY <3>3, <4>1, <4>2, CtrlSumBelow
    <3>4. CASE CtrlSum /\ AtEnd(ctrl.s)
      <4>1. ctrl'.sum = 0 /\ ctrl'.s = 0
        BY <1>1, <3>4, CtrlMoves, IdleTypes
      <4>. QED BY <4>1, SumZero
    <3>. QED BY <1>1, <3>1, <3>2, <3>3, <3>4
  <2>. QED BY <2>2, <2>3 DEF CtrlInv
<1>2. ASSUME UpdStart \/ UpdWrite \/ UpdSum \/ UpdReset PROVE CtrlInv'
  <2>1. writer # "control" /\ writer' = writer
    BY <1>2, IdleTypes, Zenon DEF Types, UpdStart, UpdWrite, UpdSum, UpdReset
  <2>. QED BY <2>1, Zenon DEF CtrlInv
<1>3. CASE UNCHANGED vars
  BY <1>3 DEF CtrlInv, vars
<1>. QED BY <1>1, <1>2, <1>3 DEF Next

LEMMA CtrlInit ==
  ASSUME Init PROVE CtrlInv
BY IdleTypes, SumZero DEF Init, CtrlInv, DefaultPolicy

\* The AssertFatal of the control fires only when the minimum ratios really add
\* up to more than 100, although the sum may have wrapped on the way.
THEOREM FatalIsJustified == Spec => CtrlFatalIsJustified
<1>1. Init => Types /\ CtrlInv
  BY TypesInit, CtrlInit
<1>2. Types /\ CtrlInv /\ [Next]_vars => (Types /\ CtrlInv)'
  BY TypesStep, CtrlStep
<1>3. ASSUME Types, CtrlInv, [Next]_vars PROVE [fatal' => Total("min")' > 100]_vars
  <2>1. ASSUME CtrlSum, fatal' PROVE Total("min")' > 100
    <3>1. policy' = policy /\ AtEnd(ctrl.s) /\ Rejects(NewSum(ctrl.sum, policy[ctrl.s].min))
      BY <2>1, Zenon DEF CtrlSum
    <3>2. ctrl.s \in Sid
      BY <1>3, <2>1, CtrlEffect
    <3>3. ctrl.s + 1 = Len(SliceNssai) + 1
      BY <3>1, <3>2, BelowEnd
    <3>4. NewSum(ctrl.sum, policy[ctrl.s].min) <= SumBelow(policy, "min", Len(SliceNssai) + 1)
      BY <1>3, <2>1, <3>3, CtrlSumBelow
    <3>7. NewSum(ctrl.sum, policy[ctrl.s].min) \in Ratio
      BY <1>3, <2>1, CtrlSumBelow
    <3>5. SumBelow(policy, "min", Len(SliceNssai) + 1) \in Nat
      BY PointsFinite
    <3>6. SumBelow(policy, "min", Len(SliceNssai) + 1) > 100
      BY <3>1, <3>4, <3>5, <3>7, RejectsAbove, Zenon
    <3>. QED BY <3>1, <3>6 DEF Total
  <2>2. ASSUME Next, ~CtrlSum PROVE ~fatal'
    BY <2>2, Zenon DEF Next, UpdStart, UpdWrite, UpdSum, UpdReset, CtrlStart, CtrlMin, CtrlMax
  <2>. QED BY <1>3, <2>1, <2>2
<1>. QED BY <1>1, <1>2, <1>3, PTL DEF Spec, CtrlFatalIsJustified

-----------------------------------------------------------------------------
(* The control: no over-commitment *)

\* What the operator has to see to: no two slices, the default one included,
\* share their S-NSSAI, and no message carries a minimum ratio above 155, which
\* every percentage satisfies.
DistinctNssais == \A s, t \in Sid : Nssai(s) = Nssai(t) => s = t
ModestMessages == \A m \in CtrlMsgs : Uint8(m.min) <= 155

\* The slice the message names has had its store.
Stored(s) == s < ctrl.s \/ (s = ctrl.s /\ ctrl.pc \in {"max", "sum"})
Hit(s) == Nssai(s) = CtrlNssai(ctrl.msg)

\* A message raises the total at most once, so that the uint8_t sum is exact.
ExactInv ==
  writer = "control" /\ ~fatal =>
    /\ ctrl.pc = "idle" => Total("min") <= 100
    /\ ctrl.pc # "idle" =>
         /\ ctrl.sum = SumBelow(policy, "min", ctrl.s)
         /\ Total("min") <= 255
         /\ Total("min") <= 100 \/ (\E s \in Sid : Stored(s) /\ Hit(s))

\* The total does not change when no minimum ratio does.
LEMMA TotalSame ==
  ASSUME \A s \in Sid : policy'[s].min = policy[s].min
  PROVE  Total("min")' = Total("min")
BY SumSame DEF Total

LEMMA CtrlStartExact ==
  ASSUME Types, ExactInv, CtrlStart PROVE ExactInv'
<1>1. ctrl.pc = "idle" /\ ~fatal /\ writer = "control" /\ policy' = policy
  BY DEF CtrlStart
<1>2. Total("min") <= 100 /\ Total("min")' = Total("min") /\ Total("min") \in Nat
  BY <1>1, PointsFinite DEF ExactInv, Total
<1>3. ctrl'.s = 0 /\ ctrl'.sum = 0 /\ ctrl'.pc = "min"
  BY CtrlMoves
<1>4. Total("min")' <= 100 /\ Total("min")' <= 255
  BY <1>2
<1>. QED BY <1>3, <1>4, SumZero DEF ExactInv

LEMMA CtrlMinExact ==
  ASSUME DistinctNssais, ModestMessages, Types, ExactInv, CtrlMin PROVE ExactInv'
<1>1. /\ ctrl.pc = "min" /\ ~fatal /\ writer = "control" /\ ctrl.s \in Sid
      /\ ctrl.msg \in CtrlMsgs
  <2>1. ctrl.pc = "min" /\ ~fatal
    BY DEF CtrlMin
  <2>. QED BY <2>1, CtrlEffect DEF Types
<1>2. /\ ctrl'.s = ctrl.s /\ ctrl'.sum = ctrl.sum /\ ctrl'.msg = ctrl.msg /\ ctrl'.pc = "max"
  BY CtrlMoves
<1>3. /\ ctrl.sum = SumBelow(policy, "min", ctrl.s)
      /\ Total("min") <= 255
      /\ Total("min") <= 100 \/ (\E s \in Sid : Stored(s) /\ Hit(s))
  BY <1>1 DEF ExactInv
<1>4. SumBelow(policy', "min", ctrl.s) = SumBelow(policy, "min", ctrl.s)
  <2>1. \A s \in Sid : s < ctrl.s => s # ctrl.s
    BY <1>1, Slices
  <2>2. \A s \in Sid : s < ctrl.s => policy'[s].min = policy[s].min
    BY <2>1, CtrlEffect
  <2>. QED BY <2>2, SumSame
<1>5. \A s \in Sid : (Stored(s) => Stored(s)') /\ Hit(s)' = Hit(s)
  BY <1>1, <1>2 DEF Stored, Hit
<1>6. Total("min") \in Nat /\ Total("min")' \in Nat
  BY PointsFinite DEF Total
<1>7. CASE ~Hit(ctrl.s)
  <2>1. \A s \in Sid : policy'[s].min = policy[s].min
    BY <1>1, <1>7, CtrlEffect DEF Hit
  <2>2. Total("min")' = Total("min")
    BY <2>1, TotalSame
  <2>. QED BY <1>2, <1>3, <1>4, <1>5, <2>2 DEF ExactInv
<1>8. CASE Hit(ctrl.s)
  <2>1. \A s \in Sid : Stored(s) => ~Hit(s)
    <3>. SUFFICES ASSUME NEW s \in Sid, Stored(s), Hit(s) PROVE FALSE
      OBVIOUS
    <3>1. s = ctrl.s
      BY <1>1, <1>8 DEF Hit, DistinctNssais
    <3>a. ctrl.s \in Nat
      BY <1>1, Slices, Zenon
    <3>2. ~(ctrl.s < ctrl.s)
      BY <3>a
    <3>. QED BY <1>1, <3>1, <3>2 DEF Stored
  <2>2. Total("min") <= 100
    BY <1>3, <2>1
  <2>3. policy'[ctrl.s].min = Uint8(ctrl.msg.min)
    BY <1>8, CtrlEffect DEF Hit
  <2>4. Uint8(ctrl.msg.min) \in Ratio /\ Uint8(ctrl.msg.min) <= 155
    BY <1>1, Uint8Range, PolicyAssumption DEF Message, ModestMessages
  <2>5. \A s \in Sid : s # ctrl.s => policy'[s].min = policy[s].min
    BY CtrlEffect
  <2>6. Total("min")' <= Total("min") + Uint8(ctrl.msg.min)
    <3>1. SumBelow(policy', "min", Len(SliceNssai) + 1)
            <= SumBelow(policy, "min", Len(SliceNssai) + 1) + policy'[ctrl.s].min
      BY <1>1, <2>3, <2>4, <2>5, SumChanged
    <3>. QED BY <2>3, <3>1, Zenon DEF Total
  <2>7. Total("min")' <= 255
    BY <1>6, <2>2, <2>4, <2>6 DEF Ratio
  <2>8. Stored(ctrl.s)' /\ Hit(ctrl.s)'
    BY <1>2, <1>8 DEF Stored, Hit
  <2>9. \E s \in Sid : Stored(s)' /\ Hit(s)'
    BY <1>1, <1>2, <1>8 DEF Stored, Hit
  <2>. QED BY <1>2, <1>3, <1>4, <2>7, <2>9 DEF ExactInv
<1>. QED BY <1>7, <1>8

LEMMA CtrlMaxExact ==
  ASSUME Types, ExactInv, CtrlMax PROVE ExactInv'
<1>1. ctrl.pc = "max" /\ ~fatal /\ writer = "control"
  <2>1. ctrl.pc = "max" /\ ~fatal
    BY DEF CtrlMax
  <2>. QED BY <2>1, CtrlEffect
<1>2. ctrl'.s = ctrl.s /\ ctrl'.sum = ctrl.sum /\ ctrl'.msg = ctrl.msg /\ ctrl'.pc = "sum"
  BY CtrlMoves
<1>3. /\ ctrl.sum = SumBelow(policy, "min", ctrl.s)
      /\ Total("min") <= 255
      /\ Total("min") <= 100 \/ (\E s \in Sid : Stored(s) /\ Hit(s))
  BY <1>1 DEF ExactInv
<1>4. \A s \in Sid : policy'[s].min = policy[s].min
  BY CtrlEffect
<1>5. /\ Total("min")' = Total("min")
      /\ SumBelow(policy', "min", ctrl.s) = SumBelow(policy, "min", ctrl.s)
  BY <1>4, TotalSame, SumSame
<1>6. \A s \in Sid : (Stored(s) => Stored(s)') /\ Hit(s)' = Hit(s)
  BY <1>1, <1>2 DEF Stored, Hit
<1>. QED BY <1>2, <1>3, <1>5, <1>6 DEF ExactInv

LEMMA CtrlSumExact ==
  ASSUME Types, ExactInv, CtrlSum PROVE ExactInv'
<1>. DEFINE r == policy[ctrl.s].min
            sum == NewSum(ctrl.sum, r)
<1>1. ctrl.pc = "sum" /\ ~fatal /\ writer = "control" /\ ctrl.s \in Sid /\ policy' = policy
  <2>1. ctrl.pc = "sum" /\ ~fatal /\ policy' = policy
    BY DEF CtrlSum
  <2>. QED BY <2>1, CtrlEffect
<1>2. /\ ctrl.sum = SumBelow(policy, "min", ctrl.s)
      /\ Total("min") <= 255
      /\ Total("min") <= 100 \/ (\E s \in Sid : Stored(s) /\ Hit(s))
  BY <1>1 DEF ExactInv
<1>3. r \in Ratio /\ ctrl.sum \in Ratio /\ policy \in [Sid -> Triple]
  BY <1>1 DEF Types, Triple, CtrlLocals
<1>10. r \in Nat /\ ctrl.sum \in Nat /\ ctrl.s \in Nat /\ Sid \subseteq Nat
  <2>1. Ratio \subseteq Nat
    BY DEF Ratio
  <2>. QED BY <1>1, <1>3, <2>1, Slices, Zenon
<1>4. SumBelow(policy, "min", ctrl.s + 1) = ctrl.sum + r
  BY <1>1, <1>2, <1>3, SumNext DEF FieldNames
<1>5. SumBelow(policy, "min", ctrl.s + 1) <= Total("min")
  <2>1. ctrl.s + 1 \in Nat /\ Len(SliceNssai) + 1 \in Nat /\ ctrl.s + 1 <= Len(SliceNssai) + 1
    BY <1>1, PolicyAssumption DEF Sid
  <2>. QED BY <2>1, SumMonotone DEF Total
<1>6. Total("min") \in Nat /\ Total("min")' = Total("min")
  BY <1>1, PointsFinite DEF Total
<1>7. sum = SumBelow(policy, "min", ctrl.s + 1)
  <2>1. ctrl.sum + r <= 255
    <3>. HIDE DEF r
    <3>. QED BY <1>2, <1>4, <1>5, <1>6, <1>10
  <2>. QED BY <1>3, <1>4, <2>1, NewSumRange
<1>8. CASE ~AtEnd(ctrl.s)
  <2>1. ctrl'.s = ctrl.s + 1 /\ ctrl'.sum = sum /\ ctrl'.msg = ctrl.msg /\ ctrl'.pc = "min"
    BY <1>8, CtrlMoves
  <2>2. \A s \in Sid : Stored(s) => s < ctrl.s + 1
    <3>1. \A s \in Nat : s < ctrl.s \/ s = ctrl.s => s < ctrl.s + 1
      BY <1>10
    <3>. QED BY <1>10, <3>1, Zenon DEF Stored
  <2>3. \A s \in Sid : (Stored(s) => Stored(s)') /\ Hit(s)' = Hit(s)
    BY <2>1, <2>2 DEF Stored, Hit
  <2>. HIDE DEF sum
  <2>. QED BY <1>1, <1>2, <1>6, <1>7, <2>1, <2>3 DEF ExactInv
<1>9. CASE AtEnd(ctrl.s)
  <2>1. ctrl' = IdleCtrl /\ (~fatal' => ~Rejects(sum))
    BY <1>9, Zenon DEF CtrlSum
  <2>2. sum = Total("min")
    BY <1>1, <1>7, <1>9, BelowEnd DEF Total
  <2>. HIDE DEF sum
  <2>3. ~fatal' => Total("min")' <= 100
    BY <1>6, <2>1, <2>2 DEF Rejects
  <2>4. ctrl'.pc = "idle"
    BY <2>1, IdleTypes
  <2>. QED BY <2>3, <2>4 DEF ExactInv
<1>. QED BY <1>8, <1>9

LEMMA ExactStep ==
  ASSUME DistinctNssais, ModestMessages, Types, ExactInv, [Next]_vars PROVE ExactInv'
<1>1. ASSUME UpdStart \/ UpdWrite \/ UpdSum \/ UpdReset PROVE ExactInv'
  <2>1. writer # "control" /\ writer' = writer
    BY <1>1, IdleTypes, Zenon DEF Types, UpdStart, UpdWrite, UpdSum, UpdReset
  <2>. QED BY <2>1, Zenon DEF ExactInv
<1>2. CASE UNCHANGED vars
  BY <1>2 DEF ExactInv, Total, Stored, Hit, vars
<1>. QED
  BY <1>1, <1>2, CtrlStartExact, CtrlMinExact, CtrlMaxExact, CtrlSumExact DEF Next

\* With either writer the scheduler never works with guarantees above 100
\* between two updates, as long as S-NSSAIs are distinct and the messages carry
\* ratios that cannot make the uint8_t sum of the control wrap.
THEOREM GuaranteesFitTheCarrier ==
  ASSUME DistinctNssais, ModestMessages
  PROVE  Spec => []NotOvercommitted
<1>. DEFINE Inv == Types /\ SumInv /\ CtrlInv /\ ExactInv
<1>1. Init => Inv
  <2>1. Init => upd.pc = "idle" /\ ctrl.pc = "idle"
    BY IdleTypes DEF Init
  <2>2. Init => SumInv
    BY <2>1, InitSums DEF SumInv
  <2>3. Init => ExactInv
    BY <2>1, InitSums DEF ExactInv
  <2>. QED BY <2>2, <2>3, TypesInit, CtrlInit
<1>2. Inv /\ [Next]_vars => Inv'
  BY TypesStep, SumStep, CtrlStep, ExactStep
<1>3. Inv => NotOvercommitted
  <2>. SUFFICES ASSUME Inv, upd.pc = "idle", ctrl.pc = "idle", ~fatal
                PROVE  Total("min") <= 100 /\ Total("dedi") <= 100
    BY DEF NotOvercommitted
  <2>1. CASE writer = "reload"
    BY <2>1 DEF SumInv
  <2>2. CASE writer = "control"
    <3>1. Total("min") <= 100
      BY <2>2 DEF ExactInv
    <3>2. \A s \in Sid : policy[s].dedi = 0
      BY <2>2 DEF CtrlInv
    <3>3. Total("dedi") = 0
      BY <3>2, SumOfZeros DEF Total
    <3>. QED BY <3>1, <3>3
  <2>. QED BY <2>1, <2>2, PolicyAssumption DEF Types
<1>. HIDE DEF Inv
<1>. QED BY <1>1, <1>2, <1>3, PTL DEF Spec

=============================================================================
