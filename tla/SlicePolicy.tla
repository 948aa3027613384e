---------------------------- MODULE SlicePolicy ----------------------------
(***************************************************************************)
(* The RRM policy of the slices of a gNB: one (min, max, dedicated) ratio   *)
(* triple per slice, installed at start-up by RCconfig_nr_macrlc, rewritten *)
(* by nr_update_slice_policy from the JSON policy file (scheduler thread)   *)
(* and by apply_slicing_ctrl from E2 control messages (E2 agent thread).    *)
(* Nothing serialises the two writers, so each store into a policy field is *)
(* a step of its own, and so is each read of the summing loops.  A gNB runs *)
(* either the reload, which doc/rrmPolicyJson.patch builds in for use       *)
(* "without xApp and near-RT RIC", or the E2 control: variable writer.      *)
(***************************************************************************)
EXTENDS Integers, Sequences, FiniteSets, FiniteSetsExt

CONSTANTS
  SliceNssai,     \* configured S-NSSAIs, a sequence of <<sst, sd>>
  MAX_NUM_SLICE,  \* slots of SL_info.list minus the terminating one
  Writers,        \* who may write the policies: "reload", "control"
  PolicyFiles,    \* contents the policy file may have: sequences of entries
  CtrlMsgs        \* E2 slicing control messages the agent may receive

\* What the JSON parser and the E2 decoder return are ints.
Entry == [sst : Int, sd : Int, min : Int, max : Int, dedi : Int]
Message == [sst : Int, has_sd : BOOLEAN, sd : Int, min : Int, max : Int]

ASSUME PolicyAssumption ==
  /\ MAX_NUM_SLICE \in Nat /\ SliceNssai \in Seq(Int \X Int)
  /\ Len(SliceNssai) <= MAX_NUM_SLICE   \* AssertFatal of RCconfig_nr_macrlc
  /\ Writers \subseteq {"reload", "control"}
  /\ PolicyFiles \subseteq Seq(Entry) /\ CtrlMsgs \subseteq Message

VARIABLES
  writer,   \* the writer this gNB was built for
  policy,   \* policy[s] = spolicy of the slice with sid s
  upd,      \* nr_update_slice_policy: program counter and locals
  ctrl,     \* apply_slicing_ctrl: program counter and locals
  fatal     \* AssertFatal has ended the gNB

vars == <<writer, policy, upd, ctrl, fatal>>

NoSd == 16777215          \* 0xffffff: an S-NSSAI without slice differentiator
Uint8(n) == n % 256
Larger(a, b) == IF a > b THEN a ELSE b

(***************************************************************************)
(* SL_info.list: slice 0 is the default slice (calloc leaves its nssai      *)
(* zero), slice s > 0 is the s-th configured one; the next entry is NULL.   *)
(***************************************************************************)
Sid == 0..Len(SliceNssai)
Nssai(s) == IF s = 0 THEN <<0, 0>> ELSE SliceNssai[s]
\* SL_iterator is at the last slice: the next entry is the NULL one.
AtEnd(s) == s = Len(SliceNssai)
DefaultPolicy == [min |-> 0, max |-> 100, dedi |-> 0]

Ratio == 0..255
Fields == <<"min", "max", "dedi">>     \* order of the three stores

IdleUpd == [pc |-> "idle", file |-> <<>>, e |-> 1, s |-> 0, f |-> 1,
            sum |-> 0, sum_dedi |-> 0]
IdleCtrl == [pc |-> "idle", msg |-> <<>>, s |-> 0, sum |-> 0]

Init ==
  /\ writer \in Writers
  /\ policy = [s \in Sid |-> DefaultPolicy]
  /\ upd = IdleUpd
  /\ ctrl = IdleCtrl
  /\ fatal = FALSE

-----------------------------------------------------------------------------
(* nr_update_slice_policy *)

\* json_object_get_int(NULL) = 0, so an absent "sd" and an "sd" of 0 look alike.
FileNssai(ent) == <<Uint8(ent.sst), IF ent.sd = 0 THEN NoSd ELSE ent.sd>>

\* Faulty variant: the two corrections in the wrong order.
FileRatiosMaxFirst(ent) ==
  LET dedi == Uint8(ent.dedi)
      mx   == Larger(Uint8(ent.max), Uint8(ent.min))
      mn   == Larger(Uint8(ent.min), dedi)
  IN  [min |-> mn, max |-> mx, dedi |-> dedi]

\* The ratios of an entry as they are stored: dedicated <= min <= max is forced.
FileRatios(ent) ==
  LET dedi == Uint8(ent.dedi)
      mn   == Larger(Uint8(ent.min), dedi)
      mx   == Larger(Uint8(ent.max), mn)
  IN  [min |-> mn, max |-> mx, dedi |-> dedi]

\* Faulty variant: a reload that forgets the third store.
NextWriteTwoStores(u) ==
  IF u.f < 2 /\ Nssai(u.s) = FileNssai(u.file[u.e])
  THEN [u EXCEPT !.f = @ + 1]
  ELSE IF ~AtEnd(u.s)
  THEN [u EXCEPT !.f = 1, !.s = @ + 1]
  ELSE IF u.e < Len(u.file)
  THEN [u EXCEPT !.f = 1, !.s = 0, !.e = @ + 1]
  ELSE [u EXCEPT !.f = 1, !.s = 0, !.pc = "sum"]

\* Where the nested loops over entries, slices and the three stores go next.
NextWrite(u) ==
  IF u.f < 3 /\ Nssai(u.s) = FileNssai(u.file[u.e])
  THEN [u EXCEPT !.f = @ + 1]
  ELSE IF ~AtEnd(u.s)
  THEN [u EXCEPT !.f = 1, !.s = @ + 1]
  ELSE IF u.e < Len(u.file)
  THEN [u EXCEPT !.f = 1, !.s = 0, !.e = @ + 1]
  ELSE [u EXCEPT !.f = 1, !.s = 0, !.pc = "sum"]

\* The file is parsed once; a missing or malformed file returns before any
\* store, which leaves this action out, and an empty array goes to the sums.
UpdStart ==
  /\ ~fatal /\ upd.pc = "idle" /\ writer = "reload"
  /\ \E file \in PolicyFiles :
       upd' = [IdleUpd EXCEPT !.pc = IF file = <<>> THEN "sum" ELSE "write",
                              !.file = file]
  /\ UNCHANGED <<writer, policy, ctrl, fatal>>

UpdWrite ==
  /\ ~fatal /\ upd.pc = "write"
  /\ LET ent == upd.file[upd.e]
         fld == Fields[upd.f]
     IN  policy' = IF Nssai(upd.s) = FileNssai(ent)
                   THEN [policy EXCEPT ![upd.s][fld] = FileRatios(ent)[fld]]
                   ELSE policy
  /\ upd' = NextWrite(upd)
  /\ UNCHANGED <<writer, ctrl, fatal>>

Overcommitted(sum, sum_dedi) == sum > 100 \/ sum_dedi > 100

\* The summing loop reads one slice per step, in int.
UpdSum ==
  /\ ~fatal /\ upd.pc = "sum"
  /\ LET sum      == upd.sum + policy[upd.s].min
         sum_dedi == upd.sum_dedi + policy[upd.s].dedi
     IN  upd' = IF ~AtEnd(upd.s)
                THEN [upd EXCEPT !.s = @ + 1, !.sum = sum, !.sum_dedi = sum_dedi]
                ELSE IF Overcommitted(sum, sum_dedi)
                THEN [IdleUpd EXCEPT !.pc = "reset"]
                ELSE IdleUpd
  /\ UNCHANGED <<writer, policy, ctrl, fatal>>

\* Resetting one slice: min (f = 1), then dedicated (f = 2).
UpdReset ==
  /\ ~fatal /\ upd.pc = "reset"
  /\ IF upd.f = 1
     THEN /\ policy' = [policy EXCEPT ![upd.s].min = 0]
          /\ upd' = [upd EXCEPT !.f = 2]
     ELSE /\ policy' = [policy EXCEPT ![upd.s].dedi = 0]
          /\ upd' = IF ~AtEnd(upd.s)
                    THEN [upd EXCEPT !.s = @ + 1, !.f = 1]
                    ELSE IdleUpd
  /\ UNCHANGED <<writer, ctrl, fatal>>

-----------------------------------------------------------------------------
(* apply_slicing_ctrl *)

CtrlNssai(m) == <<Uint8(m.sst), IF m.has_sd THEN m.sd ELSE NoSd>>

CtrlStart ==
  /\ ~fatal /\ ctrl.pc = "idle" /\ writer = "control"
  /\ \E m \in CtrlMsgs : ctrl' = [IdleCtrl EXCEPT !.pc = "min", !.msg = m]
  /\ UNCHANGED <<writer, policy, upd, fatal>>

\* The store into min_ratio of the slice the iterator is at, if it matches.
CtrlMin ==
  /\ ~fatal /\ ctrl.pc = "min"
  /\ policy' = IF Nssai(ctrl.s) = CtrlNssai(ctrl.msg)
               THEN [policy EXCEPT ![ctrl.s].min = Uint8(ctrl.msg.min)]
               ELSE policy
  /\ ctrl' = [ctrl EXCEPT !.pc = "max"]
  /\ UNCHANGED <<writer, upd, fatal>>

\* The store into max_ratio.
CtrlMax ==
  /\ ~fatal /\ ctrl.pc = "max"
  /\ policy' = IF Nssai(ctrl.s) = CtrlNssai(ctrl.msg)
               THEN [policy EXCEPT ![ctrl.s].max = Uint8(ctrl.msg.max)]
               ELSE policy
  /\ ctrl' = [ctrl EXCEPT !.pc = "sum"]
  /\ UNCHANGED <<writer, upd, fatal>>

\* Faulty variants: faulty accumulation and faulty verdict.
NewSumLost(sum, mn) == mn
RejectsAt100(sum) == sum >= 100

NewSum(sum, mn) == Uint8(sum + mn)
Rejects(sum) == sum > 100

\* sum_min_ratio is a uint8_t; after the last slice the sum is judged.
CtrlSum ==
  /\ ~fatal /\ ctrl.pc = "sum"
  /\ LET sum == NewSum(ctrl.sum, policy[ctrl.s].min)
         last == AtEnd(ctrl.s)
     IN  /\ ctrl' = IF last THEN IdleCtrl
                    ELSE [ctrl EXCEPT !.pc = "min", !.s = @ + 1, !.sum = sum]
         /\ fatal' = (last /\ Rejects(sum))
  /\ UNCHANGED <<writer, policy, upd>>

Next ==
  \/ UpdStart \/ UpdWrite \/ UpdSum \/ UpdReset
  \/ CtrlStart \/ CtrlMin \/ CtrlMax \/ CtrlSum

Spec == Init /\ [][Next]_vars

-----------------------------------------------------------------------------
(* Properties *)

\* Every variable stays in its type: a ratio is a uint8_t, an iterator points
\* at a slice of the list, the sums of the reload are ints that cannot overflow.
TypeOK ==
  /\ writer \in Writers
  /\ policy \in [Sid -> [min : Ratio, max : Ratio, dedi : Ratio]]
  /\ upd.pc \in {"idle", "write", "sum", "reset"}
  /\ upd.s \in Sid /\ upd.f \in 1..3
  /\ upd.pc = "write" => upd.file \in PolicyFiles /\ upd.e \in 1..Len(upd.file)
  /\ upd.sum \in 0..(255 * upd.s) /\ upd.sum_dedi \in 0..(255 * upd.s)
  /\ ctrl.pc \in {"idle", "min", "max", "sum"}
  /\ ctrl.pc # "idle" => ctrl.msg \in CtrlMsgs
  /\ ctrl.s \in Sid /\ ctrl.sum \in Ratio
  /\ fatal \in BOOLEAN

\* The percentage points the slices below n have in pol, each as its slice and
\* its number: their count is the sum of the ratios.
Points(pol, field, n) == {p \in Sid \X Ratio : p[1] < n /\ p[2] < pol[p[1]][field]}
SumBelow(pol, field, n) == Cardinality(Points(pol, field, n))
Total(field) == SumBelow(policy, field, Len(SliceNssai) + 1)

Ordered(s) == policy[s].dedi <= policy[s].min /\ policy[s].min <= policy[s].max

\* Between two reloads of nr_update_slice_policy every slice has
\* dedicated <= min <= max, although the file may say otherwise, entries may
\* address a slice twice and the reset to 0 touches only two of the fields.
FileOrdered ==
  writer = "reload" /\ upd.pc = "idle" => \A s \in Sid : Ordered(s)

\* Between two updates of the policy the scheduler never works with guarantees
\* that add up to more than the carrier: nr_update_slice_policy has zeroed an
\* over-committed file as a whole, and apply_slicing_ctrl, which checks only
\* after it has stored, has ended the gNB.
NotOvercommitted ==
  upd.pc = "idle" /\ ctrl.pc = "idle" /\ ~fatal
    => Total("min") <= 100 /\ Total("dedi") <= 100

\* When the entries have been written, a slice the file addresses holds the
\* ratios of the LAST entry that names it, whatever earlier entries stored.
LastEntryWins ==
  upd.pc = "sum" /\ upd.file # <<>> =>
    \A s \in Sid :
      LET hits == {e \in DOMAIN upd.file : FileNssai(upd.file[e]) = Nssai(s)}
      IN  hits # {} => policy[s] = FileRatios(upd.file[Max(hits)])

\* The AssertFatal of apply_slicing_ctrl ends the gNB only when the minimum
\* ratios really add up to more than 100 at that moment.
CtrlFatalIsJustified == [][fatal' => Total("min")' > 100]_vars

=============================================================================
