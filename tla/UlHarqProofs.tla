---------------------------- MODULE UlHarqProofs ----------------------------
(***************************************************************************)
(* The three lists of uplink HARQ processes partition the processes, for   *)
(* every number of processes and rounds, with any number of lost reports   *)
(* and random accesses in between; and without these the account of the    *)
(* scheduled bytes is exact.                                               *)
(***************************************************************************)
EXTENDS UlHarq, SequenceTheorems, FiniteSetTheorems, TLAPS

\* The parts of ListsAgree list by list, which is what the actions work on.
Apart ==
  /\ IsInjective(available) /\ IsInjective(feedback) /\ IsInjective(retrans)
  /\ Range(available) \cap Range(feedback) = {}
  /\ Range(available) \cap Range(retrans) = {}
  /\ Range(feedback) \cap Range(retrans) = {}
  /\ Range(available) \cup Range(feedback) \cup Range(retrans) = Pids
Marked ==
  \A p \in Pids : /\ is_waiting[p] <=> p \in Range(feedback)
                  /\ p \in Range(available) => round[p] = 0
                  /\ p \in Range(retrans) => round[p] > 0
ListInv == TypeOK /\ Apart /\ Marked

\* TypeOK in two parts: the lists with what they are about, and the rest.
ProcTypes ==
  /\ available \in Seq(Pids) /\ feedback \in Seq(Pids) /\ retrans \in Seq(Pids)
  /\ round \in [Pids -> 0..(RoundMax - 1)] /\ is_waiting \in [Pids -> BOOLEAN]
RestTypes ==
  /\ tb_size \in [Pids -> TbSizes \cup {0}]
  /\ sched_ul_bytes \in Nat /\ estimated_ul_buffer \in 0..MaxBuf
  /\ SR \in BOOLEAN /\ inactive \in BOOLEAN /\ dtx \in Nat
  /\ ul_failure \in BOOLEAN /\ Msg4_ACKed \in BOOLEAN
  /\ air \in Seq(Pids) /\ pc \in {"idle", "between", "harq"}
  /\ crc \in [pid : Pids, ok : BOOLEAN]
  /\ silent \in BOOLEAN /\ lost \in 0..MaxLost /\ ras \in 0..MaxRa /\ clean \in BOOLEAN

\* What the lists are to keep.
Sorted == ProcTypes /\ Apart /\ Marked

-----------------------------------------------------------------------------
(* Lemmas on lists *)

\* The elements of a concatenation are those of its parts, and none is repeated
\* exactly if none is in a part or in two.
LEMMA ConcatParts ==
  ASSUME NEW S, NEW s \in Seq(S), NEW t \in Seq(S)
  PROVE  /\ Range(s \o t) = Range(s) \cup Range(t)
         /\ IsInjective(s \o t) <=>
              IsInjective(s) /\ IsInjective(t) /\ Range(s) \cap Range(t) = {}
<1>. DEFINE c == s \o t
            m == Len(s)
            n == Len(t)
<1>1. /\ m \in Nat /\ n \in Nat /\ DOMAIN s = 1..m /\ DOMAIN t = 1..n
      /\ DOMAIN c = 1..(m + n)
  BY LenProperties, ConcatProperties
<1>2. /\ \A k \in 1..m : c[k] = s[k]
      /\ \A k \in 1..n : c[m + k] = t[k]
  BY <1>1, ConcatProperties
<1>3. \A k \in 1..(m + n) : k \in 1..m \/ \E l \in 1..n : k = m + l
  <2>. SUFFICES ASSUME NEW k \in 1..(m + n), k \notin 1..m
                PROVE  \E l \in 1..n : k = m + l
    OBVIOUS
  <2>1. k - m \in 1..n /\ k = m + (k - m)
    BY <1>1
  <2>. QED BY <2>1, Zenon
<1>4. \A k \in 1..n : m + k \in 1..(m + n) /\ m + k \notin 1..m
  BY <1>1
<1>5. \A k \in 1..m : k \in 1..(m + n)
  BY <1>1
<1>6. \A k, l \in 1..n : m + k = m + l => k = l
  BY <1>1
<1>. HIDE DEF c, m, n
<1>7. Range(c) = Range(s) \cup Range(t)
  <2>1. ASSUME NEW k \in 1..(m + n) PROVE c[k] \in Range(s) \cup Range(t)
    <3>1. CASE k \in 1..m
      BY <3>1, <1>1, <1>2, Zenon DEF Range
    <3>2. ASSUME NEW l \in 1..n, k = m + l PROVE c[k] \in Range(t)
      BY <3>2, <1>1, <1>2, Zenon DEF Range
    <3>. QED BY <3>1, <3>2, <1>3, Zenon
  <2>2. Range(s) \subseteq Range(c)
    BY <1>1, <1>2, <1>5, Zenon DEF Range
  <2>3. Range(t) \subseteq Range(c)
    BY <1>1, <1>2, <1>4, Zenon DEF Range
  <2>4. Range(c) \subseteq Range(s) \cup Range(t)
    BY <2>1, <1>1, Zenon DEF Range
  <2>. QED BY <2>2, <2>3, <2>4, Zenon
<1>8. ASSUME IsInjective(c)
      PROVE  IsInjective(s) /\ IsInjective(t) /\ Range(s) \cap Range(t) = {}
  <2>1. IsInjective(s)
    BY <1>1, <1>2, <1>5, <1>8, Zenon DEF IsInjective
  <2>2. IsInjective(t)
    <3>. SUFFICES ASSUME NEW k \in 1..n, NEW l \in 1..n, t[k] = t[l] PROVE k = l
      BY <1>1, Zenon DEF IsInjective
    <3>1. m + k \in DOMAIN c /\ m + l \in DOMAIN c /\ c[m + k] = c[m + l]
      BY <1>1, <1>2, <1>4, Zenon
    <3>2. m + k = m + l
      BY <3>1, <1>8, Zenon DEF IsInjective
    <3>. QED BY <3>2, <1>6, Zenon
  <2>3. \A k \in 1..m, l \in 1..n : s[k] # t[l]
    BY <1>1, <1>2, <1>4, <1>5, <1>8, Zenon DEF IsInjective
  <2>4. Range(s) \cap Range(t) = {}
    BY <2>3, <1>1, Zenon DEF Range
  <2>. QED BY <2>1, <2>2, <2>4, Zenon
<1>9. ASSUME IsInjective(s), IsInjective(t), Range(s) \cap Range(t) = {}
      PROVE  IsInjective(c)
  <2>1. \A k \in 1..m, l \in 1..n : s[k] # t[l]
    BY <1>1, <1>9, Zenon DEF Range
  <2>. SUFFICES ASSUME NEW a \in 1..(m + n), NEW b \in 1..(m + n), c[a] = c[b]
                PROVE  a = b
    BY <1>1, Zenon DEF IsInjective
  <2>2. CASE a \in 1..m /\ b \in 1..m
    BY <2>2, <1>1, <1>2, <1>9, Zenon DEF IsInjective
  <2>3. CASE a \notin 1..m /\ b \notin 1..m
    <3>1. PICK k \in 1..n, l \in 1..n : a = m + k /\ b = m + l
      BY <2>3, <1>3, Zenon
    <3>2. t[k] = t[l]
      BY <3>1, <1>2, Zenon
    <3>3. k = l
      BY <3>2, <1>1, <1>9, Zenon DEF IsInjective
    <3>. QED BY <3>1, <3>3, Zenon
  <2>4. CASE a \in 1..m /\ b \notin 1..m
    BY <2>4, <2>1, <1>2, <1>3
  <2>5. CASE a \notin 1..m /\ b \in 1..m
    BY <2>5, <2>1, <1>2, <1>3
  <2>. QED BY <2>2, <2>3, <2>4, <2>5, Zenon
<1>. QED BY <1>7, <1>8, <1>9, Zenon DEF c

\* Taking the head off a list without repetitions takes one element out of it.
LEMMA TailRemoves ==
  ASSUME NEW S, NEW s \in Seq(S), s # <<>>, IsInjective(s)
  PROVE  /\ Head(s) \in S /\ Head(s) \in Range(s)
         /\ Tail(s) \in Seq(S) /\ IsInjective(Tail(s))
         /\ Range(Tail(s)) = Range(s) \ {Head(s)}
<1>. DEFINE t == Tail(s)
            n == Len(s)
<1>1. /\ Head(s) \in S /\ t \in Seq(S) /\ n \in Nat \ {0} /\ Head(s) = s[1]
      /\ DOMAIN s = 1..n /\ DOMAIN t = 1..(n - 1)
      /\ \A k \in 1..(n - 1) : t[k] = s[k + 1]
  BY HeadTailProperties, LenProperties, EmptySeq
<1>. HIDE DEF t, n
<1>2. 1 \in 1..n /\ \A k \in 1..(n - 1) : k + 1 \in 1..n /\ k + 1 # 1
  BY <1>1
<1>3. \A k \in 1..n : k = 1 \/ \E l \in 1..(n - 1) : k = l + 1
  <2>. SUFFICES ASSUME NEW k \in 1..n, k # 1 PROVE \E l \in 1..(n - 1) : k = l + 1
    OBVIOUS
  <2>1. k - 1 \in 1..(n - 1) /\ k = (k - 1) + 1
    BY <1>1
  <2>. QED BY <2>1, Zenon
<1>4. \A k, l \in 1..(n - 1) : k + 1 = l + 1 => k = l
  BY <1>1
<1>5. IsInjective(t)
  <2>. SUFFICES ASSUME NEW k \in 1..(n - 1), NEW l \in 1..(n - 1), t[k] = t[l]
                PROVE  k = l
    BY <1>1, Zenon DEF IsInjective
  <2>1. s[k + 1] = s[l + 1] /\ k + 1 \in DOMAIN s /\ l + 1 \in DOMAIN s
    BY <1>1, <1>2, Zenon
  <2>2. k + 1 = l + 1
    BY <2>1, Zenon DEF IsInjective
  <2>. QED BY <2>2, <1>4, Zenon
<1>6. Head(s) \in Range(s)
  BY <1>1, <1>2, Zenon DEF Range
<1>7. Range(t) = Range(s) \ {Head(s)}
  <2>1. Range(t) \subseteq Range(s) \ {Head(s)}
    <3>1. \A k \in 1..(n - 1) : t[k] = s[k + 1] /\ s[k + 1] # s[1]
      BY <1>1, <1>2, Zenon DEF IsInjective
    <3>2. \A k \in 1..(n - 1) : t[k] \in Range(s) /\ t[k] # Head(s)
      BY <3>1, <1>1, <1>2, Zenon DEF Range
    <3>. QED BY <3>2, <1>1, Zenon DEF Range
  <2>2. ASSUME NEW k \in 1..n, s[k] # Head(s) PROVE s[k] \in Range(t)
    <3>1. PICK l \in 1..(n - 1) : k = l + 1
      BY <2>2, <1>1, <1>3, Zenon
    <3>2. t[l] = s[k]
      BY <3>1, <1>1, Zenon
    <3>. QED BY <3>2, <1>1, Zenon DEF Range
  <2>3. Range(s) \ {Head(s)} \subseteq Range(t)
    BY <2>2, <1>1 DEF Range
  <2>. QED BY <2>1, <2>3, Zenon
<1>. QED BY <1>1, <1>5, <1>6, <1>7, Zenon DEF t

\* add_tail_nr_list of an id that is not in the list adds it, once.
LEMMA AddTailAdds ==
  ASSUME NEW S, NEW s \in Seq(S), NEW p \in S, p \notin Range(s), IsInjective(s)
  PROVE  /\ AddTail(s, p) \in Seq(S) /\ IsInjective(AddTail(s, p))
         /\ Range(AddTail(s, p)) = Range(s) \cup {p}
<1>. DEFINE n == Len(s)
<1>1. n \in Nat /\ DOMAIN s = 1..n /\ (s # <<>> => n # 0)
  BY LenProperties, EmptySeq, Zenon
<1>2. s # <<>> => s[Len(s)] # p
  BY <1>1 DEF Range
<1>3. AddTail(s, p) = s \o <<p>> /\ s \o <<p>> \in Seq(S)
  BY <1>2, AppendIsConcat, AppendProperties DEF AddTail
<1>4. <<p>> \in Seq(S) /\ Range(<<p>>) = {p} /\ IsInjective(<<p>>)
  BY DEF Range, IsInjective
<1>5. /\ Range(s \o <<p>>) = Range(s) \cup Range(<<p>>)
      /\ IsInjective(s \o <<p>>) <=>
           IsInjective(s) /\ IsInjective(<<p>>) /\ Range(s) \cap Range(<<p>>) = {}
  BY <1>4, ConcatParts, Zenon
<1>6. Range(s) \cap {p} = {}
  OBVIOUS
<1>. QED BY <1>3, <1>4, <1>5, <1>6, Zenon

\* The list of the first n process ids.
LEMMA InitialList ==
  ASSUME NEW s, s = [n \in 1..NumHarq |-> n - 1]
  PROVE  s \in Seq(Pids) /\ IsInjective(s) /\ Range(s) = Pids
<1>1. NumHarq \in Nat /\ \A n \in 1..NumHarq : n - 1 \in Pids
  BY UlAssumption DEF Pids
<1>2. s \in [1..NumHarq -> Pids]
  BY <1>1, Zenon
<1>3. s \in Seq(Pids)
  BY <1>1, <1>2, SeqDef, Zenon
<1>4. IsInjective(s)
  BY <1>1 DEF IsInjective
<1>5. \A p \in Pids : p + 1 \in 1..NumHarq /\ s[p + 1] = p
  BY <1>1 DEF Pids
<1>6. Range(s) = Pids
  BY <1>1, <1>2, <1>5, Zenon DEF Range
<1>. QED BY <1>3, <1>4, <1>6, Zenon

\* The empty list.
LEMMA EmptyList == Range(<<>>) = {} /\ IsInjective(<<>>)
BY DEF Range, IsInjective

\* ListsAgree and ListInv say the same.
LEMMA ListsSplit == ListInv <=> ListsAgree
<1>. SUFFICES ASSUME TypeOK
              PROVE  Apart <=> /\ IsInjective(available \o feedback \o retrans)
                               /\ Range(available \o feedback \o retrans) = Pids
  BY Zenon DEF ListInv, ListsAgree, Marked
<1>1. available \in Seq(Pids) /\ feedback \in Seq(Pids) /\ retrans \in Seq(Pids)
  BY Zenon DEF TypeOK
<1>2. available \o feedback \in Seq(Pids)
  BY <1>1, ConcatProperties, Zenon
<1>3. /\ Range(available \o feedback) = Range(available) \cup Range(feedback)
      /\ IsInjective(available \o feedback) <=>
           /\ IsInjective(available) /\ IsInjective(feedback)
           /\ Range(available) \cap Range(feedback) = {}
  BY <1>1, ConcatParts, Zenon
<1>4. /\ Range(available \o feedback \o retrans)
           = Range(available \o feedback) \cup Range(retrans)
      /\ IsInjective(available \o feedback \o retrans) <=>
           /\ IsInjective(available \o feedback) /\ IsInjective(retrans)
           /\ Range(available \o feedback) \cap Range(retrans) = {}
  BY <1>1, <1>2, ConcatParts, Zenon
<1>. QED BY <1>3, <1>4, Zenon DEF Apart

-----------------------------------------------------------------------------
(* The lists *)

\* A step that leaves the lists, the rounds and the waiting marks alone.
LEMMA SortedStutter ==
  ASSUME Sorted, UNCHANGED <<lists, round, is_waiting>> PROVE Sorted'
BY Zenon DEF Sorted, ProcTypes, Apart, Marked, lists

\* nr_schedule_ulsch moves a process to the feedback list.
LEMMA SortedGrant ==
  ASSUME Sorted, Scheduler PROVE Sorted'
<1>. DEFINE p == IF retrans # <<>> THEN Head(retrans) ELSE Head(available)
<1>0. ProcTypes /\ Apart /\ Marked
  BY Zenon DEF Sorted
<1>1. /\ feedback' = AddTail(feedback, p)
      /\ is_waiting' = [is_waiting EXCEPT ![p] = TRUE] /\ round' = round
  BY Zenon DEF Scheduler, GrantRetx, GrantNew, Grant
<1>2. CASE retrans # <<>>
  <2>1. retrans' = Tail(retrans) /\ available' = available /\ p = Head(retrans)
    BY <1>2, Zenon DEF Scheduler, GrantRetx, GrantNew
  <2>2. /\ p \in Pids /\ p \in Range(retrans)
        /\ retrans' \in Seq(Pids) /\ IsInjective(retrans')
        /\ Range(retrans') = Range(retrans) \ {p}
    BY <1>0, <1>2, <2>1, TailRemoves, Zenon DEF ProcTypes, Apart
  <2>3. p \notin Range(feedback)
    BY <1>0, <2>2, Zenon DEF Apart
  <2>4. /\ feedback' \in Seq(Pids) /\ IsInjective(feedback')
        /\ Range(feedback') = Range(feedback) \cup {p}
    <3>1. feedback \in Seq(Pids) /\ IsInjective(feedback)
      BY <1>0, Zenon DEF ProcTypes, Apart
    <3>. HIDE DEF p
    <3>2. /\ AddTail(feedback, p) \in Seq(Pids) /\ IsInjective(AddTail(feedback, p))
          /\ Range(AddTail(feedback, p)) = Range(feedback) \cup {p}
      BY <2>2, <2>3, <3>1, AddTailAdds, SMTT(20)
    <3>. QED BY <1>1, <3>2, Zenon
  <2>. HIDE DEF p
  <2>5. Apart'
    BY <1>0, <2>1, <2>2, <2>4, Zenon DEF Apart
  <2>6. ProcTypes'
    BY <1>0, <1>1, <2>1, <2>2, <2>4, Zenon DEF ProcTypes
  <2>7. Marked'
    BY <1>0, <1>1, <2>1, <2>2, <2>4, Zenon DEF Marked, ProcTypes
  <2>. QED BY <2>5, <2>6, <2>7, Zenon DEF Sorted
<1>3. CASE retrans = <<>>
  <2>1. /\ available # <<>> /\ available' = Tail(available) /\ retrans' = retrans
        /\ p = Head(available)
    BY <1>3, Zenon DEF Scheduler, GrantRetx, GrantNew
  <2>2. /\ p \in Pids /\ p \in Range(available)
        /\ available' \in Seq(Pids) /\ IsInjective(available')
        /\ Range(available') = Range(available) \ {p}
    BY <1>0, <2>1, TailRemoves, Zenon DEF ProcTypes, Apart
  <2>3. p \notin Range(feedback)
    BY <1>0, <2>2, Zenon DEF Apart
  <2>4. /\ feedback' \in Seq(Pids) /\ IsInjective(feedback')
        /\ Range(feedback') = Range(feedback) \cup {p}
    <3>1. feedback \in Seq(Pids) /\ IsInjective(feedback)
      BY <1>0, Zenon DEF ProcTypes, Apart
    <3>. HIDE DEF p
    <3>2. /\ AddTail(feedback, p) \in Seq(Pids) /\ IsInjective(AddTail(feedback, p))
          /\ Range(AddTail(feedback, p)) = Range(feedback) \cup {p}
      BY <2>2, <2>3, <3>1, AddTailAdds, SMTT(20)
    <3>. QED BY <1>1, <3>2, Zenon
  <2>. HIDE DEF p
  <2>5. Apart'
    BY <1>0, <2>1, <2>2, <2>4, Zenon DEF Apart
  <2>6. ProcTypes'
    BY <1>0, <1>1, <2>1, <2>2, <2>4, Zenon DEF ProcTypes
  <2>7. Marked'
    BY <1>0, <1>1, <2>1, <2>2, <2>4, Zenon DEF Marked, ProcTypes
  <2>. QED BY <2>5, <2>6, <2>7 DEF Sorted
<1>. QED BY <1>2, <1>3, Zenon

\* The process at the head of the feedback list is freed.
LEMMA SortedFree ==
  ASSUME Sorted, feedback # <<>>, NEW p, p = Head(feedback), PopFeedback(p),
         round' = [round EXCEPT ![p] = 0], available' = AddTail(available, p),
         retrans' = retrans
  PROVE  Sorted'
<1>0. ProcTypes /\ Apart /\ Marked
  BY Zenon DEF Sorted
<1>1. feedback' = Tail(feedback) /\ is_waiting' = [is_waiting EXCEPT ![p] = FALSE]
  BY Zenon DEF PopFeedback
<1>2. /\ p \in Pids /\ p \in Range(feedback)
      /\ feedback' \in Seq(Pids) /\ IsInjective(feedback')
      /\ Range(feedback') = Range(feedback) \ {p}
  BY <1>0, <1>1, TailRemoves, Zenon DEF ProcTypes, Apart
<1>3. p \notin Range(available)
  BY <1>0, <1>2, Zenon DEF Apart
<1>4. /\ available' \in Seq(Pids) /\ IsInjective(available')
      /\ Range(available') = Range(available) \cup {p}
  <2>1. available \in Seq(Pids) /\ IsInjective(available)
    BY <1>0, Zenon DEF ProcTypes, Apart
  <2>2. /\ AddTail(available, p) \in Seq(Pids) /\ IsInjective(AddTail(available, p))
        /\ Range(AddTail(available, p)) = Range(available) \cup {p}
    BY <1>2, <1>3, <2>1, AddTailAdds, SMTT(20)
  <2>. QED BY <2>2, Zenon
<1>5. Apart'
  BY <1>0, <1>2, <1>4 DEF Apart
<1>6. ProcTypes'
  BY <1>0, <1>1, <1>2, <1>4, UlAssumption DEF ProcTypes
<1>7. Marked'
  <2>. SUFFICES ASSUME NEW q \in Pids
                PROVE  /\ is_waiting'[q] <=> q \in Range(feedback')
                       /\ q \in Range(available') => round'[q] = 0
                       /\ q \in Range(retrans') => round'[q] > 0
    BY Zenon DEF Marked
  <2>1. CASE q = p
    BY <2>1, <1>0, <1>1, <1>2, <1>4, Zenon DEF ProcTypes, Apart
  <2>2. CASE q # p
    BY <2>2, <1>0, <1>1, <1>2, <1>4, Zenon DEF ProcTypes, Marked
  <2>. QED BY <2>1, <2>2, Zenon
<1>. QED BY <1>5, <1>6, <1>7, Zenon DEF Sorted

\* The process at the head of the feedback list is to be sent again.
LEMMA SortedAgain ==
  ASSUME Sorted, feedback # <<>>, NEW p, p = Head(feedback), PopFeedback(p),
         round[p] < RoundMax - 1, round' = [round EXCEPT ![p] = @ + 1],
         retrans' = AddTail(retrans, p), available' = available
  PROVE  Sorted'
<1>0. ProcTypes /\ Apart /\ Marked
  BY Zenon DEF Sorted
<1>1. feedback' = Tail(feedback) /\ is_waiting' = [is_waiting EXCEPT ![p] = FALSE]
  BY Zenon DEF PopFeedback
<1>2. /\ p \in Pids /\ p \in Range(feedback)
      /\ feedback' \in Seq(Pids) /\ IsInjective(feedback')
      /\ Range(feedback') = Range(feedback) \ {p}
  BY <1>0, <1>1, TailRemoves, Zenon DEF ProcTypes, Apart
<1>3. p \notin Range(retrans)
  BY <1>0, <1>2, Zenon DEF Apart
<1>4. /\ retrans' \in Seq(Pids) /\ IsInjective(retrans')
      /\ Range(retrans') = Range(retrans) \cup {p}
  <2>1. retrans \in Seq(Pids) /\ IsInjective(retrans)
    BY <1>0, Zenon DEF ProcTypes, Apart
  <2>2. /\ AddTail(retrans, p) \in Seq(Pids) /\ IsInjective(AddTail(retrans, p))
        /\ Range(AddTail(retrans, p)) = Range(retrans) \cup {p}
    BY <1>2, <1>3, <2>1, AddTailAdds, SMTT(20)
  <2>. QED BY <2>2, Zenon
<1>5. Apart'
  BY <1>0, <1>2, <1>4 DEF Apart
<1>6. round[p] \in Nat /\ round[p] + 1 \in 0..(RoundMax - 1) /\ round[p] + 1 > 0
  BY <1>0, <1>2, UlAssumption DEF ProcTypes
<1>7. ProcTypes'
  BY <1>0, <1>1, <1>2, <1>4, <1>6, Zenon DEF ProcTypes
<1>8. Marked'
  <2>. SUFFICES ASSUME NEW q \in Pids
                PROVE  /\ is_waiting'[q] <=> q \in Range(feedback')
                       /\ q \in Range(available') => round'[q] = 0
                       /\ q \in Range(retrans') => round'[q] > 0
    BY Zenon DEF Marked
  <2>1. CASE q = p
    BY <2>1, <1>0, <1>1, <1>2, <1>4, <1>6, Zenon DEF ProcTypes, Apart
  <2>2. CASE q # p
    BY <2>2, <1>0, <1>1, <1>2, <1>4, Zenon DEF ProcTypes, Marked
  <2>. QED BY <2>1, <2>2, Zenon
<1>. QED BY <1>5, <1>7, <1>8, Zenon DEF Sorted

\* A block that failed: its process is freed or sent again.
LEMMA SortedFail ==
  ASSUME Sorted, feedback # <<>>, NEW p, p = Head(feedback), PopFeedback(p), Fail(p)
  PROVE  Sorted'
<1>1. CASE round[p] >= RoundMax - 1
  BY <1>1, SortedFree, Zenon DEF Fail
<1>2. CASE ~(round[p] >= RoundMax - 1)
  <2>1. p \in Pids
    BY TailRemoves, Zenon DEF Sorted, ProcTypes, Apart
  <2>2. round[p] < RoundMax - 1
    BY <1>2, <2>1, UlAssumption DEF Sorted, ProcTypes
  <2>. QED BY <1>2, <2>2, SortedAgain, Zenon DEF Fail
<1>. QED BY <1>1, <1>2, Zenon

\* reset_ul_harq_list puts every process back.
LEMMA SortedReset ==
  ASSUME Sorted, Reset PROVE Sorted'
<1>0. ProcTypes /\ Apart
  BY Zenon DEF Sorted
<1>1. /\ available' = available \o feedback \o retrans /\ feedback' = <<>>
      /\ retrans' = <<>> /\ round' = [p \in Pids |-> 0]
      /\ is_waiting' = [p \in Pids |-> FALSE]
  BY Zenon DEF Reset
<1>2. /\ available \o feedback \in Seq(Pids) /\ available' \in Seq(Pids)
  BY <1>0, <1>1, ConcatProperties, Zenon DEF ProcTypes
<1>3. /\ Range(available \o feedback) = Range(available) \cup Range(feedback)
      /\ IsInjective(available \o feedback)
  BY <1>0, ConcatParts DEF ProcTypes, Apart
<1>4. /\ Range(available') = Range(available \o feedback) \cup Range(retrans)
      /\ IsInjective(available') <=>
           /\ IsInjective(available \o feedback) /\ IsInjective(retrans)
           /\ Range(available \o feedback) \cap Range(retrans) = {}
  <2>. DEFINE b == available \o feedback
  <2>1. retrans \in Seq(Pids) /\ b \in Seq(Pids) /\ available' = b \o retrans
    BY <1>0, <1>1, <1>2, Zenon DEF ProcTypes
  <2>. HIDE DEF b
  <2>2. /\ Range(b \o retrans) = Range(b) \cup Range(retrans)
        /\ IsInjective(b \o retrans) <=>
             IsInjective(b) /\ IsInjective(retrans) /\ Range(b) \cap Range(retrans) = {}
    BY <2>1, ConcatParts, Zenon
  <2>. QED BY <2>1, <2>2, Zenon DEF b
<1>5. Apart'
  BY <1>0, <1>1, <1>3, <1>4, EmptyList, Zenon DEF Apart
<1>6. ProcTypes'
  BY <1>1, <1>2, UlAssumption, EmptySeq DEF ProcTypes
<1>7. Marked'
  BY <1>1, EmptyList, Zenon DEF Marked
<1>. QED BY <1>5, <1>6, <1>7 DEF Sorted

-----------------------------------------------------------------------------
(* The theorem *)

\* The rest of the types is kept.
LEMMA RestKept ==
  ASSUME ProcTypes, RestTypes, Apart, [Next]_vars PROVE RestTypes'
<1>s. (\A n \in TbSizes : n \in Nat) /\ \A p \in Pids : tb_size[p] \in Nat
  <2>1. \A n \in TbSizes \cup {0} : n \in Nat
    BY UlAssumption
  <2>2. \A p \in Pids : tb_size[p] \in TbSizes \cup {0}
    BY Zenon DEF RestTypes
  <2>. QED BY <2>1, <2>2, Zenon
<1>f. feedback # <<>> => Head(feedback) \in Pids
  BY TailRemoves, Zenon DEF ProcTypes, Apart
<1>h. \A n \in HeadTb : n \in Nat
  <2>1. CASE feedback # <<>>
    BY <2>1, <1>s, <1>f, Zenon DEF HeadTb
  <2>2. CASE feedback = <<>>
    BY <2>2, <1>s DEF HeadTb
  <2>. QED BY <2>1, <2>2, Zenon
<1>. USE UlAssumption
<1>1. CASE Scheduler
  <2>. DEFINE p == IF retrans # <<>> THEN Head(retrans) ELSE Head(available)
  <2>1. p \in Pids
    BY <1>1, TailRemoves, Zenon DEF Scheduler, GrantRetx, GrantNew, ProcTypes, Apart
  <2>2. Grant(p)
    BY <1>1, Zenon DEF Scheduler, GrantRetx, GrantNew
  <2>3. tb_size' \in [Pids -> TbSizes \cup {0}] /\ sched_ul_bytes' \in Nat
    <3>1. CASE GrantRetx
      BY <3>1, Zenon DEF GrantRetx, RestTypes
    <3>2. CASE GrantNew
      <4>1. PICK size \in TbSizes :
              /\ tb_size' = [tb_size EXCEPT ![Head(available)] = size]
              /\ sched_ul_bytes' = sched_ul_bytes + size
        BY <3>2, Zenon DEF GrantNew
      <4>2. tb_size' \in [Pids -> TbSizes \cup {0}]
        BY <4>1, Zenon DEF RestTypes
      <4>3. sched_ul_bytes' \in Nat
        BY <4>1, <1>s DEF RestTypes
      <4>. QED BY <4>2, <4>3, Zenon
    <3>. QED BY <1>1, <3>1, <3>2, Zenon DEF Scheduler
  <2>. HIDE DEF p
  <2>4. air' \in Seq(Pids)
    BY <2>1, <2>2, AppendProperties, Zenon DEF Grant, RestTypes
  <2>. QED BY <2>2, <2>3, <2>4, Zenon DEF Grant, RestTypes, link, env
<1>2. CASE Inactivity
  BY <1>2, Zenon DEF Inactivity, RestTypes, procs, link, env
<1>3. CASE RxSdu
  <2>1. Head(air) \in Pids /\ Tail(air) \in Seq(Pids)
    BY <1>3, HeadTailProperties, Zenon DEF RxSdu, RestTypes
  <2>2. PICK size \in HeadTb : sched_ul_bytes' = NotBelow0(sched_ul_bytes - size)
    BY <1>3, Zenon DEF RxSdu
  <2>4. sched_ul_bytes' \in Nat
    BY <2>2, <1>h DEF NotBelow0, RestTypes
  <2>5. estimated_ul_buffer' \in 0..MaxBuf
    BY <1>3 DEF RxSdu, AfterData, AfterBsr, NotBelow0, RestTypes
  <2>6. crc' \in [pid : Pids, ok : BOOLEAN] /\ air' \in Seq(Pids) /\ pc' = "between"
    BY <1>3, <2>1, Zenon DEF RxSdu
  <2>. QED BY <1>3, <2>4, <2>5, <2>6, Zenon DEF RxSdu, RestTypes, procs, env
<1>4. CASE RxNothing
  <2>1. Head(air) \in Pids /\ Tail(air) \in Seq(Pids)
    BY <1>4, HeadTailProperties, Zenon DEF RxNothing, RestTypes
  <2>2. PICK r \in HeadRound, size \in HeadTb :
          sched_ul_bytes' = IF r = 3 THEN NotBelow0(sched_ul_bytes - size)
                            ELSE sched_ul_bytes
    BY <1>4, Zenon DEF RxNothing
  <2>4. sched_ul_bytes' \in Nat
    BY <2>2, <1>h DEF NotBelow0, RestTypes
  <2>5. dtx' \in Nat
    BY <1>4 DEF RxNothing, RestTypes
  <2>6. ul_failure' \in BOOLEAN
    BY <1>4, Zenon DEF RxNothing
  <2>7. crc' \in [pid : Pids, ok : BOOLEAN] /\ air' \in Seq(Pids) /\ pc' = "between"
    BY <1>4, <2>1, Zenon DEF RxNothing
  <2>. QED BY <1>4, <2>4, <2>5, <2>6, <2>7, Zenon DEF RxNothing, RestTypes, procs, env
<1>5. NoCrc \in [pid : Pids, ok : BOOLEAN]
  BY DEF NoCrc, Pids
<1>6. ASSUME NEW p \in Pids, Fail(p) PROVE sched_ul_bytes' \in Nat
  BY <1>6, <1>s DEF Fail, NotBelow0, RestTypes
<1>7. CASE HarqUnexpected
  <2>1. sched_ul_bytes' \in Nat
    BY <1>6, <1>f, <1>7, Zenon DEF HarqUnexpected
  <2>. QED BY <1>7, <2>1, Zenon DEF HarqUnexpected, PopFeedback, RestTypes, link, env
<1>8. CASE HarqNone
  BY <1>5, <1>8, Zenon DEF HarqNone, Return, RestTypes, procs, demand, link, env
<1>9. CASE HarqPassed
  BY <1>5, <1>9, Zenon DEF HarqPassed, Return, PopFeedback, RestTypes, link, env
<1>10. CASE HarqFailed
  <2>1. sched_ul_bytes' \in Nat
    BY <1>6, <1>f, <1>10, Zenon DEF HarqFailed
  <2>. QED BY <1>5, <1>10, <2>1, Zenon DEF HarqFailed, Return, PopFeedback, RestTypes, link, env
<1>11. CASE Reset
  <2>1. ras' \in 0..MaxRa
    BY <1>11 DEF Reset, RestTypes
  <2>2. estimated_ul_buffer' \in 0..MaxBuf
    BY <1>11 DEF Reset, AfterData, AfterBsr, NotBelow0, RestTypes
  <2>. QED BY <1>11, <2>1, <2>2, Zenon DEF Reset, RestTypes
<1>12. CASE Msg4Ack \/ Msg4Failed
  BY <1>12, Zenon DEF Msg4Ack, Msg4Failed, RestTypes, procs, demand, env
<1>13. CASE SrReceived
  BY <1>13, Zenon DEF SrReceived, RestTypes, procs, link, env
<1>14. CASE ReportLost
  <2>1. Tail(air) \in Seq(Pids)
    BY <1>14, HeadTailProperties, Zenon DEF ReportLost, RestTypes
  <2>2. lost' \in 0..MaxLost
    BY <1>14 DEF ReportLost, RestTypes
  <2>. QED BY <1>14, <2>1, <2>2, Zenon DEF ReportLost, RestTypes, procs, demand, link
<1>15. CASE GoSilent
  BY <1>15, Zenon DEF GoSilent, RestTypes, procs, demand, link
<1>16. CASE UNCHANGED vars
  BY <1>16, Zenon DEF vars, RestTypes, procs, demand, link, env
<1>. QED BY <1>1, <1>2, <1>3, <1>4, <1>7, <1>8, <1>9, <1>10, <1>11, <1>12, <1>13,
            <1>14, <1>15, <1>16 DEF Next, Receiver, HandleUlHarq

\* The lists stay in order.
LEMMA SortedKept ==
  ASSUME Sorted, [Next]_vars PROVE Sorted'
<1>1. CASE Scheduler
  BY <1>1, SortedGrant, Zenon
<1>2. CASE HarqUnexpected
  BY <1>2, SortedFail, Zenon DEF HarqUnexpected
<1>3. CASE HarqPassed
  <2>1. /\ feedback # <<>> /\ crc.pid = Head(feedback) /\ PopFeedback(crc.pid)
        /\ round' = [round EXCEPT ![crc.pid] = 0]
        /\ available' = AddTail(available, crc.pid) /\ retrans' = retrans
    BY <1>3, Zenon DEF HarqPassed
  <2>. QED BY <2>1, SortedFree, Zenon
<1>4. CASE HarqFailed
  BY <1>4, SortedFail, Zenon DEF HarqFailed
<1>5. CASE Reset
  BY <1>5, SortedReset
<1>6. CASE \/ Inactivity \/ RxSdu \/ RxNothing \/ HarqNone \/ Msg4Ack \/ Msg4Failed
           \/ SrReceived \/ ReportLost \/ GoSilent \/ UNCHANGED vars
  <2>1. UNCHANGED <<lists, round, is_waiting>>
    BY <1>6, Zenon DEF Inactivity, RxSdu, RxNothing, HarqNone, Msg4Ack, Msg4Failed, SrReceived,
       ReportLost, GoSilent, vars, procs
  <2>. QED BY <2>1, SortedStutter, Zenon
<1>. QED BY <1>1, <1>2, <1>3, <1>4, <1>5, <1>6, Zenon DEF Next, Receiver, HandleUlHarq

LEMMA ListInvInit == Init => ListInv
<1>. SUFFICES ASSUME Init PROVE ListInv
  OBVIOUS
<1>1. /\ available \in Seq(Pids) /\ IsInjective(available) /\ Range(available) = Pids
  BY InitialList, Zenon DEF Init
<1>2. ProcTypes
  BY <1>1, EmptySeq, UlAssumption DEF Init, ProcTypes
<1>3. RestTypes
  <2>1. <<>> \in Seq(Pids) /\ 0 \in Pids
    BY EmptySeq, UlAssumption DEF Pids
  <2>2. 0 \in 0..MaxBuf /\ 0 \in 0..MaxLost /\ 0 \in 0..MaxRa
    BY UlAssumption
  <2>. QED BY <2>1, <2>2, Zenon DEF Init, RestTypes, NoCrc
<1>4. Apart /\ Marked
  BY <1>1, EmptyList, Zenon DEF Init, Apart, Marked
<1>5. TypeOK
  BY <1>2, <1>3, Zenon DEF TypeOK, ProcTypes, RestTypes
<1>. QED BY <1>4, <1>5, Zenon DEF ListInv

LEMMA ListInvStep == ListInv /\ [Next]_vars => ListInv'
<1>. SUFFICES ASSUME ListInv, [Next]_vars PROVE ListInv'
  OBVIOUS
<1>1. Sorted /\ RestTypes
  BY Zenon DEF ListInv, Sorted, TypeOK, ProcTypes, RestTypes
<1>2. Sorted'
  BY <1>1, SortedKept, Zenon
<1>3. RestTypes'
  BY <1>1, RestKept, Zenon DEF Sorted
<1>4. TypeOK'
  BY <1>2, <1>3, Zenon DEF Sorted, TypeOK, ProcTypes, RestTypes
<1>. QED BY <1>2, <1>4, Zenon DEF ListInv, Sorted

\* Whatever reports are lost, come late or come for another process, and whenever a
\* random access resets the lists: every uplink HARQ process is on exactly one of
\* the lists of nr_schedule_ulsch and handle_nr_ul_harq, waits exactly on the
\* feedback list, and its round says which other list it is on.
THEOREM ListsPartition == Spec => []ListsAgree
<1>1. ListInv => ListsAgree
  BY ListsSplit, Zenon
<1>. QED BY <1>1, ListInvInit, ListInvStep, PTL DEF Spec

-----------------------------------------------------------------------------
(* The bytes that are scheduled *)

\* A block of n bytes.
LEMMA BlockBytes ==
  ASSUME NEW p, NEW n \in Nat
  PROVE  IsFiniteSet({p} \X (1..n)) /\ Cardinality({p} \X (1..n)) = n
<1>1. IsFiniteSet(1..n) /\ Cardinality(1..n) = n
  BY FS_Interval
<1>2. IsFiniteSet({p}) /\ Cardinality({p}) = 1
  BY FS_Singleton, Zenon
<1>. QED BY <1>1, <1>2, FS_Product, SMTT(20)

\* A process granted a block adds its size.
LEMMA BytesAdd ==
  ASSUME NEW a, NEW b, NEW S, NEW p, p \notin S, b[p] \in Nat, \A q \in S : b[q] = a[q],
         IsFiniteSet(Bytes(a, S))
  PROVE  /\ IsFiniteSet(Bytes(b, S \cup {p}))
         /\ Cardinality(Bytes(b, S \cup {p})) = Cardinality(Bytes(a, S)) + b[p]
<1>. DEFINE A == Bytes(a, S)
            B == {p} \X (1..b[p])
<1>1. Bytes(b, S \cup {p}) = A \cup B
  BY Zenon DEF Bytes
<1>2. A \cap B = {}
  <2>. SUFFICES ASSUME NEW x \in A, x \in B PROVE FALSE
    OBVIOUS
  <2>1. PICK q \in S : x \in {q} \X (1..a[q])
    BY Zenon DEF Bytes
  <2>2. x[1] = q /\ x[1] = p
    BY <2>1, Zenon
  <2>. QED BY <2>2, Zenon
<1>3. IsFiniteSet(B) /\ Cardinality(B) = b[p]
  BY BlockBytes, Zenon
<1>. HIDE DEF A, B
<1>4. IsFiniteSet(A) /\ Cardinality(A) \in Nat
  BY FS_CardinalityType, Zenon DEF A
<1>5. /\ IsFiniteSet(A \cup B)
      /\ Cardinality(A \cup B) = Cardinality(A) + Cardinality(B) - Cardinality({})
  BY <1>2, <1>3, <1>4, FS_Union
<1>6. Cardinality({}) = 0
  BY FS_EmptySet, Zenon
<1>7. Cardinality(A \cup B) = Cardinality(A) + b[p]
  BY <1>3, <1>4, <1>5, <1>6
<1>. QED BY <1>1, <1>5, <1>7, Zenon DEF A

\* A process that leaves takes its size off.
LEMMA BytesRemove ==
  ASSUME NEW a, NEW S, NEW p \in S, a[p] \in Nat, IsFiniteSet(Bytes(a, S))
  PROVE  /\ IsFiniteSet(Bytes(a, S \ {p})) /\ Cardinality(Bytes(a, S \ {p})) \in Nat
         /\ Cardinality(Bytes(a, S)) = Cardinality(Bytes(a, S \ {p})) + a[p]
<1>1. Bytes(a, S \ {p}) \subseteq Bytes(a, S)
  BY Zenon DEF Bytes
<1>2. IsFiniteSet(Bytes(a, S \ {p})) /\ Cardinality(Bytes(a, S \ {p})) \in Nat
  BY <1>1, FS_Subset, FS_CardinalityType, Zenon
<1>. DEFINE T == S \ {p}
<1>3. p \notin T /\ T \cup {p} = S
  OBVIOUS
<1>. HIDE DEF T
<1>4. Cardinality(Bytes(a, T \cup {p})) = Cardinality(Bytes(a, T)) + a[p]
  BY <1>2, <1>3, BytesAdd DEF T
<1>. QED BY <1>2, <1>3, <1>4, Zenon DEF T

\* What is outstanding, and what nr_rx_sdu has taken off already.
Out == Range(feedback) \cup Range(retrans)
Taken == IF pc = "between" /\ crc.ok THEN tb_size[crc.pid] ELSE 0

\* As long as nothing is missing, the processes on the air are those on the
\* feedback list, in its order, but for the one whose report is being handled; and
\* those scheduled and not taken off yet are no more than what is outstanding.
SumInv ==
  clean =>
    /\ pc # "harq" /\ feedback = IF pc = "idle" THEN air ELSE <<crc.pid>> \o air
    /\ IsFiniteSet(Bytes(tb_size, Out))
    /\ Accounts(sched_ul_bytes + Taken, Cardinality(Bytes(tb_size, Out)))

LEMMA Sizes ==
  ASSUME RestTypes
  PROVE  (\A n \in TbSizes : n \in Nat) /\ \A p \in Pids : tb_size[p] \in Nat
<1>1. \A n \in TbSizes \cup {0} : n \in Nat
  BY UlAssumption
<1>2. \A p \in Pids : tb_size[p] \in TbSizes \cup {0}
  BY Zenon DEF RestTypes
<1>. QED BY <1>1, <1>2, Zenon

\* A report that is handled while nothing is missing is that of the head.
LEMMA ReportOfHead ==
  ASSUME ProcTypes, RestTypes, Apart, SumInv, clean, Handling
  PROVE  /\ pc = "between" /\ feedback # <<>> /\ crc.pid = Head(feedback) /\ Tail(feedback) = air
         /\ crc.pid \in Pids /\ crc.pid \in Out /\ crc.pid \notin Range(retrans)
<1>1. pc = "between" /\ feedback = <<crc.pid>> \o air /\ air \in Seq(Pids) /\ crc.pid \in Pids
  BY Zenon DEF SumInv, Handling, RestTypes
<1>2. feedback # <<>> /\ Head(feedback) = crc.pid /\ Tail(feedback) = air
  BY <1>1
<1>3. Head(feedback) \in Range(feedback)
  BY <1>2, TailRemoves, Zenon DEF ProcTypes, Apart
<1>. QED BY <1>1, <1>2, <1>3, Zenon DEF Out, Apart

\* Steps that leave the lists, the blocks and the report alone, or after which the
\* account is not claimed any more.
LEMMA SumStutter ==
  ASSUME SumInv, ~clean' \/ UNCHANGED <<feedback, retrans, tb_size, sched_ul_bytes, air, pc, crc, clean>>
  PROVE  SumInv'
BY Zenon DEF SumInv, Out, Taken

\* A grant puts the process on the air and at the end of the feedback list.
LEMMA SumGrant ==
  ASSUME ProcTypes, RestTypes, Apart, SumInv, Scheduler PROVE SumInv'
<1>. SUFFICES ASSUME clean, clean' PROVE SumInv'
  <2>1. clean' = clean
    BY Zenon DEF Scheduler, GrantRetx, GrantNew, Grant, env
  <2>. QED BY <2>1, Zenon DEF SumInv
<1>. DEFINE p == IF retrans # <<>> THEN Head(retrans) ELSE Head(available)
<1>1. Grant(p) /\ LockFree
  BY Zenon DEF Scheduler, GrantRetx, GrantNew, Schedulable
<1>2. p \in Pids /\ p \notin Range(feedback)
  <2>1. CASE GrantRetx
    <3>1. Head(retrans) \in Range(retrans) /\ Head(retrans) \in Pids /\ retrans # <<>>
      BY <2>1, TailRemoves, Zenon DEF GrantRetx, ProcTypes, Apart
    <3>. QED BY <3>1, Zenon DEF Apart
  <2>2. CASE GrantNew
    <3>1. Head(available) \in Range(available) /\ Head(available) \in Pids /\ retrans = <<>>
      BY <2>2, TailRemoves, Zenon DEF GrantNew, ProcTypes, Apart
    <3>. QED BY <3>1, Zenon DEF Apart
  <2>. QED BY <2>1, <2>2, Zenon DEF Scheduler
<1>3. feedback \in Seq(Pids) /\ IsInjective(feedback) /\ air \in Seq(Pids) /\ crc.pid \in Pids
  BY Zenon DEF ProcTypes, RestTypes, Apart
<1>4. feedback' = Append(feedback, p) /\ Range(feedback') = Range(feedback) \cup {p}
  <2>1. Len(feedback) \in Nat /\ DOMAIN feedback = 1..Len(feedback) /\ (feedback # <<>> => Len(feedback) # 0)
    BY <1>3, LenProperties, EmptySeq, Zenon
  <2>2. feedback # <<>> => feedback[Len(feedback)] # p
    BY <1>2, <2>1 DEF Range
  <2>3. feedback' = AddTail(feedback, p)
    BY <1>1, Zenon DEF Grant
  <2>4. Range(AddTail(feedback, p)) = Range(feedback) \cup {p}
    BY <1>2, <1>3, AddTailAdds
  <2>. QED BY <2>2, <2>3, <2>4, Zenon DEF AddTail
<1>5. air' = Append(air, p) /\ UNCHANGED <<pc, crc>>
  BY <1>1, Zenon DEF Grant
<1>6. pc \in {"idle", "between"} /\ feedback = IF pc = "idle" THEN air ELSE <<crc.pid>> \o air
  BY <1>1, Zenon DEF LockFree, SumInv
<1>. HIDE DEF p
<1>7. feedback' = IF pc = "idle" THEN air' ELSE <<crc.pid>> \o air'
  <2>1. CASE pc = "idle"
    BY <1>4, <1>5, <1>6, <2>1, Zenon
  <2>2. CASE pc # "idle"
    <3>1. feedback = <<crc.pid>> \o air
      BY <1>6, <2>2, Zenon
    <3>. DEFINE x == <<crc.pid>>
                y == <<p>>
    <3>2. x \in Seq(Pids) /\ y \in Seq(Pids)
      BY <1>2, <1>3
    <3>3. x \o air \in Seq(Pids) /\ Append(air, p) = air \o y /\ Append(x \o air, p) = (x \o air) \o y
      BY <1>2, <1>3, <3>2, AppendIsConcat, ConcatProperties, Zenon
    <3>. HIDE DEF x, y
    <3>4. (x \o air) \o y = x \o (air \o y)
      BY <1>3, <3>2, ConcatAssociative, SMTT(20)
    <3>. QED BY <1>4, <1>5, <2>2, <3>1, <3>3, <3>4, Zenon DEF x
  <2>. QED BY <2>1, <2>2, Zenon
<1>8. \A q \in Pids : tb_size[q] \in Nat
  BY Sizes, Zenon
<1>9. pc = "between" => crc.pid # p
  <2>. SUFFICES ASSUME pc = "between" PROVE crc.pid # p
    OBVIOUS
  <2>1. crc.pid = Head(feedback) /\ feedback # <<>>
    BY ReportOfHead, Zenon DEF Handling
  <2>2. Head(feedback) \in Range(feedback)
    BY <1>3, <2>1, TailRemoves, Zenon
  <2>. QED BY <1>2, <2>1, <2>2, Zenon
<1>10. CASE GrantRetx
  <2>1. /\ retrans # <<>> /\ p = Head(retrans) /\ retrans' = Tail(retrans)
        /\ UNCHANGED <<tb_size, sched_ul_bytes>>
    BY <1>10, Zenon DEF GrantRetx, p
  <2>2. Range(retrans') = Range(retrans) \ {p} /\ p \in Range(retrans)
    BY <2>1, TailRemoves, Zenon DEF ProcTypes, Apart
  <2>3. Out' = Out
    BY <1>4, <2>2, Zenon DEF Out
  <2>4. Taken' = Taken
    BY <1>5, <2>1, Zenon DEF Taken
  <2>. QED BY <1>5, <1>6, <1>7, <2>1, <2>3, <2>4, Zenon DEF SumInv
<1>11. CASE GrantNew
  <2>1. PICK size \in TbSizes :
          /\ tb_size' = [tb_size EXCEPT ![p] = size] /\ sched_ul_bytes' = sched_ul_bytes + size
    BY <1>11, Zenon DEF GrantNew, p
  <2>2. retrans' = retrans /\ retrans = <<>>
    BY <1>11, Zenon DEF GrantNew
  <2>3. Out' = Out \cup {p} /\ p \notin Out
    BY <1>2, <1>4, <2>2, EmptyList, Zenon DEF Out
  <2>4. Out \subseteq Pids /\ tb_size \in [Pids -> TbSizes \cup {0}] /\ size \in Nat
    BY Sizes, Zenon DEF Out, Apart, RestTypes
  <2>5. tb_size'[p] = size /\ \A q \in Pids : q # p => tb_size'[q] = tb_size[q]
    BY <1>2, <2>1, <2>4, Zenon
  <2>6. IsFiniteSet(Bytes(tb_size, Out))
    BY Zenon DEF SumInv
  <2>7. /\ IsFiniteSet(Bytes(tb_size', Out \cup {p}))
        /\ Cardinality(Bytes(tb_size', Out \cup {p})) = Cardinality(Bytes(tb_size, Out)) + size
    <3>1. \A q \in Out : tb_size'[q] = tb_size[q]
      BY <2>3, <2>4, <2>5, Zenon
    <3>. DEFINE S == Out
                b == tb_size'
    <3>2. p \notin S /\ b[p] \in Nat /\ b[p] = size
      BY <2>3, <2>4, <2>5, Zenon
    <3>3. (\A q \in S : b[q] = tb_size[q]) /\ IsFiniteSet(Bytes(tb_size, S))
      BY <2>6, <3>1, Zenon
    <3>. HIDE DEF S, b
    <3>4. /\ IsFiniteSet(Bytes(b, S \cup {p}))
          /\ Cardinality(Bytes(b, S \cup {p})) = Cardinality(Bytes(tb_size, S)) + b[p]
      BY <3>2, <3>3, BytesAdd
    <3>. QED BY <3>2, <3>4, Zenon DEF S, b
  <2>8. Taken' = Taken /\ Taken \in Nat
    BY <1>3, <1>5, <1>8, <1>9, <2>5, Zenon DEF Taken
  <2>9. Accounts(sched_ul_bytes' + Taken', Cardinality(Bytes(tb_size', Out')))
    <3>1. sched_ul_bytes \in Nat
      BY Zenon DEF RestTypes
    <3>2. Accounts(sched_ul_bytes + Taken, Cardinality(Bytes(tb_size, Out))) /\ Cardinality(Bytes(tb_size, Out)) \in Nat
      BY <2>6, FS_CardinalityType, Zenon DEF SumInv
    <3>. DEFINE c == Cardinality(Bytes(tb_size, Out))
                d == Cardinality(Bytes(tb_size', Out'))
    <3>3. d = c + size
      BY <2>3, <2>7, Zenon
    <3>. HIDE DEF c, d
    <3>4. c \in Nat /\ Accounts(sched_ul_bytes + Taken, c)
      BY <3>2, Zenon DEF c
    <3>5. Accounts(sched_ul_bytes + size + Taken, c + size)
      BY <2>4, <2>8, <3>1, <3>4 DEF Accounts
    <3>. QED BY <2>1, <2>8, <3>3, <3>5, Zenon DEF d
  <2>. QED BY <1>5, <1>6, <1>7, <2>3, <2>7, <2>9 DEF SumInv
<1>. QED BY <1>10, <1>11, Zenon DEF Scheduler

\* nr_rx_sdu takes a block that was decoded off the account; one that was not it
\* takes off in round 3 only.
LEMMA SumRx ==
  ASSUME ProcTypes, RestTypes, Apart, SumInv, RxSdu \/ RxNothing PROVE SumInv'
<1>. SUFFICES ASSUME clean PROVE SumInv'
  <2>1. clean' = clean
    BY Zenon DEF RxSdu, RxNothing, env
  <2>. QED BY <2>1, Zenon DEF SumInv
<1>1. /\ pc = "idle" /\ air # <<>> /\ crc'.pid = Head(air) /\ air' = Tail(air)
      /\ pc' = "between" /\ UNCHANGED <<feedback, retrans, round, tb_size>>
  <2>1. CASE RxSdu
    BY <2>1, Zenon DEF RxSdu, lists, procs
  <2>2. CASE RxNothing
    BY <2>2, Zenon DEF RxNothing, lists, procs
  <2>. QED BY <2>1, <2>2, Zenon
<1>2. feedback = air /\ IsFiniteSet(Bytes(tb_size, Out))
  BY <1>1, Zenon DEF SumInv
<1>. DEFINE p == Head(feedback)
<1>3. p \in Pids /\ p \in Range(feedback) /\ feedback = <<p>> \o Tail(feedback)
  <2>1. p \in Pids /\ p \in Range(feedback)
    BY <1>1, <1>2, TailRemoves, Zenon DEF ProcTypes, Apart
  <2>2. feedback = <<p>> \o Tail(feedback)
    BY <1>1, <1>2, HeadTailProperties DEF ProcTypes
  <2>. QED BY <2>1, <2>2, Zenon
<1>. HIDE DEF p
<1>4. Out' = Out /\ p \in Out
  BY <1>1, <1>3, Zenon DEF Out
<1>5. tb_size[p] \in Nat /\ sched_ul_bytes \in Nat
  BY <1>3, Sizes, Zenon DEF RestTypes
<1>6. HeadTb = {tb_size[p]} /\ HeadRound = {round[p]}
  BY <1>1, <1>2, Zenon DEF HeadTb, HeadRound, p
<1>7. Accounts(sched_ul_bytes' + Taken', Cardinality(Bytes(tb_size', Out')))
  <2>. DEFINE c == Cardinality(Bytes(tb_size, Out))
  <2>1. Accounts(sched_ul_bytes, c)
    <3>1. Taken = 0
      BY <1>1, Zenon DEF Taken
    <3>2. Accounts(sched_ul_bytes + Taken, c)
      BY Zenon DEF SumInv
    <3>. HIDE DEF c
    <3>. QED BY <1>5, <3>1, <3>2
  <2>2. c >= tb_size[p] /\ c \in Nat
    <3>1. /\ Cardinality(Bytes(tb_size, Out \ {p})) \in Nat
          /\ c = Cardinality(Bytes(tb_size, Out \ {p})) + tb_size[p]
      BY <1>2, <1>4, <1>5, BytesRemove, Zenon
    <3>. HIDE DEF c
    <3>. QED BY <1>5, <3>1
  <2>3. Cardinality(Bytes(tb_size', Out')) = c
    BY <1>1, <1>4, Zenon
  <2>. HIDE DEF c
  <2>4. CASE RxSdu
    <3>1. sched_ul_bytes' = NotBelow0(sched_ul_bytes - tb_size[p]) /\ crc'.ok = TRUE
      BY <1>6, <2>4, Zenon DEF RxSdu
    <3>2. Taken' = tb_size[p]
      BY <1>1, <1>2, <3>1, Zenon DEF Taken, p
    <3>3. Accounts(sched_ul_bytes' + tb_size[p], c)
      BY <1>5, <2>1, <2>2, <3>1 DEF NotBelow0, Accounts
    <3>. QED BY <2>3, <3>2, <3>3, Zenon
  <2>5. CASE RxNothing
    <3>1. /\ sched_ul_bytes' = IF round[p] = 3 THEN NotBelow0(sched_ul_bytes - tb_size[p]) ELSE sched_ul_bytes
          /\ crc'.ok = FALSE
      BY <1>6, <2>5, Zenon DEF RxNothing
    <3>2. Taken' = 0
      BY <3>1, Zenon DEF Taken
    <3>3. RoundMax < 4 => round[p] # 3
      <4>1. round[p] \in 0..(RoundMax - 1)
        BY <1>3, Zenon DEF ProcTypes
      <4>. QED BY <4>1, UlAssumption
    <3>4. Accounts(sched_ul_bytes' + 0, c)
      BY <1>5, <2>1, <2>2, <3>1, <3>3 DEF NotBelow0, Accounts
    <3>. QED BY <2>3, <3>2, <3>4, Zenon
  <2>. QED BY <2>4, <2>5, Zenon
<1>8. feedback' = <<crc'.pid>> \o air'
  BY <1>1, <1>2, <1>3, Zenon DEF p
<1>. QED BY <1>1, <1>2, <1>4, <1>7, <1>8, Zenon DEF SumInv

\* handle_nr_ul_harq: the process leaves the account with its block, or stays on it
\* to be sent again.
LEMMA SumHarq ==
  ASSUME ProcTypes, RestTypes, Apart, SumInv, HandleUlHarq PROVE SumInv'
<1>. SUFFICES ASSUME clean PROVE SumInv'
  <2>1. clean' = clean
    BY Zenon DEF HandleUlHarq, HarqUnexpected, HarqNone, HarqPassed, HarqFailed, PopFeedback, env
  <2>. QED BY <2>1, Zenon DEF SumInv
<1>. DEFINE p == crc.pid
<1>0. Handling
  BY Zenon DEF HandleUlHarq, HarqUnexpected, HarqNone, HarqPassed, HarqFailed
<1>1. /\ pc = "between" /\ feedback # <<>> /\ p = Head(feedback) /\ Tail(feedback) = air
      /\ p \in Pids /\ p \in Out /\ p \notin Range(retrans)
  BY <1>0, ReportOfHead, Zenon
<1>2. HarqPassed \/ HarqFailed
  BY <1>1, Zenon DEF HandleUlHarq, HarqUnexpected, HarqNone
<1>3. /\ feedback' = Tail(feedback) /\ pc' = "idle" /\ UNCHANGED <<tb_size, air>>
  BY <1>2, Zenon DEF HarqPassed, HarqFailed, PopFeedback, Return
<1>4. Range(feedback') = Range(feedback) \ {p}
  BY <1>1, <1>3, TailRemoves, Zenon DEF ProcTypes, Apart
<1>5. tb_size[p] \in Nat /\ sched_ul_bytes \in Nat /\ IsFiniteSet(Bytes(tb_size, Out))
  BY <1>1, Sizes, Zenon DEF RestTypes, SumInv
<1>6. Taken' = 0 /\ feedback' = air'
  BY <1>1, <1>3, Zenon DEF Taken
<1>. HIDE DEF p
<1>. DEFINE c == Cardinality(Bytes(tb_size, Out))
            d == Cardinality(Bytes(tb_size, Out \ {p}))
<1>7. IsFiniteSet(Bytes(tb_size, Out \ {p})) /\ d \in Nat /\ c = d + tb_size[p]
  BY <1>1, <1>5, BytesRemove, Zenon
<1>8. Accounts(sched_ul_bytes + (IF crc.ok THEN tb_size[p] ELSE 0), c)
  BY <1>1, Zenon DEF SumInv, Taken, p
<1>9. CASE HarqPassed
  <2>1. crc.ok /\ UNCHANGED <<retrans, sched_ul_bytes>>
    BY <1>9, Zenon DEF HarqPassed
  <2>2. Out' = Out \ {p}
    BY <1>1, <1>4, <2>1, Zenon DEF Out
  <2>. HIDE DEF c
  <2>3. Accounts(sched_ul_bytes + 0, d)
    <3>. HIDE DEF d
    <3>. QED BY <1>5, <1>7, <1>8, <2>1 DEF Accounts
  <2>4. Accounts(sched_ul_bytes' + Taken', Cardinality(Bytes(tb_size', Out')))
    BY <1>3, <1>5, <1>6, <2>1, <2>2, <2>3
  <2>. QED BY <1>3, <1>6, <1>7, <2>2, <2>4, Zenon DEF SumInv
<1>10. CASE HarqFailed
  <2>1. ~crc.ok /\ Fail(p)
    BY <1>10, Zenon DEF HarqFailed, p
  <2>2. Accounts(sched_ul_bytes, c)
    <3>. HIDE DEF c
    <3>. QED BY <1>5, <1>8, <2>1
  <2>3. CASE round[p] >= RoundMax - 1
    <3>1. retrans' = retrans /\ sched_ul_bytes' = NotBelow0(sched_ul_bytes - tb_size[p])
      BY <2>1, <2>3, Zenon DEF Fail
    <3>2. Out' = Out \ {p}
      BY <1>1, <1>4, <3>1, Zenon DEF Out
    <3>3. Accounts(sched_ul_bytes' + 0, d)
      <4>. HIDE DEF c, d
      <4>. QED BY <1>5, <1>7, <2>2, <3>1 DEF NotBelow0, Accounts
    <3>4. Accounts(sched_ul_bytes' + Taken', Cardinality(Bytes(tb_size', Out')))
      <4>1. Cardinality(Bytes(tb_size', Out')) = d
        BY <1>3, <3>2, Zenon
      <4>. HIDE DEF c, d
      <4>. QED BY <1>6, <3>3, <4>1, Zenon
    <3>. QED BY <1>3, <1>6, <1>7, <3>2, <3>4, Zenon DEF SumInv
  <2>4. CASE ~(round[p] >= RoundMax - 1)
    <3>1. retrans' = AddTail(retrans, p) /\ sched_ul_bytes' = sched_ul_bytes
      BY <2>1, <2>4, Zenon DEF Fail
    <3>2. Range(retrans') = Range(retrans) \cup {p}
      BY <1>1, <3>1, AddTailAdds DEF ProcTypes, Apart
    <3>3. Out' = Out
      BY <1>1, <1>4, <3>2, Zenon DEF Out
    <3>4. Accounts(sched_ul_bytes' + Taken', Cardinality(Bytes(tb_size', Out')))
      <4>1. Cardinality(Bytes(tb_size', Out')) = c
        BY <1>3, <3>3, Zenon
      <4>. HIDE DEF c, d
      <4>. QED BY <1>5, <1>6, <2>2, <3>1, <4>1
    <3>. QED BY <1>3, <1>5, <1>6, <3>3, <3>4, Zenon DEF SumInv
  <2>. QED BY <2>3, <2>4, Zenon
<1>. QED BY <1>2, <1>9, <1>10, Zenon

LEMMA SumKept ==
  ASSUME ProcTypes, RestTypes, Apart, SumInv, [Next]_vars PROVE SumInv'
<1>1. CASE Scheduler
  BY <1>1, SumGrant, Zenon
<1>2. CASE RxSdu \/ RxNothing
  BY <1>2, SumRx, Zenon
<1>3. CASE HandleUlHarq
  BY <1>3, SumHarq
<1>4. CASE \/ Inactivity \/ Msg4Ack \/ Msg4Failed \/ SrReceived \/ GoSilent \/ UNCHANGED vars
  <2>1. UNCHANGED <<feedback, retrans, tb_size, sched_ul_bytes, air, pc, crc, clean>>
    BY <1>4, Zenon DEF Inactivity, Msg4Ack, Msg4Failed, SrReceived, GoSilent, vars, lists, procs, demand, env
  <2>. QED BY <2>1, SumStutter, Zenon
<1>5. CASE Reset \/ ReportLost
  <2>1. ~clean'
    BY <1>5, Zenon DEF Reset, ReportLost
  <2>. QED BY <2>1, SumStutter, Zenon
<1>. QED BY <1>1, <1>2, <1>3, <1>4, <1>5, Zenon DEF Next, Receiver

\* Between two reports sched_ul_bytes is never more than what was granted and
\* neither received nor given up, and exactly that for a harq_round_max below 4, as
\* long as no report is missing and no random access resets the lists; for any block
\* sizes.  Grants between nr_rx_sdu and handle_nr_ul_harq do not disturb the account.
THEOREM AccountHolds == Spec => []BytesAccounted
<1>. DEFINE All == ListInv /\ SumInv
<1>0. ListInv => ProcTypes /\ RestTypes /\ Apart
  BY Zenon DEF ListInv, TypeOK, ProcTypes, RestTypes
<1>1. Init => All
  <2>. SUFFICES ASSUME Init PROVE All
    OBVIOUS
  <2>1. Out = {} /\ pc = "idle" /\ feedback = air /\ sched_ul_bytes = 0 /\ Taken = 0
    BY EmptyList, Zenon DEF Init, Out, Taken
  <2>2. Bytes(tb_size, Out) = {}
    BY <2>1, Zenon DEF Bytes
  <2>3. SumInv
    BY <2>1, <2>2, FS_EmptySet DEF SumInv, Accounts
  <2>. QED BY <2>3, ListInvInit, Zenon
<1>2. All /\ [Next]_vars => All'
  BY <1>0, ListInvStep, SumKept, Zenon
<1>3. All => BytesAccounted
  <2>. SUFFICES ASSUME All, clean, pc = "idle" PROVE Accounts(sched_ul_bytes, Outstanding)
    BY Zenon DEF BytesAccounted
  <2>1. sched_ul_bytes \in Nat
    BY <1>0, Zenon DEF RestTypes
  <2>2. Accounts(sched_ul_bytes + Taken, Outstanding) /\ Taken = 0
    BY Zenon DEF SumInv, Outstanding, Out, Taken
  <2>. QED BY <2>1, <2>2
<1>. HIDE DEF All
<1>. QED BY <1>1, <1>2, <1>3, PTL DEF Spec
=============================================================================
