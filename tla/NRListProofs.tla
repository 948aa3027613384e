---------------------------- MODULE NRListProofs ----------------------------
(***************************************************************************)
(* The linked list of ids implements the sequence of its walk, for every    *)
(* capacity.                                                                *)
(***************************************************************************)
EXTENDS NRList, FiniteSetTheorems, WellFoundedInduction, TLAPS

\* w is the walk of a list with n slots that starts at h: no id twice, each id
\* linked to the one after it.
IsWalk(w, h, nx, n) ==
  /\ n \in Nat /\ w \in Seq(0..(n - 1))
  /\ \A j, k \in 1..Len(w) : w[j] = w[k] => j = k
  /\ h = IF Len(w) = 0 THEN None ELSE w[1]
  /\ \A k \in 1..Len(w) : nx[w[k]] = IF k < Len(w) THEN w[k + 1] ELSE None

-----------------------------------------------------------------------------
(* The walk *)

\* As many numbers as the interval is long.
LEMMA CountUpTo ==
  ASSUME NEW m \in Nat PROVE Cardinality(1..m) = m
<1>1. 1 \in Int /\ m \in Int
  OBVIOUS
<1>2. Cardinality(1..m) = IF 1 > m THEN 0 ELSE m - 1 + 1
  BY <1>1, FS_Interval
<1>. QED BY <1>2

\* A function on an interval from 1 is a sequence.
LEMMA SeqFunction ==
  ASSUME NEW S, NEW s \in Seq(S)
  PROVE  Len(s) \in Nat /\ s \in [1..Len(s) -> S]
OBVIOUS

LEMMA FunctionSeq ==
  ASSUME NEW S, NEW k \in Nat, NEW f \in [1..k -> S]
  PROVE  f \in Seq(S) /\ Len(f) = k
OBVIOUS

\* Distinct ids are not more than there are slots.
LEMMA WalkLength ==
  ASSUME NEW n \in Nat, NEW w \in Seq(0..(n - 1)),
         \A j, k \in 1..Len(w) : w[j] = w[k] => j = k
  PROVE  Len(w) \in Nat /\ Len(w) <= n
<1>1. Len(w) \in Nat /\ w \in [1..Len(w) -> 0..(n - 1)]
  OBVIOUS
<1>2. w \in Injection(1..Len(w), 0..(n - 1))
  BY <1>1 DEF Injection, IsInjective
<1>3. IsFiniteSet(0..(n - 1)) /\ Cardinality(0..(n - 1)) = n
  BY FS_Interval
<1>4. Cardinality(1..Len(w)) = Len(w)
  BY <1>1, CountUpTo
<1>5. Cardinality(1..Len(w)) <= Cardinality(0..(n - 1))
  BY <1>2, <1>3, FS_Injection DEF ExistsInjection
<1>. QED BY <1>1, <1>3, <1>4, <1>5

\* A property of naturals that holds as soon as it holds below holds of all:
\* stated for the set of its counterexamples.
LEMMA NoLeast ==
  ASSUME NEW S \in SUBSET Nat, \A n \in S : \E m \in S : m < n
  PROVE  S = {}
<1>. SUFFICES ASSUME S # {} PROVE FALSE
  OBVIOUS
<1>1. PICK x \in S : \A y \in S : ~(<<y, x>> \in OpToRel(<, Nat))
  BY NatLessThanWellFounded, WFMin, Zenon
<1>2. \A y \in S : ~(y < x)
  BY <1>1, Zenon DEF OpToRel
<1>. QED BY <1>2

\* What WalkFrom computes.
LEMMA WalkIs ==
  ASSUME NEW w, NEW h, NEW nx, NEW n, IsWalk(w, h, nx, n)
  PROVE  WalkFrom(h, nx, n) = w
<1>. DEFINE m == Len(w)
            Eq(f) == f = [k \in 1..(n + 1) |->
                            IF k = 1 THEN h ELSE IF f[k - 1] = None THEN None ELSE nx[f[k - 1]]]
            g == [k \in 1..(n + 1) |-> IF k <= m THEN w[k] ELSE None]
            id == CHOOSE f : Eq(f)
<1>1. n \in Nat /\ m \in Nat /\ m <= n /\ w \in [1..m -> 0..(n - 1)]
  BY WalkLength DEF IsWalk
<1>2. \A k \in 1..m : w[k] # None
  BY <1>1 DEF None
<1>3. Eq(g)
  <2>1. ASSUME NEW k \in 1..(n + 1)
        PROVE  g[k] = IF k = 1 THEN h ELSE IF g[k - 1] = None THEN None ELSE nx[g[k - 1]]
    <3>1. CASE k = 1
      BY <1>1, <3>1 DEF IsWalk
    <3>2. CASE k # 1 /\ k - 1 <= m
      BY <1>1, <1>2, <3>2 DEF IsWalk
    <3>3. CASE k # 1 /\ ~(k - 1 <= m)
      BY <1>1, <3>3
    <3>. QED BY <3>1, <3>2, <3>3
  <2>. QED BY <2>1, Zenon
<1>4. Eq(id)
  BY <1>3, Zenon
<1>5. \A k \in 1..(n + 1) : id[k] = g[k]
  <2>. DEFINE S == {k \in 1..(n + 1) : id[k] # g[k]}
  <2>. HIDE DEF id, g
  <2>1. ASSUME NEW k \in S PROVE \E j \in S : j < k
    <3>1. k # 1
      BY <1>1, <1>3, <1>4
    <3>2. k - 1 \in 1..(n + 1) /\ k - 1 < k
      BY <1>1, <3>1
    <3>3. id[k - 1] # g[k - 1]
      BY <1>1, <1>3, <1>4, <3>1, <3>2
    <3>. QED BY <3>2, <3>3
  <2>2. S \in SUBSET Nat
    BY <1>1
  <2>3. S = {}
    <3>. HIDE DEF S
    <3>. QED BY <2>1, <2>2, NoLeast
  <2>. QED BY <2>3
<1>6. {k \in 1..(n + 1) : id[k] # None} = 1..m
  <2>. HIDE DEF id
  <2>. QED BY <1>1, <1>2, <1>5
<1>7. Cardinality(1..m) = m
  BY <1>1, CountUpTo
<1>8. WalkFrom(h, nx, n) = [k \in 1..Cardinality({j \in 1..(n + 1) : id[j] # None}) |-> id[k]]
  BY DEF WalkFrom
<1>9. \A k \in 1..m : id[k] = w[k]
  <2>. HIDE DEF id
  <2>. QED BY <1>1, <1>5
<1>. HIDE DEF id, m
<1>10. WalkFrom(h, nx, n) = [k \in 1..m |-> w[k]]
  BY <1>6, <1>7, <1>8, <1>9, Zenon
<1>. QED BY <1>1, <1>10

-----------------------------------------------------------------------------
(* What the calls do to a walk *)

In(w, id) == \E k \in 1..Len(w) : w[k] = id

\* The list that w is the walk of: its tail is the end, and an id off the walk
\* has no link.
Listed(w, h, t, nx, n) ==
  /\ IsWalk(w, h, nx, n)
  /\ nx \in [0..(n - 1) -> 0..(n - 1) \cup {None}]
  /\ t = IF Len(w) = 0 THEN None ELSE w[Len(w)]
  /\ \A id \in 0..(n - 1) : ~In(w, id) => nx[id] = None

\* An id behind the last one.
LEMMA Appended ==
  ASSUME NEW w, NEW h, NEW t, NEW nx, NEW n, Listed(w, h, t, nx, n),
         NEW id \in 0..(n - 1), ~In(w, id)
  PROVE  Listed(Append(w, id), IF Len(w) = 0 THEN id ELSE h, id,
                IF Len(w) = 0 THEN nx ELSE [nx EXCEPT ![w[Len(w)]] = id], n)
<1>. DEFINE m == Len(w)
            v == Append(w, id)
            nx2 == IF m = 0 THEN nx ELSE [nx EXCEPT ![w[m]] = id]
<1>1. /\ n \in Nat /\ w \in Seq(0..(n - 1)) /\ m \in Nat
      /\ nx \in [0..(n - 1) -> 0..(n - 1) \cup {None}] /\ nx[id] = None
  BY DEF Listed, IsWalk
<1>2. v \in Seq(0..(n - 1)) /\ Len(v) = m + 1 /\ v[m + 1] = id /\ \A k \in 1..m : v[k] = w[k]
  BY <1>1
<1>3. \A k \in 1..m : w[k] \in 0..(n - 1) /\ w[k] # id
  BY <1>1 DEF In
<1>4. \A j, k \in 1..m : w[j] = w[k] => j = k
  BY DEF Listed, IsWalk
<1>5. \A k \in 1..m : nx[w[k]] = IF k < m THEN w[k + 1] ELSE None
  BY DEF Listed, IsWalk
<1>. HIDE DEF v
<1>6. \A j, k \in 1..(m + 1) : v[j] = v[k] => j = k
  <2>. TAKE j, k \in 1..(m + 1)
  <2>1. \A i \in 1..(m + 1) : i = m + 1 \/ i \in 1..m
    BY <1>1
  <2>2. CASE j \in 1..m /\ k \in 1..m
    BY <1>2, <1>4, <2>2
  <2>3. CASE j = m + 1 /\ k \in 1..m
    BY <1>2, <1>3, <2>3
  <2>4. CASE k = m + 1 /\ j \in 1..m
    BY <1>2, <1>3, <2>4
  <2>. QED BY <2>1, <2>2, <2>3, <2>4
<1>7. nx2 \in [0..(n - 1) -> 0..(n - 1) \cup {None}]
  BY <1>1, <1>3
<1>8. \A k \in 1..m : nx2[w[k]] = IF k < m THEN w[k + 1] ELSE id
  <2>. TAKE k \in 1..m
  <2>1. m # 0 /\ m \in 1..m
    BY <1>1
  <2>2. k # m => w[k] # w[m]
    BY <1>4, <2>1
  <2>. QED BY <1>1, <1>3, <1>5, <2>1, <2>2
<1>9. nx2[id] = None
  BY <1>1, <1>3
<1>10. \A k \in 1..(m + 1) : nx2[v[k]] = IF k < m + 1 THEN v[k + 1] ELSE None
  <2>. HIDE DEF nx2
  <2>. TAKE k \in 1..(m + 1)
  <2>1. CASE k = m + 1
    BY <1>1, <1>2, <1>9, <2>1
  <2>2. CASE k = m
    <3>1. m \in 1..m /\ m < m + 1 /\ ~(m < m)
      BY <1>1, <2>2
    <3>2. nx2[w[m]] = id /\ v[m] = w[m]
      BY <1>2, <1>8, <3>1
    <3>. QED BY <1>2, <2>2, <3>1, <3>2
  <2>3. CASE k \in 1..(m - 1)
    <3>1. k \in 1..m /\ k + 1 \in 1..m /\ k < m /\ k < m + 1
      BY <1>1, <2>3
    <3>2. nx2[w[k]] = w[k + 1] /\ v[k] = w[k] /\ v[k + 1] = w[k + 1]
      BY <1>2, <1>8, <3>1
    <3>. QED BY <3>1, <3>2
  <2>. QED BY <1>1, <2>1, <2>2, <2>3
<1>11. \A x \in 0..(n - 1) : ~In(v, x) => nx2[x] = None
  <2>. SUFFICES ASSUME NEW x \in 0..(n - 1), ~In(v, x) PROVE nx2[x] = None
    OBVIOUS
  <2>1. \A k \in 1..m : w[k] # x
    <3>1. \A k \in 1..m : k \in 1..Len(v) /\ v[k] = w[k]
      BY <1>1, <1>2
    <3>. QED BY <3>1, Zenon DEF In
  <2>2. nx[x] = None
    BY <2>1 DEF Listed, In
  <2>3. m # 0 => w[m] # x
    BY <1>1, <2>1
  <2>. QED BY <1>1, <2>2, <2>3
<1>12. (IF m = 0 THEN id ELSE h) = v[1]
  BY <1>1, <1>2 DEF Listed, IsWalk
<1>. HIDE DEF m, nx2
<1>13. Listed(v, IF m = 0 THEN id ELSE h, id, nx2, n)
  BY <1>1, <1>2, <1>6, <1>7, <1>10, <1>11, <1>12 DEF Listed, IsWalk
<1>. QED BY <1>13 DEF m, v, nx2

\* An id before the first one.
LEMMA Prepended ==
  ASSUME NEW w, NEW h, NEW t, NEW nx, NEW n, Listed(w, h, t, nx, n),
         NEW id \in 0..(n - 1), ~In(w, id)
  PROVE  Listed(<<id>> \o w, id, IF Len(w) = 0 THEN id ELSE t, [nx EXCEPT ![id] = h], n)
<1>. DEFINE m == Len(w)
            v == <<id>> \o w
            nx2 == [nx EXCEPT ![id] = h]
<1>1. /\ n \in Nat /\ w \in Seq(0..(n - 1)) /\ m \in Nat
      /\ nx \in [0..(n - 1) -> 0..(n - 1) \cup {None}]
      /\ h = IF m = 0 THEN None ELSE w[1]
  BY DEF Listed, IsWalk
<1>2. v \in Seq(0..(n - 1)) /\ Len(v) = m + 1 /\ v[1] = id /\ \A k \in 1..m : v[k + 1] = w[k]
  BY <1>1
<1>3. \A k \in 1..m : w[k] \in 0..(n - 1) /\ w[k] # id
  BY <1>1 DEF In
<1>4. \A j, k \in 1..m : w[j] = w[k] => j = k
  BY DEF Listed, IsWalk
<1>5. \A k \in 1..m : nx[w[k]] = IF k < m THEN w[k + 1] ELSE None
  BY DEF Listed, IsWalk
<1>. HIDE DEF v
<1>6. \A k \in 1..(m + 1) : k # 1 => k - 1 \in 1..m /\ v[k] = w[k - 1]
  <2>. SUFFICES ASSUME NEW k \in 1..(m + 1), k # 1
                PROVE  k - 1 \in 1..m /\ v[k] = w[k - 1]
    OBVIOUS
  <2>1. k - 1 \in 1..m /\ (k - 1) + 1 = k
    BY <1>1
  <2>2. v[(k - 1) + 1] = w[k - 1]
    BY <1>2, <2>1
  <2>. QED BY <2>1, <2>2
<1>7. \A j, k \in 1..(m + 1) : v[j] = v[k] => j = k
  <2>. TAKE j, k \in 1..(m + 1)
  <2>1. CASE j # 1 /\ k # 1
    <3>1. v[j] = v[k] => j - 1 = k - 1
      BY <1>4, <1>6, <2>1
    <3>. QED BY <1>1, <3>1
  <2>2. CASE j = 1 /\ k # 1
    BY <1>2, <1>3, <1>6, <2>2
  <2>3. CASE k = 1 /\ j # 1
    BY <1>2, <1>3, <1>6, <2>3
  <2>. QED BY <2>1, <2>2, <2>3
<1>8. nx2 \in [0..(n - 1) -> 0..(n - 1) \cup {None}] /\ nx2[id] = h
  BY <1>1, <1>3
<1>9. \A k \in 1..m : nx2[w[k]] = nx[w[k]]
  BY <1>1, <1>3
<1>10. \A k \in 1..(m + 1) : nx2[v[k]] = IF k < m + 1 THEN v[k + 1] ELSE None
  <2>. HIDE DEF nx2
  <2>. TAKE k \in 1..(m + 1)
  <2>1. CASE k = 1
    <3>1. nx2[v[1]] = h
      BY <1>2, <1>8
    <3>2. CASE m = 0
      BY <1>1, <2>1, <3>1, <3>2
    <3>3. CASE m # 0
      <4>1. 1 \in 1..m /\ 1 < m + 1
        BY <1>1, <3>3
      <4>2. v[1 + 1] = w[1]
        BY <1>2, <4>1
      <4>. QED BY <1>1, <2>1, <3>1, <3>3, <4>1, <4>2
    <3>. QED BY <3>2, <3>3
  <2>2. CASE k # 1 /\ k < m + 1
    <3>1. k - 1 \in 1..m /\ v[k] = w[k - 1] /\ k - 1 < m /\ (k - 1) + 1 = k /\ k \in 1..m
      BY <1>1, <1>6, <2>2
    <3>2. nx[w[k - 1]] = w[k] /\ nx2[v[k]] = nx[w[k - 1]]
      BY <1>5, <1>9, <3>1
    <3>. QED BY <1>2, <2>2, <3>1, <3>2
  <2>3. CASE k # 1 /\ k = m + 1
    <3>1. k - 1 = m /\ m \in 1..m /\ v[k] = w[m] /\ ~(m < m) /\ ~(k < m + 1)
      BY <1>1, <1>6, <2>3
    <3>2. nx[w[m]] = None /\ nx2[v[k]] = nx[w[m]]
      BY <1>5, <1>9, <3>1
    <3>. QED BY <3>1, <3>2
  <2>. QED BY <1>1, <2>1, <2>2, <2>3
<1>11. \A x \in 0..(n - 1) : ~In(v, x) => nx2[x] = None
  <2>. SUFFICES ASSUME NEW x \in 0..(n - 1), ~In(v, x) PROVE nx2[x] = None
    OBVIOUS
  <2>1. \A k \in 1..m : w[k] # x
    <3>. TAKE k \in 1..m
    <3>1. k + 1 \in 1..(m + 1) /\ v[k + 1] = w[k]
      BY <1>1, <1>2
    <3>. QED BY <1>2, <3>1 DEF In
  <2>2. nx[x] = None
    BY <2>1 DEF Listed, In
  <2>3. x # id
    BY <1>1, <1>2 DEF In
  <2>. QED BY <1>1, <2>2, <2>3
<1>12. (IF m = 0 THEN id ELSE t) = v[m + 1]
  BY <1>1, <1>2, SMTT(20) DEF Listed
<1>. HIDE DEF m, nx2
<1>13. Listed(v, id, IF m = 0 THEN id ELSE t, nx2, n)
  BY <1>1, <1>2, <1>7, <1>8, <1>10, <1>11, <1>12 DEF Listed, IsWalk
<1>. QED BY <1>13 DEF m, v, nx2

\* The sequence without its p-th element.
Dropped(w, p) == [k \in 1..(Len(w) - 1) |-> IF k < p THEN w[k] ELSE w[k + 1]]

\* The p-th id taken out: its predecessor, or the head, takes over its link.
LEMMA Removed ==
  ASSUME NEW w, NEW h, NEW t, NEW nx, NEW n, Listed(w, h, t, nx, n), NEW p \in 1..Len(w)
  PROVE  Listed(Dropped(w, p), IF p = 1 THEN nx[w[p]] ELSE h,
                IF p = Len(w) THEN (IF p = 1 THEN None ELSE w[p - 1]) ELSE t,
                IF p = 1 THEN [nx EXCEPT ![w[p]] = None]
                ELSE [nx EXCEPT ![w[p - 1]] = nx[w[p]], ![w[p]] = None], n)
<1>. DEFINE m == Len(w)
            v == Dropped(w, p)
            nx2 == IF p = 1 THEN [nx EXCEPT ![w[p]] = None]
                   ELSE [nx EXCEPT ![w[p - 1]] = nx[w[p]], ![w[p]] = None]
            h2 == IF p = 1 THEN nx[w[p]] ELSE h
            t2 == IF p = m THEN (IF p = 1 THEN None ELSE w[p - 1]) ELSE t
<1>1. /\ n \in Nat /\ w \in Seq(0..(n - 1)) /\ m \in Nat /\ p \in Nat /\ 1 <= p /\ p <= m
      /\ nx \in [0..(n - 1) -> 0..(n - 1) \cup {None}]
      /\ h = IF m = 0 THEN None ELSE w[1]
  BY DEF Listed, IsWalk
<1>2. \A k \in 1..m : w[k] \in 0..(n - 1)
  BY <1>1
<1>3. /\ v \in [1..(m - 1) -> 0..(n - 1)]
      /\ \A k \in 1..(m - 1) : v[k] = IF k < p THEN w[k] ELSE w[k + 1]
  <2>. DEFINE e(k) == IF k < p THEN w[k] ELSE w[k + 1]
  <2>1. \A k \in 1..(m - 1) : k \in 1..m /\ k + 1 \in 1..m
    BY <1>1
  <2>2. \A k \in 1..(m - 1) : e(k) \in 0..(n - 1)
    BY <1>2, <2>1
  <2>3. v = [k \in 1..(m - 1) |-> e(k)]
    BY DEF Dropped
  <2>. QED BY <2>2, <2>3, Zenon
<1>. HIDE DEF v
<1>0. m \in Nat /\ p \in Nat /\ 1 <= p /\ p <= m /\ m - 1 \in Nat
  BY <1>1
<1>4. v \in Seq(0..(n - 1)) /\ Len(v) = m - 1
  BY <1>0, <1>3, FunctionSeq, Zenon
<1>5. \A j, k \in 1..m : w[j] = w[k] => j = k
  BY DEF Listed, IsWalk
<1>6. \A k \in 1..m : nx[w[k]] = IF k < m THEN w[k + 1] ELSE None
  BY DEF Listed, IsWalk
\* Where element k of v was in w.
<1>. DEFINE o(k) == IF k < p THEN k ELSE k + 1
<1>7. \A k \in 1..(m - 1) : o(k) \in 1..m /\ o(k) # p /\ v[k] = w[o(k)]
  <2>1. \A k \in 1..(m - 1) : o(k) \in 1..m /\ o(k) # p
    BY <1>0
  <2>2. \A k \in 1..(m - 1) : v[k] = w[o(k)]
    BY <1>3
  <2>. QED BY <2>1, <2>2
<1>8. \A j, k \in 1..(m - 1) : o(j) = o(k) => j = k
  BY <1>1
<1>9. \A j, k \in 1..(m - 1) : v[j] = v[k] => j = k
  <2>. HIDE DEF o
  <2>. QED BY <1>5, <1>7, <1>8, Zenon
<1>10. nx2 \in [0..(n - 1) -> 0..(n - 1) \cup {None}]
  <2>1. w[p] \in 0..(n - 1) /\ (p # 1 => w[p - 1] \in 0..(n - 1))
    BY <1>1, <1>2
  <2>. QED BY <1>1, <2>1, Zenon
\* The links of the other ids.
<1>11. nx2[w[p]] = None
  BY <1>1, <1>2
<1>12. \A k \in 1..m : k # p /\ k # p - 1 => nx2[w[k]] = nx[w[k]]
  <2>. SUFFICES ASSUME NEW k \in 1..m, k # p, k # p - 1 PROVE nx2[w[k]] = nx[w[k]]
    BY Zenon
  <2>1. w[k] # w[p] /\ (p # 1 => w[k] # w[p - 1])
    BY <1>1, <1>5
  <2>. QED BY <1>1, <1>2, <2>1
<1>13. p # 1 => nx2[w[p - 1]] = nx[w[p]]
  <2>. SUFFICES ASSUME p # 1 PROVE nx2[w[p - 1]] = nx[w[p]]
    OBVIOUS
  <2>1. p - 1 \in 1..m /\ p - 1 # p /\ w[p - 1] \in 0..(n - 1) /\ w[p] \in 0..(n - 1)
    BY <1>1, <1>2, SMTT(20)
  <2>2. w[p - 1] # w[p]
    BY <1>5, <2>1
  <2>. QED BY <1>1, <2>1, <2>2
<1>. HIDE DEF nx2
<1>14. \A k \in 1..(m - 1) : nx2[v[k]] = IF k < m - 1 THEN v[k + 1] ELSE None
  <2>. TAKE k \in 1..(m - 1)
  <2>1. CASE k < p - 1
    <3>1. k \in 1..m /\ k < m /\ k # p /\ k # p - 1 /\ k < p /\ k < m - 1
          /\ k + 1 \in 1..(m - 1) /\ k + 1 < p
      BY <1>1, <2>1
    <3>2. v[k] = w[k] /\ v[k + 1] = w[k + 1] /\ nx[w[k]] = w[k + 1]
      BY <1>3, <1>6, <3>1
    <3>. QED BY <1>12, <3>1, <3>2
  <2>2. CASE k = p - 1
    <3>0. p # 1 /\ k < p
      BY <1>1, <2>2
    <3>1. p # 1 /\ k < p /\ v[k] = w[p - 1] /\ nx2[v[k]] = nx[w[p]]
      <4>1. v[k] = w[k]
        BY <1>3, <3>0, Zenon
      <4>. QED BY <1>13, <2>2, <3>0, <4>1, Zenon
    <3>2. CASE k < m - 1
      <4>1. k + 1 = p /\ p \in 1..(m - 1) /\ ~(p < p) /\ p < m
        BY <1>1, <2>2, <3>2
      <4>2. v[k + 1] = w[p + 1] /\ nx[w[p]] = w[p + 1]
        BY <1>3, <1>6, <4>1
      <4>. QED BY <3>1, <3>2, <4>2
    <3>3. CASE ~(k < m - 1)
      <4>1. ~(p < m)
        BY <1>1, <2>2, <3>3
      <4>. QED BY <1>6, <3>1, <3>3, <4>1
    <3>. QED BY <3>2, <3>3
  <2>3. CASE k >= p
    <3>1. /\ ~(k < p) /\ k + 1 \in 1..m /\ k + 1 # p /\ k + 1 # p - 1
          /\ v[k] = w[k + 1]
      <4>1. ~(k < p) /\ k + 1 \in 1..m /\ k + 1 # p /\ k + 1 # p - 1
        BY <1>1, <2>3
      <4>. QED BY <1>3, <4>1, Zenon
    <3>2. nx2[v[k]] = nx[w[k + 1]]
      BY <1>12, <3>1
    <3>3. CASE k < m - 1
      <4>1. k + 1 < m /\ k + 1 \in 1..(m - 1) /\ ~(k + 1 < p)
        BY <1>1, <2>3, <3>3, SMTT(20)
      <4>2. v[k + 1] = w[(k + 1) + 1] /\ nx[w[k + 1]] = w[(k + 1) + 1]
        BY <1>3, <1>6, <3>1, <4>1
      <4>. QED BY <3>2, <3>3, <4>2
    <3>4. CASE ~(k < m - 1)
      <4>1. ~(k + 1 < m)
        BY <1>1, <3>4
      <4>. QED BY <1>6, <3>1, <3>2, <3>4, <4>1
    <3>. QED BY <3>3, <3>4
  <2>4. k \in Int /\ p \in Int
    BY <1>1
  <2>. QED BY <2>1, <2>2, <2>3, <2>4
<1>15. \A x \in 0..(n - 1) : ~In(v, x) => nx2[x] = None
  <2>. SUFFICES ASSUME NEW x \in 0..(n - 1), ~In(v, x) PROVE nx2[x] = None
    OBVIOUS
  <2>1. CASE x = w[p]
    BY <1>11, <2>1
  <2>2. CASE x # w[p]
    <3>1. \A k \in 1..m : w[k] # x
      <4>. SUFFICES ASSUME NEW k \in 1..m, w[k] = x PROVE FALSE
        OBVIOUS
      <4>1. k # p
        BY <2>2
      <4>2. CASE k < p
        <5>1. k \in 1..(m - 1) /\ v[k] = w[k]
          BY <1>1, <1>3, <4>2, SMTT(20)
        <5>. QED BY <1>4, <5>1 DEF In
      <4>3. CASE k > p
        <5>1. k - 1 \in 1..(m - 1) /\ ~(k - 1 < p) /\ (k - 1) + 1 = k
          BY <1>1, <4>3
        <5>2. v[k - 1] = w[k]
          BY <1>3, <5>1
        <5>. QED BY <1>4, <5>1, <5>2 DEF In
      <4>4. k \in Int /\ p \in Int
        BY <1>1
      <4>. QED BY <4>1, <4>2, <4>3, <4>4
    <3>2. nx[x] = None
      BY <3>1 DEF Listed, In
    <3>3. x # w[p] /\ (p # 1 => x # w[p - 1])
      BY <1>1, <2>2, <3>1
    <3>. QED BY <1>1, <3>2, <3>3 DEF nx2
  <2>. QED BY <2>1, <2>2
<1>16. h2 = IF m - 1 = 0 THEN None ELSE v[1]
  <2>1. CASE p = 1
    <3>1. 1 \in 1..m /\ h2 = nx[w[1]]
      BY <1>1, <2>1
    <3>2. CASE m = 1
      BY <1>1, <1>6, <3>1, <3>2
    <3>3. CASE m # 1
      <4>1. 1 < m /\ 1 \in 1..(m - 1) /\ ~(1 < p) /\ m - 1 # 0
        <5>. HIDE DEF m
        <5>. QED BY <1>0, <2>1, <3>3
      <4>2. v[1] = w[1 + 1] /\ nx[w[1]] = w[1 + 1]
        BY <1>3, <1>6, <3>1, <4>1
      <4>. QED BY <3>1, <4>1, <4>2
    <3>. QED BY <3>2, <3>3
  <2>2. CASE p # 1
    <3>1. 1 \in 1..(m - 1) /\ 1 < p /\ m - 1 # 0 /\ m # 0
      <4>. HIDE DEF m
      <4>. QED BY <1>0, <2>2
    <3>2. v[1] = w[1]
      BY <1>3, <3>1
    <3>. QED BY <1>1, <2>2, <3>1, <3>2
  <2>. QED BY <2>1, <2>2
<1>17. t2 = IF m - 1 = 0 THEN None ELSE v[m - 1]
  <2>1. t = w[m]
    BY <1>1 DEF Listed
  <2>2. CASE p = m
    <3>1. CASE p = 1
      BY <1>1, <2>2, <3>1
    <3>2. CASE p # 1
      <4>1. m - 1 \in 1..(m - 1) /\ m - 1 < p /\ m - 1 # 0
        BY <1>1, <2>2, <3>2
      <4>2. v[m - 1] = w[m - 1]
        BY <1>3, <4>1, Zenon
      <4>. QED BY <2>2, <3>2, <4>1, <4>2
    <3>. QED BY <3>1, <3>2
  <2>3. CASE p # m
    <3>1. m - 1 \in 1..(m - 1) /\ ~(m - 1 < p) /\ m - 1 # 0 /\ (m - 1) + 1 = m
      <4>. HIDE DEF m
      <4>. QED BY <1>0, <2>3
    <3>2. v[m - 1] = w[m]
      BY <1>3, <3>1
    <3>. QED BY <2>1, <2>3, <3>1, <3>2, Zenon
  <2>. QED BY <2>2, <2>3
<1>. HIDE DEF m, h2, t2
<1>18. Listed(v, h2, t2, nx2, n)
  BY <1>1, <1>4, <1>9, <1>10, <1>14, <1>15, <1>16, <1>17 DEF Listed, IsWalk
<1>. QED BY <1>18 DEF m, v, nx2, h2, t2

-----------------------------------------------------------------------------
(* The calls *)

\* The inductive invariant.
Inv == len \in 1..MaxLen /\ Listed(Walked, head, tail, next, len)

\* What the links say about the walk.
LEMMA Facts ==
  ASSUME Inv
  PROVE  /\ len \in Nat /\ Walked \in Seq(Ids) /\ Len(Walked) \in Nat
         /\ \A k \in 1..Len(Walked) : Walked[k] \in Ids /\ Walked[k] >= 0 /\ Walked[k] # None
         /\ \A j, k \in 1..Len(Walked) : Walked[j] = Walked[k] => j = k
         /\ \A k \in 1..Len(Walked) :
              next[Walked[k]] = IF k < Len(Walked) THEN Walked[k + 1] ELSE None
         /\ head = IF Len(Walked) = 0 THEN None ELSE Walked[1]
         /\ tail = IF Len(Walked) = 0 THEN None ELSE Walked[Len(Walked)]
         /\ next \in [Ids -> Ids \cup {None}]
         /\ \A id \in Ids : ~In(Walked, id) => next[id] = None
<1>1. len \in Nat /\ Walked \in Seq(Ids) /\ Len(Walked) \in Nat
  BY ListAssumption DEF Inv, Listed, IsWalk, Ids
<1>2. \A k \in 1..Len(Walked) : Walked[k] \in Ids
  BY <1>1
<1>3. \A id \in Ids : id >= 0 /\ id # None
  BY <1>1 DEF Ids, None
<1>. QED BY <1>1, <1>2, <1>3, Zenon DEF Inv, Listed, IsWalk, Ids

\* The list is empty exactly when head, or tail, is negative.
LEMMA EmptyList ==
  ASSUME Inv
  PROVE  /\ head = None <=> Len(Walked) = 0
         /\ head < 0 <=> Len(Walked) = 0
         /\ tail < 0 <=> Len(Walked) = 0
<1>. DEFINE m == Len(Walked)
<1>1. CASE m = 0
  <2>1. head = None /\ tail = None
    BY <1>1, Facts
  <2>. QED BY <1>1, <2>1 DEF None
<1>2. CASE m # 0
  <2>1. m \in 1..m /\ 1 \in 1..m
    BY <1>2, Facts
  <2>2. head = Walked[1] /\ tail = Walked[m]
    BY <1>2, Facts
  <2>3. head \in Ids /\ head >= 0 /\ head # None /\ tail >= 0 /\ tail \in Ids
    BY <2>1, <2>2, Facts
  <2>4. head \in Int /\ tail \in Int
    BY <2>3, Facts DEF Ids
  <2>. QED BY <1>2, <2>3, <2>4
<1>. QED BY <1>1, <1>2

LEMMA MetIsIn == \A id : Met(id) <=> In(Walked, id)
BY DEF Met, In

\* The new walk is read off the new links.
LEMMA NewWalk ==
  ASSUME NEW v, Listed(v, head', tail', next', len'), len' \in 1..MaxLen
  PROVE  Inv' /\ Walked' = v
<1>1. Walked' = v
  BY WalkIs DEF Listed, Walked
<1>. QED BY <1>1 DEF Inv

LEMMA SameWalk ==
  ASSUME Inv, UNCHANGED <<head, tail, next, len>>
  PROVE  Inv' /\ Walked' = Walked
<1>1. Walked' = Walked
  BY DEF Walked
<1>. QED BY <1>1 DEF Inv

LEMMA InitWalk ==
  ASSUME Init PROVE Inv /\ Walked = <<>>
<1>1. len \in Nat /\ len \in 1..MaxLen
  BY ListAssumption DEF Init
<1>2. <<>> \in Seq(0..(len - 1)) /\ Len(<<>>) = 0
  OBVIOUS
<1>3. IsWalk(<<>>, head, next, len)
  BY <1>1, <1>2 DEF Init, IsWalk
<1>4. Listed(<<>>, head, tail, next, len)
  BY <1>1, <1>2, <1>3 DEF Init, Listed
<1>5. Walked = <<>>
  BY <1>3, WalkIs DEF Walked
<1>. QED BY <1>1, <1>4, <1>5 DEF Inv

LEMMA AddWalk ==
  ASSUME Inv, NEW id \in Ids, Add(id)
  PROVE  /\ Inv' /\ len' = len
         /\ Walked' = IF In(Walked, id) THEN Walked ELSE Append(Walked, id)
<1>1. CASE In(Walked, id)
  <2>1. UNCHANGED <<head, tail, next, len>>
    BY <1>1, MetIsIn DEF Add
  <2>. QED BY <1>1, <2>1, SameWalk
<1>2. CASE ~In(Walked, id)
  <2>. DEFINE w == Walked
              m == Len(w)
              nx2 == IF m = 0 THEN next ELSE [next EXCEPT ![w[m]] = id]
  <2>1. /\ head' = IF m = 0 THEN id ELSE head
        /\ next' = nx2 /\ len' = len
        /\ tail' = IF next'[id] < 0 THEN id ELSE tail
    BY <1>2, MetIsIn, EmptyList DEF Add
  <2>2. Listed(Append(w, id), head', id, next', len')
    <3>1. Listed(w, head, tail, next, len) /\ id \in 0..(len - 1)
      BY DEF Inv, Ids
    <3>2. Listed(Append(w, id), IF m = 0 THEN id ELSE head, id, nx2, len)
      BY <1>2, <3>1, Appended
    <3>. QED BY <2>1, <3>2, Zenon
  <2>3. next[id] = None /\ next \in [Ids -> Ids \cup {None}]
    BY <1>2, Facts
  <2>4. m # 0 => w[m] # id
    BY <1>2, Facts DEF In
  <2>5. next'[id] = None
    BY <2>1, <2>3, <2>4
  <2>6. tail' = id
    BY <2>1, <2>5 DEF None
  <2>. HIDE DEF w, m, nx2
  <2>7. Inv' /\ Walked' = Append(w, id)
    BY <2>1, <2>2, <2>6, NewWalk, Zenon DEF Inv
  <2>. QED BY <1>2, <2>1, <2>7 DEF w
<1>. QED BY <1>1, <1>2

LEMMA AddTailWalk ==
  ASSUME Inv, NEW id \in Ids, AddTail(id)
  PROVE  /\ Inv' /\ len' = len
         /\ Walked' = IF In(Walked, id) THEN Walked ELSE Append(Walked, id)
         /\ In(Walked, id) => id = Walked[Len(Walked)]
<1>. DEFINE w == Walked
            m == Len(w)
<1>1. /\ In(w, id) => id = w[m]
      /\ len' = len /\ tail' = id
      /\ head' = IF m = 0 THEN id ELSE head
      /\ next' = IF m = 0 THEN [next EXCEPT ![id] = None]
                 ELSE [next EXCEPT ![tail] = id, ![id] = None]
  BY MetIsIn, EmptyList DEF AddTail
<1>2. next \in [Ids -> Ids \cup {None}] /\ m \in Nat
  BY Facts
<1>3. CASE In(w, id)
  <2>1. m # 0 /\ m \in 1..m /\ ~(m < m)
    BY <1>2, <1>3 DEF In
  <2>2. id = tail /\ next[id] = None
    BY <1>1, <1>3, <2>1, Facts
  <2>3. next' = next
    BY <1>1, <1>2, <2>1, <2>2
  <2>4. UNCHANGED <<head, tail, next, len>>
    BY <1>1, <2>1, <2>2, <2>3
  <2>. QED BY <1>1, <1>3, <2>4, SameWalk
<1>4. CASE ~In(w, id)
  <2>. DEFINE nx2 == IF m = 0 THEN next ELSE [next EXCEPT ![w[m]] = id]
  <2>1. next[id] = None
    BY <1>4, Facts
  <2>2. m # 0 => tail = w[m] /\ tail \in Ids /\ tail # id
    BY <1>2, <1>4, Facts DEF In
  <2>3. next' = nx2
    <3>1. CASE m = 0
      BY <1>1, <1>2, <2>1, <3>1
    <3>2. CASE m # 0
      BY <1>1, <1>2, <2>1, <2>2, <3>2, Zenon
    <3>. QED BY <3>1, <3>2
  <2>4. Listed(Append(w, id), head', tail', next', len')
    <3>1. Listed(w, head, tail, next, len) /\ id \in 0..(len - 1)
      BY DEF Inv, Ids
    <3>2. Listed(Append(w, id), IF m = 0 THEN id ELSE head, id, nx2, len)
      BY <1>4, <3>1, Appended
    <3>. QED BY <1>1, <2>3, <3>2, Zenon
  <2>. HIDE DEF w, m, nx2
  <2>5. Inv' /\ Walked' = Append(w, id)
    BY <1>1, <2>4, NewWalk, Zenon DEF Inv
  <2>. QED BY <1>1, <1>4, <2>5 DEF w, m
<1>. QED BY <1>3, <1>4

LEMMA AddFrontWalk ==
  ASSUME Inv, NEW id \in Ids, AddFront(id)
  PROVE  Inv' /\ len' = len /\ ~In(Walked, id) /\ Walked' = <<id>> \o Walked
<1>. DEFINE w == Walked
            m == Len(w)
<1>1. /\ ~In(w, id) /\ len' = len /\ head' = id /\ next' = [next EXCEPT ![id] = head]
      /\ tail' = IF m = 0 THEN id ELSE tail
  BY MetIsIn, EmptyList DEF AddFront
<1>2. Listed(w, head, tail, next, len) /\ id \in 0..(len - 1)
  BY DEF Inv, Ids
<1>3. Listed(<<id>> \o w, id, IF m = 0 THEN id ELSE tail, [next EXCEPT ![id] = head], len)
  BY <1>1, <1>2, Prepended, Zenon
<1>4. Listed(<<id>> \o w, head', tail', next', len')
  BY <1>1, <1>3, Zenon
<1>. HIDE DEF w, m
<1>5. Inv' /\ Walked' = <<id>> \o w
  BY <1>1, <1>4, NewWalk, Zenon DEF Inv
<1>. QED BY <1>1, <1>5 DEF w

\* The position of an id on the walk is unique.
LEMMA Position ==
  ASSUME Inv, NEW id, NEW p \in 1..Len(Walked), Walked[p] = id
  PROVE  (CHOOSE k \in 1..Len(Walked) : Walked[k] = id) = p
BY Facts

LEMMA RemoveWalk ==
  ASSUME Inv, NEW id \in Ids, Remove(id)
  PROVE  /\ Inv' /\ len' = len
         /\ ~In(Walked, id) => Walked' = Walked
         /\ \A p \in 1..Len(Walked) : Walked[p] = id => Walked' = Dropped(Walked, p)
<1>1. CASE ~In(Walked, id)
  <2>1. UNCHANGED <<head, tail, next, len>>
    BY <1>1, MetIsIn DEF Remove
  <2>. QED BY <1>1, <2>1, SameWalk DEF In
<1>2. ASSUME NEW p \in 1..Len(Walked), Walked[p] = id
      PROVE  Inv' /\ len' = len /\ Walked' = Dropped(Walked, p)
  <2>. DEFINE w == Walked
              m == Len(w)
              before == IF p = 1 THEN None ELSE w[p - 1]
              prev == IF before = None THEN head' ELSE before
              nx2 == IF p = 1 THEN [next EXCEPT ![w[p]] = None]
                     ELSE [next EXCEPT ![w[p - 1]] = next[w[p]], ![w[p]] = None]
              h2 == IF p = 1 THEN next[w[p]] ELSE head
              t2 == IF p = m THEN (IF p = 1 THEN None ELSE w[p - 1]) ELSE tail
  <2>1. Before(id) = before /\ Met(id)
    <3>1. (CHOOSE k \in 1..Len(Walked) : Walked[k] = id) = p
      BY <1>2, Position
    <3>. DEFINE k == CHOOSE m1 \in 1..Len(Walked) : Walked[m1] = id
    <3>2. Before(id) = IF k = 1 THEN None ELSE Walked[k - 1]
      BY Zenon DEF Before
    <3>. HIDE DEF k
    <3>3. k = p
      BY <3>1 DEF k
    <3>4. Met(id)
      BY <1>2, Zenon DEF Met
    <3>. QED BY <3>2, <3>3, <3>4
  <2>2. m \in Nat /\ p \in Nat /\ 1 <= p /\ p <= m
    BY <1>2, Facts
  <2>3. before = None <=> p = 1
    <3>1. p # 1 => p - 1 \in 1..m
      BY <2>2
    <3>. QED BY <3>1, Facts
  <2>4. /\ head' = h2 /\ next' = nx2 /\ len' = len
        /\ tail' = IF prev >= 0 /\ next'[prev] >= 0 THEN tail ELSE prev
    <3>. HIDE DEF before
    <3>1. head' = h2 /\ next' = nx2 /\ len' = len
      <4>1. CASE p = 1
        BY <1>2, <2>1, <2>3, <4>1 DEF Remove
      <4>2. CASE p # 1
        BY <1>2, <2>1, <2>3, <4>2 DEF Remove, before
      <4>. QED BY <4>1, <4>2
    <3>2. tail' = IF prev >= 0 /\ next'[prev] >= 0 THEN tail ELSE prev
      BY <2>1 DEF Remove
    <3>. QED BY <3>1, <3>2
  <2>5. next \in [Ids -> Ids \cup {None}] /\ \A k \in 1..m : w[k] \in Ids /\ w[k] >= 0
    BY Facts
  <2>6. \A k \in 1..m : next[w[k]] = IF k < m THEN w[k + 1] ELSE None
    BY Facts
  <2>7. \A j, k \in 1..m : w[j] = w[k] => j = k
    BY Facts
  <2>8. m # 0 => tail = w[m]
    BY Facts
  <2>. HIDE DEF w, m, h2
  <2>9. tail' = t2
    <3>1. CASE p = 1 /\ m = 1
      <4>1. h2 = None
        BY <2>2, <2>6, <3>1 DEF h2
      <4>2. prev = None
        BY <2>3, <2>4, <3>1, <4>1
      <4>. QED BY <2>4, <3>1, <4>2 DEF None
    <3>2. CASE p = 1 /\ m # 1
      <4>1. 1 \in 1..m /\ 2 \in 1..m /\ 1 < m /\ p # m /\ 1 + 1 = 2 /\ 2 # 1 /\ m # 0
        BY <2>2, <3>2
      <4>2. prev = w[2]
        BY <2>3, <2>4, <2>6, <3>2, <4>1 DEF h2
      <4>3. next'[w[2]] = next[w[2]]
        <5>1. w[2] # w[1]
          BY <2>7, <4>1
        <5>. QED BY <2>4, <2>5, <3>2, <4>1, <5>1
      <4>4. CASE m = 2
        <5>1. next'[w[2]] = None /\ tail = w[2]
          BY <2>2, <2>6, <2>8, <4>1, <4>3, <4>4
        <5>. QED BY <2>4, <4>1, <4>2, <5>1 DEF None
      <4>5. CASE m # 2
        <5>1. 2 < m /\ 2 + 1 \in 1..m
          BY <2>2, <4>1, <4>5
        <5>2. next'[w[2]] = w[2 + 1] /\ w[2 + 1] >= 0 /\ w[2] >= 0
          BY <2>5, <2>6, <4>1, <4>3, <5>1
        <5>. QED BY <2>4, <4>1, <4>2, <5>2
      <4>. QED BY <4>4, <4>5
    <3>3. CASE p # 1
      <4>1. p - 1 \in 1..m /\ p \in 1..m /\ p - 1 # p
        BY <2>2, <3>3
      <4>2. prev = w[p - 1] /\ prev >= 0
        BY <2>3, <2>5, <3>3, <4>1
      <4>3. next'[w[p - 1]] = next[w[p]]
        <5>1. w[p - 1] # w[p]
          BY <2>7, <4>1
        <5>. QED BY <2>4, <2>5, <3>3, <4>1, <5>1
      <4>4. CASE p = m
        <5>1. next[w[p]] = None
          BY <2>2, <2>6, <4>1, <4>4
        <5>. QED BY <2>4, <3>3, <4>2, <4>3, <4>4, <5>1 DEF None
      <4>5. CASE p # m
        <5>1. p < m /\ p + 1 \in 1..m
          BY <2>2, <4>5
        <5>2. next[w[p]] = w[p + 1] /\ w[p + 1] >= 0
          BY <2>5, <2>6, <4>1, <5>1
        <5>. QED BY <2>4, <4>2, <4>3, <4>5, <5>2
      <4>. QED BY <4>4, <4>5
    <3>. QED BY <3>1, <3>2, <3>3
  <2>10. Listed(Dropped(w, p), h2, t2, nx2, len)
    <3>1. Listed(w, head, tail, next, len) /\ p \in 1..Len(w)
      BY DEF Inv, w
    <3>2. Listed(Dropped(w, p), IF p = 1 THEN next[w[p]] ELSE head,
                 IF p = Len(w) THEN (IF p = 1 THEN None ELSE w[p - 1]) ELSE tail,
                 IF p = 1 THEN [next EXCEPT ![w[p]] = None]
                 ELSE [next EXCEPT ![w[p - 1]] = next[w[p]], ![w[p]] = None], len)
      BY <3>1, Removed, Zenon
    <3>. QED BY <3>2, Zenon DEF h2, m
  <2>11. Listed(Dropped(w, p), head', tail', next', len')
    BY <2>4, <2>9, <2>10, Zenon
  <2>. HIDE DEF nx2, t2, before, prev
  <2>12. Inv' /\ Walked' = Dropped(w, p)
    BY <2>4, <2>11, NewWalk DEF Inv
  <2>. QED BY <2>4, <2>12 DEF w
<1>3. CASE In(Walked, id)
  <2>1. PICK p \in 1..Len(Walked) : Walked[p] = id
    BY <1>3 DEF In
  <2>. QED BY <1>2, <1>3, <2>1
<1>. QED BY <1>1, <1>3

\* The front is removed like any other id.
LEMMA RemoveFrontWalk ==
  ASSUME Inv, RemoveFront
  PROVE  /\ Inv' /\ len' = len
         /\ Walked' = IF Len(Walked) = 0 THEN Walked ELSE Tail(Walked)
<1>1. CASE Len(Walked) = 0
  <2>1. UNCHANGED <<head, tail, next, len>>
    BY <1>1, EmptyList DEF RemoveFront
  <2>. QED BY <1>1, <2>1, SameWalk
<1>2. CASE Len(Walked) # 0
  <2>. DEFINE w == Walked
              m == Len(w)
              t2 == IF 1 = m THEN None ELSE tail
  <2>1. /\ head' = next[head] /\ next' = [next EXCEPT ![head] = None]
        /\ tail' = (IF head' < 0 THEN None ELSE tail) /\ len' = len
    BY <1>2, EmptyList DEF RemoveFront
  <2>2. head = w[1] /\ m \in Nat /\ 1 \in 1..m
    BY <1>2, Facts
  <2>3. tail' = t2
    <3>1. CASE m = 1
      <4>1. next[w[1]] = None
        BY <2>2, <3>1, Facts
      <4>. QED BY <2>1, <2>2, <3>1, <4>1 DEF None
    <3>2. CASE m # 1
      <4>1. 1 < m /\ 1 + 1 \in 1..m
        BY <2>2, <3>2
      <4>2. next[w[1]] = w[1 + 1] /\ w[1 + 1] >= 0 /\ w[1 + 1] \in Ids
        BY <2>2, <4>1, Facts
      <4>3. ~(w[1 + 1] < 0)
        BY <4>2, Facts DEF Ids
      <4>. QED BY <2>1, <2>2, <3>2, <4>2, <4>3
    <3>. QED BY <3>1, <3>2
  <2>4. Listed(Dropped(w, 1), next[w[1]], t2, [next EXCEPT ![w[1]] = None], len)
    <3>1. Listed(w, head, tail, next, len)
      BY DEF Inv
    <3>. QED BY <2>2, <3>1, Removed, Zenon
  <2>5. Dropped(w, 1) = Tail(w)
    <3>1. w \in Seq(Ids)
      BY Facts
    <3>. HIDE DEF w
    <3>2. \A k \in 1..(m - 1) : ~(k < 1) /\ Tail(w)[k] = w[k + 1]
      BY <2>2, <3>1
    <3>3. Tail(w) \in [1..(m - 1) -> Ids]
      <4>1. Tail(w) \in Seq(Ids) /\ Len(Tail(w)) = m - 1
        BY <2>2, <3>1
      <4>2. Tail(w) \in [1..Len(Tail(w)) -> Ids]
        BY <4>1, SeqFunction, Zenon
      <4>. QED BY <4>1, <4>2, Zenon
    <3>4. Dropped(w, 1) = [k \in 1..(m - 1) |-> w[k + 1]]
      BY <3>2 DEF Dropped
    <3>. QED BY <3>2, <3>3, <3>4
  <2>6. Listed(Tail(w), head', tail', next', len')
    BY <2>1, <2>2, <2>3, <2>4, <2>5, Zenon
  <2>. HIDE DEF w, m, t2
  <2>7. Inv' /\ Walked' = Tail(w)
    BY <2>1, <2>6, NewWalk, Zenon DEF Inv
  <2>. QED BY <1>2, <2>1, <2>7 DEF w
<1>. QED BY <1>1, <1>2

LEMMA ResizeWalk ==
  ASSUME Inv, NEW n \in 1..MaxLen, Resize(n)
  PROVE  Inv' /\ len' = n /\ Walked' = Walked
<1>. DEFINE w == Walked
<1>1. /\ n > len /\ len' = n /\ head' = head /\ tail' = tail
      /\ next' = [id \in 0..(n - 1) |-> IF id < len THEN next[id] ELSE None]
  BY DEF Resize
<1>2. /\ len \in Nat /\ n \in Nat /\ w \in Seq(Ids) /\ next \in [Ids -> Ids \cup {None}]
      /\ \A k \in 1..Len(w) : w[k] \in Ids
  BY ListAssumption, Facts
<1>3. Ids \subseteq 0..(n - 1) /\ \A id \in Ids : id < len /\ next'[id] = next[id]
  BY <1>1, <1>2 DEF Ids
<1>4. w \in Seq(0..(n - 1))
  <2>1. Len(w) \in Nat /\ w \in [1..Len(w) -> 0..(n - 1)]
    <3>1. Len(w) \in Nat /\ w \in [1..Len(w) -> Ids]
      BY <1>2, SeqFunction, Zenon
    <3>. QED BY <1>3, <3>1, Zenon
  <2>. QED BY <2>1, FunctionSeq
<1>5. next' \in [0..(n - 1) -> 0..(n - 1) \cup {None}]
  BY <1>1, <1>2, <1>3 DEF Ids
<1>6. \A id \in 0..(n - 1) : ~In(w, id) => next'[id] = None
  <2>. SUFFICES ASSUME NEW id \in 0..(n - 1), ~In(w, id) PROVE next'[id] = None
    OBVIOUS
  <2>1. CASE id < len
    <3>1. id \in Ids
      BY <1>2, <2>1 DEF Ids
    <3>. QED BY <1>3, <3>1, Facts
  <2>2. CASE ~(id < len)
    BY <1>1, <2>2
  <2>. QED BY <2>1, <2>2
<1>7. IsWalk(w, head', next', n)
  <2>1. \A k \in 1..Len(w) : next'[w[k]] = IF k < Len(w) THEN w[k + 1] ELSE None
    BY <1>2, <1>3, Facts, Zenon
  <2>. QED BY <1>1, <1>2, <1>4, <2>1, Facts, Zenon DEF IsWalk
<1>8. Listed(w, head', tail', next', len')
  BY <1>1, <1>5, <1>6, <1>7, Facts, Zenon DEF Listed
<1>. HIDE DEF w
<1>9. Inv' /\ Walked' = w
  BY <1>1, <1>8, NewWalk
<1>. QED BY <1>1, <1>9 DEF w

-----------------------------------------------------------------------------
(* Theorems *)

LEMMA InvStep ==
  ASSUME Inv, [Next]_vars PROVE Inv'
<1>1. CASE Next
  BY <1>1, AddWalk, AddTailWalk, AddFrontWalk, RemoveWalk, RemoveFrontWalk, ResizeWalk, Zenon DEF Next
<1>2. CASE UNCHANGED vars
  <2>1. UNCHANGED <<head, tail, next, len>>
    BY <1>2, Zenon DEF vars
  <2>. QED BY <2>1, SameWalk
<1>. QED BY <1>1, <1>2

\* The types of what the walk does not show.
Rest == fatal \in BOOLEAN /\ call[2] \in 0..MaxLen

LEMMA RestStep ==
  ASSUME Inv, Rest, [Next]_vars PROVE Rest'
<1>1. 1..MaxLen \subseteq 0..MaxLen /\ 0 \in 0..MaxLen
  BY ListAssumption
<1>2. Ids \subseteq 0..MaxLen
  BY ListAssumption DEF Inv, Ids
<1>3. call' = call \/ \E c, n : call' = <<c, n>> /\ n \in 0..MaxLen
  BY <1>1, <1>2, Zenon DEF Next, vars
<1>4. call'[2] \in 0..MaxLen
  BY <1>3 DEF Rest
<1>5. fatal' = TRUE \/ fatal' = fatal
  BY Zenon DEF Next, vars, Add, AddTail, AddFront, Remove, RemoveFront, Resize
<1>6. fatal' \in BOOLEAN
  BY <1>5, Zenon DEF Rest
<1>. QED BY <1>4, <1>6, Zenon DEF Rest

LEMMA RestInit ==
  ASSUME Init PROVE Rest
<1>1. call[2] \in 0..MaxLen
  BY ListAssumption DEF Init
<1>2. fatal \in BOOLEAN
  BY Zenon DEF Init
<1>. QED BY <1>1, <1>2, Zenon DEF Rest

\* tail is the end of the walk and the ids off the walk have no link, for every
\* capacity and every sequence of calls.
THEOREM TailIsTheEnd == Spec => []TailAndLinks
<1>1. Init => Inv /\ Rest
  BY InitWalk, RestInit
<1>2. Inv /\ Rest /\ [Next]_vars => (Inv /\ Rest)'
  BY InvStep, RestStep
<1>3. Inv /\ Rest => TailAndLinks
  <2>. SUFFICES ASSUME Inv, Rest PROVE TailAndLinks
    OBVIOUS
  <2>1. head = None <=> Len(Walked) = 0
    BY EmptyList
  <2>2. tail = IF head = None THEN None ELSE Walked[Len(Walked)]
    BY <2>1, Facts
  <2>3. \A id \in Ids : ~Met(id) => next[id] = None
    BY Facts, MetIsIn
  <2>4. head \in Ids \cup {None} /\ tail \in Ids \cup {None}
    <3>1. Len(Walked) # 0 => 1 \in 1..Len(Walked) /\ Len(Walked) \in 1..Len(Walked)
      BY Facts
    <3>. QED BY <3>1, Facts
  <2>5. TypeOK
    BY <2>4, Facts, Zenon DEF TypeOK, Inv, Rest
  <2>. QED BY <2>2, <2>3, <2>5, Zenon DEF TailAndLinks
<1>. QED BY <1>1, <1>2, <1>3, PTL DEF Spec

\* Held ids are the ids on the walk.
LEMMA HeldIsIn == \A id : id \in Sequence!Held <=> In(Walked, id)
BY DEF Sequence!Held, In

\* Each call of the linked list is the call of IdList.
LEMMA StepRefines ==
  ASSUME Inv, Rest, Next PROVE Sequence!Next
<1>1. ~fatal /\ fatal = FALSE
  BY Zenon DEF Next, Rest
<1>2. Sequence!Ids = Ids
  BY DEF Sequence!Ids, Ids
<1>3. ASSUME NEW id \in Ids, Add(id) PROVE Sequence!Add(id)
  <2>1. len' = len /\ Walked' = IF In(Walked, id) THEN Walked ELSE Append(Walked, id)
    BY <1>3, AddWalk
  <2>3. fatal' = (id \in Sequence!Held)
    <3>1. CASE In(Walked, id)
      <4>1. fatal' = TRUE
        BY <1>3, <3>1, MetIsIn, Zenon DEF Add
      <4>. QED BY <3>1, <4>1, HeldIsIn, Zenon
    <3>2. CASE ~In(Walked, id)
      <4>1. fatal' = FALSE
        BY <1>1, <1>3, <3>2, MetIsIn, Zenon DEF Add
      <4>2. (id \in Sequence!Held) = FALSE
        BY <3>2, HeldIsIn
      <4>. QED BY <4>1, <4>2, Zenon
    <3>. QED BY <3>1, <3>2
  <2>. QED BY <2>1, <2>3, HeldIsIn, Zenon DEF Sequence!Add
<1>4. ASSUME NEW id \in Ids, AddTail(id) PROVE Sequence!AddTail(id)
  <2>1. /\ len' = len /\ Walked' = IF In(Walked, id) THEN Walked ELSE Append(Walked, id)
        /\ In(Walked, id) => id = Walked[Len(Walked)]
    BY <1>4, AddTailWalk
  <2>2. fatal' = fatal
    BY <1>4, Zenon DEF AddTail
  <2>. QED BY <2>1, <2>2, HeldIsIn, Zenon DEF Sequence!AddTail
<1>5. ASSUME NEW id \in Ids, AddFront(id) PROVE Sequence!AddFront(id)
  <2>1. len' = len /\ ~In(Walked, id) /\ Walked' = <<id>> \o Walked
    BY <1>5, AddFrontWalk
  <2>2. fatal' = fatal
    BY <1>5, Zenon DEF AddFront
  <2>. QED BY <2>1, <2>2, HeldIsIn, Zenon DEF Sequence!AddFront
<1>6. ASSUME NEW id \in Ids, Remove(id) PROVE Sequence!Remove(id)
  <2>1. len' = len
    BY <1>6, RemoveWalk
  <2>2. CASE ~In(Walked, id)
    <3>1. Walked' = Walked
      BY <1>6, <2>2, RemoveWalk
    <3>2. Walked' = Sequence!Without(Walked, id)
      BY <2>2, <3>1, Zenon DEF Sequence!Without, In
    <3>3. fatal' = TRUE
      BY <1>6, <2>2, MetIsIn, Zenon DEF Remove
    <3>4. fatal' = (id \notin Sequence!Held)
      BY <2>2, <3>3, HeldIsIn, Zenon
    <3>. QED BY <2>1, <3>2, <3>4, Zenon DEF Sequence!Remove
  <2>3. CASE In(Walked, id)
    <3>1. PICK p \in 1..Len(Walked) : Walked[p] = id
      BY <2>3 DEF In
    <3>2. Walked' = Dropped(Walked, p)
      BY <1>6, <3>1, RemoveWalk
    <3>3. (CHOOSE k \in 1..Len(Walked) : Walked[k] = id) = p
      BY <3>1, Position
    <3>4. Walked' = Sequence!Without(Walked, id)
      BY <3>1, <3>2, <3>3, Zenon DEF Sequence!Without, Dropped
    <3>5. fatal' = FALSE
      BY <1>1, <1>6, <2>3, MetIsIn, Zenon DEF Remove
    <3>6. fatal' = (id \notin Sequence!Held)
      BY <2>3, <3>5, HeldIsIn, Zenon
    <3>. QED BY <2>1, <3>4, <3>6, Zenon DEF Sequence!Remove
  <2>. QED BY <2>2, <2>3
<1>7. ASSUME RemoveFront PROVE Sequence!RemoveFront
  <2>1. len' = len /\ Walked' = IF Len(Walked) = 0 THEN Walked ELSE Tail(Walked)
    BY <1>7, RemoveFrontWalk
  <2>2. Walked = <<>> <=> Len(Walked) = 0
    BY Facts
  <2>3. fatal' = (Walked = <<>>)
    <3>1. CASE Walked = <<>>
      <4>1. fatal' = TRUE
        BY <1>7, <2>2, <3>1, EmptyList, Zenon DEF RemoveFront
      <4>. QED BY <3>1, <4>1, Zenon
    <3>2. CASE Walked # <<>>
      <4>1. fatal' = FALSE
        BY <1>1, <1>7, <2>2, <3>2, EmptyList, Zenon DEF RemoveFront
      <4>. QED BY <3>2, <4>1, Zenon
    <3>. QED BY <3>1, <3>2
  <2>. QED BY <2>1, <2>2, <2>3, Zenon DEF Sequence!RemoveFront
<1>8. ASSUME NEW n \in 1..MaxLen, Resize(n) PROVE Sequence!Resize(n)
  <2>1. len' = n /\ Walked' = Walked
    BY <1>8, ResizeWalk
  <2>2. fatal' = fatal /\ n > len
    BY <1>8, Zenon DEF Resize
  <2>. QED BY <2>1, <2>2, Zenon DEF Sequence!Resize
<1>. QED BY <1>1, <1>2, <1>3, <1>4, <1>5, <1>6, <1>7, <1>8, Zenon DEF Next, Sequence!Next

\* The linked list implements the sequence of ids: every call has the effect
\* IdList promises, for every capacity.
THEOREM ListRefinesSequence == Spec => ListImplementsSequence
<1>1. Init => Inv /\ Rest
  BY InitWalk, RestInit
<1>2. Inv /\ Rest /\ [Next]_vars => (Inv /\ Rest)'
  BY InvStep, RestStep
<1>3. Init => Sequence!Init
  <2>1. Init => Walked = <<>>
    BY InitWalk
  <2>. QED BY <2>1, Zenon DEF Init, Sequence!Init
<1>4. Inv /\ Rest /\ [Next]_vars => [Sequence!Next]_(Sequence!vars)
  <2>1. UNCHANGED vars => UNCHANGED Sequence!vars
    BY DEF vars, Sequence!vars, Walked
  <2>. QED BY <2>1, StepRefines
<1>. QED BY <1>1, <1>2, <1>3, <1>4, PTL DEF Spec, ListImplementsSequence, Sequence!Spec

=============================================================================
