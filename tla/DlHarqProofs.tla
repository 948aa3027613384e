---------------------------- MODULE DlHarqProofs ----------------------------
(***************************************************************************)
(* The downlink HARQ processes, for every number of processes and rounds,  *)
(* every frame length and feedback delay, and any number of lost           *)
(* indications and random accesses: the lists partition the processes, no  *)
(* assertion fires, the new-data indicator tells a new block from one sent *)
(* again, and a HARQ bit is applied to the process it was sent for.        *)
(***************************************************************************)
EXTENDS DlHarq, SequenceTheorems, TLAPS

-----------------------------------------------------------------------------
(* Lemmas on lists *)

\* What is appended comes last.
LEMMA AppendParts ==
  ASSUME NEW S, NEW s \in Seq(S), NEW e \in S
  PROVE  /\ Len(s) \in Nat /\ Len(Append(s, e)) = Len(s) + 1 /\ Append(s, e)[Len(s) + 1] = e
         /\ \A l \in 1..Len(s) : Append(s, e)[l] = s[l]
BY LenProperties, AppendProperties

\* Taking the head off a list without repetitions takes one element out of it.
LEMMA TailRemoves ==
  ASSUME NEW S, NEW s \in Seq(S), s # <<>>, IsInjective(s)
  PROVE  /\ Head(s) \in S /\ Head(s) \in Range(s)
         /\ Tail(s) \in Seq(S) /\ IsInjective(Tail(s))
         /\ Range(Tail(s)) = Range(s) \ {Head(s)}
<1>. DEFINE t == Tail(s)
            n == Len(s)
<1>1. /\ Head(s) \in S /\ t \in Seq(S) /\ n \in Nat \ {0} /\ Head(s) = s[1]
      /\ DOMAIN s = 1..n /\ DOMAIN t = 1..(n - 1)
      /\ \A k \in 1..(n - 1) : t[k] = s[k + 1]
  BY HeadTailProperties, LenProperties, EmptySeq
<1>. HIDE DEF t, n
<1>2. 1 \in 1..n /\ \A k \in 1..(n - 1) : k + 1 \in 1..n /\ k + 1 # 1
  BY <1>1
<1>3. \A k \in 1..n : k = 1 \/ \E l \in 1..(n - 1) : k = l + 1
  <2>. SUFFICES ASSUME NEW k \in 1..n, k # 1 PROVE \E l \in 1..(n - 1) : k = l + 1
    OBVIOUS
  <2>1. k - 1 \in 1..(n - 1) /\ k = (k - 1) + 1
    BY <1>1
  <2>. QED BY <2>1, Zenon
<1>4. \A k, l \in 1..(n - 1) : k + 1 = l + 1 => k = l
  BY <1>1
<1>5. IsInjective(t)
  <2>. SUFFICES ASSUME NEW k \in 1..(n - 1), NEW l \in 1..(n - 1), t[k] = t[l]
                PROVE  k = l
    BY <1>1, Zenon DEF IsInjective
  <2>1. s[k + 1] = s[l + 1] /\ k + 1 \in DOMAIN s /\ l + 1 \in DOMAIN s
    BY <1>1, <1>2, Zenon
  <2>2. k + 1 = l + 1
    BY <2>1, Zenon DEF IsInjective
  <2>. QED BY <2>2, <1>4, Zenon
<1>6. Head(s) \in Range(s)
  BY <1>1, <1>2, Zenon DEF Range
<1>7. Range(t) = Range(s) \ {Head(s)}
  <2>1. Range(t) \subseteq Range(s) \ {Head(s)}
    <3>1. \A k \in 1..(n - 1) : t[k] = s[k + 1] /\ s[k + 1] # s[1]
      BY <1>1, <1>2, Zenon DEF IsInjective
    <3>2. \A k \in 1..(n - 1) : t[k] \in Range(s) /\ t[k] # Head(s)
      BY <3>1, <1>1, <1>2, Zenon DEF Range
    <3>. QED BY <3>2, <1>1 DEF Range
  <2>2. ASSUME NEW k \in 1..n, s[k] # Head(s) PROVE s[k] \in Range(t)
    <3>1. PICK l \in 1..(n - 1) : k = l + 1
      BY <2>2, <1>1, <1>3, Zenon
    <3>2. t[l] = s[k]
      BY <3>1, <1>1, Zenon
    <3>. QED BY <3>2, <1>1, Zenon DEF Range
  <2>3. Range(s) \ {Head(s)} \subseteq Range(t)
    BY <2>2, <1>1 DEF Range
  <2>. QED BY <2>1, <2>3, Zenon
<1>. QED BY <1>1, <1>5, <1>6, <1>7, Zenon DEF t

\* A list is empty exactly if it has no element.
LEMMA EmptyList ==
  /\ Range(<<>>) = {} /\ IsInjective(<<>>)
  /\ \A S : <<>> \in Seq(S) /\ \A s \in Seq(S) : s = <<>> <=> Range(s) = {}
<1>1. Range(<<>>) = {} /\ IsInjective(<<>>)
  BY DEF Range, IsInjective
<1>2. ASSUME NEW S, NEW s \in Seq(S), s # <<>> PROVE Range(s) # {}
  <2>1. Len(s) \in Nat /\ Len(s) # 0 /\ DOMAIN s = 1..Len(s)
    BY <1>2, LenProperties, EmptySeq, Zenon
  <2>2. 1 \in DOMAIN s
    BY <2>1
  <2>. QED BY <2>2, Zenon DEF Range
<1>3. \A S : <<>> \in Seq(S)
  BY EmptySeq, Zenon
<1>. QED BY <1>1, <1>2, <1>3, Zenon

-----------------------------------------------------------------------------
(* A list cut into blocks *)

\* f is the concatenation of the blocks B[0], ..., B[n]; block j starts behind
\* position off[j].
Cut(f, B, n, off) ==
  /\ off \in [0..(n + 1) -> 0..Len(f)] /\ off[0] = 0 /\ off[n + 1] = Len(f)
  /\ \A j \in 0..(n + 1), k \in 0..(n + 1) : j <= k => off[j] <= off[k]
  /\ \A j \in 0..n : /\ off[j + 1] = off[j] + Len(B[j])
                     /\ \A i \in 1..Len(B[j]) : f[off[j] + i] = B[j][i]
  /\ \A q \in 1..Len(f) : \E j \in 0..n : off[j] < q /\ q <= off[j + 1]
Blocks(f, B, n) ==
  /\ n \in Nat /\ f \in Seq(Pids) /\ B \in [0..n -> Seq(Pids)]
  /\ \E off : Cut(f, B, n, off)

\* Every element of a block is one of the list.
LEMMA BlockIn ==
  ASSUME NEW f, NEW B, NEW n, Blocks(f, B, n), NEW j \in 0..n, NEW i \in 1..Len(B[j])
  PROVE  B[j][i] \in Range(f)
<1>1. n \in Nat /\ f \in Seq(Pids) /\ B[j] \in Seq(Pids)
  BY Zenon DEF Blocks
<1>2. PICK off : Cut(f, B, n, off)
  BY Zenon DEF Blocks
<1>3. j + 1 \in 0..(n + 1) /\ j \in 0..(n + 1)
  BY <1>1
<1>4. Len(f) \in Nat /\ Len(B[j]) \in Nat /\ DOMAIN f = 1..Len(f)
  BY <1>1, LenProperties, Zenon
<1>5. off[j] \in 0..Len(f) /\ off[j + 1] \in 0..Len(f) /\ off[j + 1] = off[j] + Len(B[j])
  BY <1>2, <1>3, Zenon DEF Cut
<1>6. off[j] + i \in 1..Len(f)
  BY <1>4, <1>5
<1>7. f[off[j] + i] = B[j][i]
  BY <1>2, Zenon DEF Cut
<1>. QED BY <1>4, <1>6, <1>7, Zenon DEF Range

\* Behind the last block that is not empty the list has ended.
LEMMA EmptyRest ==
  ASSUME NEW f, NEW B, NEW n, Blocks(f, B, n), NEW off, Cut(f, B, n, off),
         NEW c \in 0..n, \A j \in 0..n : c < j => B[j] = <<>>
  PROVE  \A j \in 0..(n + 1) : c < j => off[j] = Len(f)
<1>. DEFINE z == Len(f)
<1>1. n \in Nat /\ c \in Nat /\ c <= n /\ c + 1 \in 0..(n + 1)
  BY DEF Blocks
<1>2. z \in Nat /\ \A j \in 0..(n + 1) : off[j] \in 0..z
  BY LenProperties, Zenon DEF Blocks, Cut
<1>3. \A q \in 1..z : \E j \in 0..n : off[j] < q /\ q <= off[j + 1]
  BY Zenon DEF Cut
<1>. HIDE DEF z
<1>4. off[c + 1] = z
  <2>. SUFFICES ASSUME off[c + 1] # z PROVE FALSE
    OBVIOUS
  <2>1. off[c + 1] + 1 \in 1..z /\ off[c + 1] \in Nat
    BY <1>1, <1>2
  <2>2. PICK j \in 0..n : off[j] < off[c + 1] + 1 /\ off[c + 1] + 1 <= off[j + 1]
    BY <1>3, <2>1, Zenon
  <2>3. j \in 0..(n + 1) /\ j + 1 \in 0..(n + 1)
    BY <1>1
  <2>4. off[j] \in Nat /\ off[j + 1] \in Nat
    BY <1>2, <2>3
  <2>5. CASE j <= c
    <3>1. j + 1 <= c + 1
      BY <1>1, <2>5
    <3>2. off[j + 1] <= off[c + 1]
      BY <1>1, <2>3, <3>1, Zenon DEF Cut
    <3>. QED BY <2>1, <2>2, <2>4, <3>2
  <2>6. CASE c < j
    <3>1. Len(B[j]) = 0 /\ off[j + 1] = off[j] + Len(B[j])
      BY <2>6 DEF Cut
    <3>. QED BY <2>1, <2>2, <2>4, <3>1
  <2>. QED BY <1>1, <2>5, <2>6
<1>. SUFFICES ASSUME NEW j \in 0..(n + 1), c < j PROVE off[j] = Len(f)
  OBVIOUS
<1>5. c + 1 <= j
  BY <1>1
<1>6. off[c + 1] <= off[j]
  BY <1>1, <1>5, Zenon DEF Cut
<1>7. off[j] = z
  BY <1>2, <1>4, <1>6
<1>. QED BY <1>7, Zenon DEF z

\* The first element of the first block is the head of the list; taking it off.
LEMMA BlocksPop ==
  ASSUME NEW f, NEW B, NEW n, Blocks(f, B, n), B[0] # <<>>
  PROVE  /\ f # <<>> /\ Head(f) = B[0][1]
         /\ Blocks(Tail(f), [B EXCEPT ![0] = Tail(B[0])], n)
<1>1. n \in Nat /\ f \in Seq(Pids) /\ B \in [0..n -> Seq(Pids)] /\ 0 \in 0..n
  BY DEF Blocks
<1>2. PICK off : Cut(f, B, n, off)
  BY Zenon DEF Blocks
<1>3. /\ Len(B[0]) \in Nat /\ Len(B[0]) >= 1 /\ Len(f) \in Nat
      /\ Tail(B[0]) \in Seq(Pids) /\ Len(Tail(B[0])) = Len(B[0]) - 1
      /\ \A i \in 1..(Len(B[0]) - 1) : Tail(B[0])[i] = B[0][i + 1]
  <2>. DEFINE b == B[0]
  <2>1. b \in Seq(Pids) /\ b # <<>>
    BY <1>1, Zenon
  <2>. HIDE DEF b
  <2>2. Len(b) \in Nat /\ Len(b) # 0
    BY <2>1, LenProperties, EmptySeq, Zenon
  <2>3. /\ Tail(b) \in Seq(Pids) /\ Len(Tail(b)) = Len(b) - 1
        /\ \A i \in 1..(Len(b) - 1) : Tail(b)[i] = b[i + 1]
    BY <2>1, HeadTailProperties, Zenon
  <2>. QED BY <1>1, <2>2, <2>3, LenProperties DEF b
<1>4. /\ off[0] = 0 /\ off[0 + 1] = off[0] + Len(B[0]) /\ f[off[0] + 1] = B[0][1]
      /\ 0 + 1 = 1 /\ off[1] \in 0..Len(f)
  <2>1. 1 \in 1..Len(B[0]) /\ 1 \in 0..(n + 1) /\ 0 + 1 = 1
    BY <1>1, <1>3
  <2>. QED BY <1>1, <1>2, <2>1, Zenon DEF Cut
<1>5. off[1] = Len(B[0]) /\ Len(f) >= 1 /\ f[1] = B[0][1]
  BY <1>3, <1>4
<1>6. f # <<>> /\ Head(f) = B[0][1]
  BY <1>1, <1>5, EmptySeq, HeadTailProperties
<1>7. /\ Tail(f) \in Seq(Pids) /\ Len(Tail(f)) = Len(f) - 1
      /\ \A k \in 1..(Len(f) - 1) : Tail(f)[k] = f[k + 1]
  BY <1>1, <1>6, HeadTailProperties, Zenon
<1>. DEFINE C == [B EXCEPT ![0] = Tail(B[0])]
            o == [j \in 0..(n + 1) |-> IF j = 0 THEN 0 ELSE off[j] - 1]
<1>8. /\ C \in [0..n -> Seq(Pids)] /\ C[0] = Tail(B[0])
      /\ \A j \in 0..n : j # 0 => C[j] = B[j]
  BY <1>1, <1>3, Zenon
<1>9. \A j \in 0..(n + 1) : j # 0 => off[j] \in 1..Len(f)
  <2>. SUFFICES ASSUME NEW j \in 0..(n + 1), j # 0 PROVE off[j] \in 1..Len(f)
    OBVIOUS
  <2>1. 1 <= j /\ 1 \in 0..(n + 1)
    BY <1>1
  <2>2. off[1] <= off[j] /\ off[j] \in 0..Len(f)
    BY <1>2, <2>1, Zenon DEF Cut
  <2>. QED BY <1>3, <1>5, <2>2
<1>10. /\ o[0] = 0 /\ 0 \in 0..(n + 1)
       /\ \A j \in 0..(n + 1) : j # 0 => o[j] = off[j] - 1
  BY <1>1
<1>. HIDE DEF C, o
<1>11. Cut(Tail(f), C, n, o)
  <2>1. \A j \in 0..(n + 1) : o[j] \in 0..(Len(f) - 1)
    <3>. TAKE j \in 0..(n + 1)
    <3>1. CASE j = 0
      BY <1>3, <1>5, <1>10, <3>1
    <3>2. CASE j # 0
      BY <1>3, <1>9, <1>10, <3>2
    <3>. QED BY <3>1, <3>2, Zenon
  <2>2. o \in [0..(n + 1) -> 0..(Len(f) - 1)]
    BY <2>1, Zenon DEF o
  <2>3. o[n + 1] = Len(f) - 1
    <3>1. n + 1 # 0 /\ n + 1 \in 0..(n + 1)
      BY <1>1
    <3>. QED BY <1>2, <1>10, <3>1, Zenon DEF Cut
  <2>4. \A j \in 0..(n + 1), k \in 0..(n + 1) : j <= k => o[j] <= o[k]
    <3>. TAKE j \in 0..(n + 1), k \in 0..(n + 1)
    <3>. SUFFICES ASSUME j <= k PROVE o[j] <= o[k]
      OBVIOUS
    <3>1. CASE j = 0
      BY <1>3, <1>10, <2>1, <3>1
    <3>2. CASE j # 0
      <4>1. k # 0
        BY <1>1, <3>2
      <4>2. off[j] <= off[k] /\ off[j] \in Nat /\ off[k] \in Nat
        BY <1>2, <1>3, <1>9, <3>2, <4>1 DEF Cut
      <4>. QED BY <1>10, <3>2, <4>1, <4>2
    <3>. QED BY <3>1, <3>2, Zenon
  <2>5. ASSUME NEW j \in 0..n
        PROVE  /\ o[j + 1] = o[j] + Len(C[j])
               /\ \A i \in 1..Len(C[j]) : Tail(f)[o[j] + i] = C[j][i]
    <3>1. j + 1 \in 0..(n + 1) /\ j + 1 # 0 /\ j \in 0..(n + 1)
      BY <1>1
    <3>2. o[j + 1] = off[j + 1] - 1
      BY <1>10, <3>1, Zenon
    <3>3. CASE j = 0
      <4>1. j + 1 = 1
        BY <3>3
      <4>2. o[j + 1] = o[j] + Len(C[j])
        BY <1>3, <1>5, <1>8, <1>10, <3>2, <3>3, <4>1
      <4>3. ASSUME NEW i \in 1..Len(C[j]) PROVE Tail(f)[o[j] + i] = C[j][i]
        <5>1. i \in 1..(Len(B[0]) - 1) /\ C[j][i] = B[0][i + 1]
          BY <1>3, <1>8, <3>3, Zenon
        <5>2. i + 1 \in 1..Len(B[0]) /\ i \in 1..(Len(f) - 1) /\ o[j] + i = i /\ 0 + (i + 1) = i + 1
          BY <1>3, <1>4, <1>5, <1>10, <3>3, <5>1
        <5>3. f[off[0] + (i + 1)] = B[0][i + 1]
          BY <1>1, <1>2, <5>2, Zenon DEF Cut
        <5>4. f[i + 1] = B[0][i + 1]
          BY <1>4, <5>2, <5>3, Zenon
        <5>. QED BY <1>7, <5>1, <5>2, <5>4, Zenon
      <4>. QED BY <4>2, <4>3, Zenon
    <3>4. CASE j # 0
      <4>1. o[j] = off[j] - 1 /\ C[j] = B[j] /\ Len(B[j]) \in Nat
        BY <1>1, <1>8, <1>10, <3>1, <3>4, LenProperties, Zenon
      <4>2. off[j + 1] = off[j] + Len(B[j]) /\ off[j] \in 1..Len(f) /\ off[j + 1] \in 1..Len(f)
        BY <1>2, <1>9, <3>1, <3>4, Zenon DEF Cut
      <4>3. o[j + 1] = o[j] + Len(C[j])
        BY <1>3, <3>2, <4>1, <4>2
      <4>4. ASSUME NEW i \in 1..Len(C[j]) PROVE Tail(f)[o[j] + i] = C[j][i]
        <5>1. i \in 1..Len(B[j]) /\ C[j][i] = B[j][i]
          BY <4>1, Zenon
        <5>2. /\ o[j] + i \in 1..(Len(f) - 1) /\ (o[j] + i) + 1 = off[j] + i
          <6>. DEFINE a == off[j]
                      b == Len(B[j])
                      l == Len(f)
          <6>1. l \in Nat /\ b \in Nat /\ a \in 1..l /\ a + b \in 1..l /\ i \in 1..b
            BY <1>3, <4>1, <4>2, <5>1, Zenon
          <6>. HIDE DEF a, b, l
          <6>2. (a - 1) + i \in 1..(l - 1) /\ ((a - 1) + i) + 1 = a + i
            BY <6>1
          <6>. QED BY <4>1, <6>2, Zenon DEF a, l
        <5>3. f[off[j] + i] = B[j][i]
          BY <1>2, <5>1, Zenon DEF Cut
        <5>. QED BY <1>7, <5>1, <5>2, <5>3, Zenon
      <4>. QED BY <4>3, <4>4, Zenon
    <3>. QED BY <3>3, <3>4, Zenon
  <2>6. ASSUME NEW q \in 1..(Len(f) - 1) PROVE \E j \in 0..n : o[j] < q /\ q <= o[j + 1]
    <3>1. q + 1 \in 1..Len(f) /\ q \in Nat /\ q > 0
      BY <1>3
    <3>2. PICK j \in 0..n : off[j] < q + 1 /\ q + 1 <= off[j + 1]
      BY <1>2, <3>1, Zenon DEF Cut
    <3>3. j \in 0..(n + 1) /\ j + 1 \in 0..(n + 1) /\ j + 1 # 0
      BY <1>1
    <3>4. off[j + 1] \in Nat /\ o[j + 1] = off[j + 1] - 1
      BY <1>3, <1>9, <1>10, <3>3
    <3>5. o[j] < q
      <4>1. CASE j = 0
        BY <1>10, <3>1, <4>1, Zenon
      <4>2. CASE j # 0
        <5>1. off[j] \in Nat /\ o[j] = off[j] - 1
          BY <1>3, <1>9, <1>10, <3>3, <4>2
        <5>. QED BY <3>1, <3>2, <5>1
      <4>. QED BY <4>1, <4>2, Zenon
    <3>6. q <= o[j + 1]
      BY <3>1, <3>2, <3>4
    <3>. QED BY <3>5, <3>6, Zenon
  <2>. QED BY <1>7, <1>10, <2>2, <2>3, <2>4, <2>5, <2>6, Zenon DEF Cut
<1>12. Blocks(Tail(f), C, n)
  BY <1>1, <1>7, <1>8, <1>11, Zenon DEF Blocks
<1>. QED BY <1>6, <1>12, Zenon DEF C

\* The blocks without block c, and the blocks with an empty one behind them.
Skipped(B, n, c) == [j \in 0..(n - 1) |-> IF j < c THEN B[j] ELSE B[j + 1]]
Extended(B, n) == [j \in 0..(n + 1) |-> IF j <= n THEN B[j] ELSE <<>>]

\* Leaving out an empty block.
LEMMA BlocksSkip ==
  ASSUME NEW f, NEW B, NEW n, Blocks(f, B, n), n # 0, NEW c \in 0..n, B[c] = <<>>
  PROVE  Blocks(f, Skipped(B, n, c), n - 1)
<1>1. n \in Nat /\ f \in Seq(Pids) /\ B \in [0..n -> Seq(Pids)] /\ n - 1 \in Nat
  BY DEF Blocks
<1>2. PICK off : Cut(f, B, n, off)
  BY Zenon DEF Blocks
<1>3. \A j \in 0..(n + 1) : off[j] \in 0..Len(f) /\ off[j] \in Int
  <2>1. Len(f) \in Nat
    BY <1>1, LenProperties, Zenon
  <2>2. \A j \in 0..(n + 1) : off[j] \in 0..Len(f)
    BY <1>2, Zenon DEF Cut
  <2>. QED BY <2>1, <2>2
<1>4. off[c + 1] = off[c]
  <2>1. off[c + 1] = off[c] + Len(B[c]) /\ Len(B[c]) = 0 /\ off[c] \in Int
    <3>1. c \in 0..(n + 1)
      BY <1>1
    <3>. QED BY <1>2, <1>3, <3>1, Zenon DEF Cut
  <2>. QED BY <2>1
<1>. DEFINE C == Skipped(B, n, c)
            m == n - 1
            o == [j \in 0..(m + 1) |-> IF j <= c THEN off[j] ELSE off[j + 1]]
<1>5. m \in Nat /\ m + 1 = n /\ m < n
  BY <1>1
<1>14. \A j \in 0..m : C[j] = IF j < c THEN B[j] ELSE B[j + 1]
  BY Zenon DEF Skipped
<1>15. C \in [0..m -> Seq(Pids)]
  <2>1. \A j \in 0..m : j \in 0..n /\ j + 1 \in 0..n
    BY <1>1
  <2>. QED BY <1>1, <2>1, Zenon DEF Skipped
<1>. HIDE DEF m, C
<1>6. \A j \in 0..(m + 1) : j \in 0..(n + 1) /\ j + 1 \in 0..(n + 1)
  BY <1>1, <1>5
<1>7. o \in [0..(m + 1) -> 0..Len(f)]
  BY <1>3, <1>6, Zenon
<1>8. \A j \in 0..(m + 1) : o[j] = IF j <= c THEN off[j] ELSE off[j + 1]
  OBVIOUS
<1>. HIDE DEF o
<1>9. o[0] = 0 /\ o[m + 1] = Len(f)
  <2>1. 0 \in 0..(m + 1) /\ 0 <= c /\ m + 1 \in 0..(m + 1) /\ n \in 0..(m + 1)
    BY <1>1, <1>5
  <2>2. o[0] = 0
    BY <1>2, <1>8, <2>1, Zenon DEF Cut
  <2>3. CASE c = n
    <3>1. n <= c
      BY <1>1, <2>3
    <3>. QED BY <1>2, <1>4, <1>5, <1>8, <2>1, <2>2, <2>3, <3>1, Zenon DEF Cut
  <2>4. CASE c # n
    <3>1. ~(n <= c)
      BY <1>1, <2>4
    <3>. QED BY <1>2, <1>5, <1>8, <2>1, <2>2, <3>1, Zenon DEF Cut
  <2>. QED BY <2>3, <2>4, Zenon
<1>10. \A j \in 0..(m + 1), k \in 0..(m + 1) : j <= k => o[j] <= o[k]
  <2>. TAKE j \in 0..(m + 1), k \in 0..(m + 1)
  <2>. SUFFICES ASSUME j <= k PROVE o[j] <= o[k]
    OBVIOUS
  <2>1. /\ j \in 0..(n + 1) /\ j + 1 \in 0..(n + 1) /\ k \in 0..(n + 1) /\ k + 1 \in 0..(n + 1)
        /\ j <= k + 1 /\ j + 1 <= k + 1
    BY <1>6
  <2>2. off[j] <= off[k] /\ off[j] <= off[k + 1] /\ off[j + 1] <= off[k + 1]
    BY <1>2, <2>1, Zenon DEF Cut
  <2>3. ~(j <= c) => ~(k <= c)
    BY <1>1, <2>1
  <2>. QED BY <1>8, <2>2, <2>3, Zenon
<1>11. ASSUME NEW j \in 0..m
       PROVE  /\ o[j + 1] = o[j] + Len(C[j])
              /\ \A i \in 1..Len(C[j]) : f[o[j] + i] = C[j][i]
  <2>1. /\ j \in 0..(m + 1) /\ j + 1 \in 0..(m + 1) /\ j \in 0..n /\ j + 1 \in 0..n
    BY <1>1, <1>5
  <2>2. CASE j < c
    <3>1. j <= c /\ j + 1 <= c
      BY <1>1, <2>1, <2>2
    <3>2. C[j] = B[j] /\ o[j] = off[j] /\ o[j + 1] = off[j + 1]
      BY <1>8, <1>14, <2>1, <2>2, <3>1, Zenon
    <3>. QED BY <1>2, <2>1, <3>2 DEF Cut
  <2>3. CASE j = c
    <3>1. j <= c /\ ~(j + 1 <= c) /\ ~(j < c)
      BY <1>1, <2>3
    <3>2. C[j] = B[j + 1] /\ o[j] = off[j + 1] /\ o[j + 1] = off[(j + 1) + 1]
      BY <1>4, <1>8, <1>14, <2>1, <2>3, <3>1, Zenon
    <3>. QED BY <1>2, <2>1, <3>2, ZenonT(40) DEF Cut
  <2>4. CASE j > c
    <3>1. ~(j <= c) /\ ~(j + 1 <= c) /\ ~(j < c)
      BY <1>1, <2>4
    <3>2. C[j] = B[j + 1] /\ o[j] = off[j + 1] /\ o[j + 1] = off[(j + 1) + 1]
      BY <1>8, <1>14, <2>1, <3>1, Zenon
    <3>. QED BY <1>2, <2>1, <3>2 DEF Cut
  <2>5. j < c \/ j = c \/ j > c
    <3>1. j \in Int /\ c \in Int
      BY <1>5
    <3>. QED BY <3>1
  <2>. QED BY <2>2, <2>3, <2>4, <2>5, Zenon
<1>16. ASSUME NEW q \in 1..Len(f) PROVE \E j \in 0..m : o[j] < q /\ q <= o[j + 1]
  <2>1. PICK l \in 0..n : off[l] < q /\ q <= off[l + 1]
    BY <1>2, Zenon DEF Cut
  <2>2. l \in 0..(n + 1) /\ l + 1 \in 0..(n + 1) /\ n \in Nat
    BY <1>5
  <2>3. l # c
    <3>1. off[l] \in Int /\ off[l + 1] \in Int /\ q \in Int
      BY <1>3, <2>2
    <3>2. ~(off[l + 1] = off[l])
      BY <2>1, <3>1
    <3>. QED BY <1>4, <3>2, Zenon
  <2>4. CASE l < c
    <3>1. l \in 0..m /\ l \in 0..(m + 1) /\ l + 1 \in 0..(m + 1) /\ l <= c /\ l + 1 <= c
      BY <1>5, <2>2, <2>4
    <3>2. o[l] = off[l] /\ o[l + 1] = off[l + 1]
      BY <1>8, <3>1, Zenon
    <3>. QED BY <2>1, <3>1, <3>2, Zenon
  <2>5. CASE l > c
    <3>. DEFINE j == l - 1
    <3>1. /\ j \in 0..m /\ j \in 0..(m + 1) /\ j + 1 \in 0..(m + 1) /\ j + 1 = l
          /\ ~(j + 1 <= c) /\ (j <= c => j = c)
      BY <1>5, <2>2, <2>5
    <3>. HIDE DEF j
    <3>2. o[j + 1] = off[l + 1]
      BY <1>8, <3>1, Zenon
    <3>3. o[j] = off[l]
      <4>1. CASE j <= c
        BY <1>4, <1>8, <3>1, <4>1, Zenon
      <4>2. CASE ~(j <= c)
        BY <1>8, <3>1, <4>2, Zenon
      <4>. QED BY <4>1, <4>2, Zenon
    <3>. QED BY <2>1, <3>1, <3>2, <3>3, Zenon
  <2>6. l < c \/ l > c
    <3>1. l \in Int /\ c \in Int
      BY <1>5
    <3>. QED BY <2>3, <3>1
  <2>. QED BY <2>4, <2>5, <2>6, Zenon
<1>12. Cut(f, C, m, o)
  BY <1>7, <1>9, <1>10, <1>11, <1>16, Zenon DEF Cut
<1>13. Blocks(f, C, m)
  <2>1. n \in Nat /\ f \in Seq(Pids) /\ m \in Nat /\ \E q : Cut(f, C, m, q)
    BY <1>1, <1>5, <1>12, Zenon
  <2>. QED BY <1>15, <2>1, Zenon DEF Blocks
<1>. QED BY <1>13, Zenon DEF m, C

\* One more block, empty, at the end.
LEMMA BlocksExtend ==
  ASSUME NEW f, NEW B, NEW n, Blocks(f, B, n)
  PROVE  Blocks(f, Extended(B, n), n + 1)
<1>1. n \in Nat /\ f \in Seq(Pids) /\ B \in [0..n -> Seq(Pids)] /\ n + 1 \in Nat
  BY DEF Blocks
<1>2. PICK off : Cut(f, B, n, off)
  BY Zenon DEF Blocks
<1>. DEFINE C == Extended(B, n)
            m == n + 1
            o == [j \in 0..(m + 1) |-> IF j <= m THEN off[j] ELSE Len(f)]
<1>3. Len(f) \in Nat /\ \A j \in 0..(n + 1) : off[j] \in 0..Len(f)
  BY <1>1, <1>2, LenProperties, Zenon DEF Cut
<1>4. \A j \in 0..m : C[j] = IF j <= n THEN B[j] ELSE <<>>
  BY Zenon DEF Extended
<1>5. C \in [0..m -> Seq(Pids)]
  BY <1>1, EmptyList DEF Extended
<1>6. m \in Nat /\ m = n + 1
  BY <1>1, Zenon
<1>. HIDE DEF m, C
<1>7. /\ \A j \in 0..m : j \in 0..(m + 1) /\ j <= m
      /\ m + 1 \in 0..(m + 1) /\ ~(m + 1 <= m)
      /\ \A j \in 0..(m + 1) : j <= m => j \in 0..m
  BY <1>6
<1>8. /\ o \in [0..(m + 1) -> 0..Len(f)]
      /\ \A j \in 0..m : o[j] = off[j]
      /\ o[m + 1] = Len(f)
  <2>1. Len(f) \in 0..Len(f) /\ \A j \in 0..m : off[j] \in 0..Len(f)
    BY <1>3, <1>6
  <2>2. \A j \in 0..(m + 1) : (IF j <= m THEN off[j] ELSE Len(f)) \in 0..Len(f)
    BY <1>7, <2>1, Zenon
  <2>. QED BY <1>7, <2>2, Zenon
<1>. HIDE DEF o
<1>9. o[0] = 0
  <2>1. 0 \in 0..m
    BY <1>6
  <2>. QED BY <1>2, <1>8, <2>1, Zenon DEF Cut
<1>10. o[m] = Len(f)
  <2>1. m \in 0..m
    BY <1>6
  <2>. QED BY <1>2, <1>6, <1>8, <2>1, Zenon DEF Cut
<1>11. \A j \in 0..(m + 1), k \in 0..(m + 1) : j <= k => o[j] <= o[k]
  <2>. TAKE j \in 0..(m + 1), k \in 0..(m + 1)
  <2>. SUFFICES ASSUME j <= k PROVE o[j] <= o[k]
    OBVIOUS
  <2>1. CASE k <= m
    <3>1. j \in 0..m /\ k \in 0..m
      BY <1>6, <2>1
    <3>2. off[j] <= off[k]
      BY <1>2, <1>6, <3>1, Zenon DEF Cut
    <3>. QED BY <1>8, <3>1, <3>2, Zenon
  <2>2. CASE ~(k <= m)
    <3>1. k = m + 1
      BY <1>6, <2>2
    <3>2. o[j] \in 0..Len(f)
      BY <1>8, Zenon
    <3>. QED BY <1>3, <1>8, <3>1, <3>2
  <2>. QED BY <2>1, <2>2, Zenon
<1>12. ASSUME NEW j \in 0..m
       PROVE  /\ o[j + 1] = o[j] + Len(C[j])
              /\ \A i \in 1..Len(C[j]) : f[o[j] + i] = C[j][i]
  <2>1. CASE j <= n
    <3>1. j \in 0..n /\ j + 1 \in 0..m
      BY <1>1, <1>6, <2>1
    <3>2. C[j] = B[j] /\ o[j] = off[j] /\ o[j + 1] = off[j + 1]
      BY <1>4, <1>8, <2>1, <3>1, Zenon
    <3>. QED BY <1>2, <3>1, <3>2, Zenon DEF Cut
  <2>2. CASE ~(j <= n)
    <3>1. j = m
      BY <1>1, <1>6, <2>2
    <3>2. C[j] = <<>> /\ o[j] = Len(f) /\ o[j + 1] = Len(f)
      BY <1>4, <1>8, <1>10, <2>2, <3>1, Zenon
    <3>3. Len(C[j]) = 0
      BY <3>2
    <3>. QED BY <1>3, <3>2, <3>3
  <2>. QED BY <2>1, <2>2, Zenon
<1>15. ASSUME NEW q \in 1..Len(f) PROVE \E j \in 0..m : o[j] < q /\ q <= o[j + 1]
  <2>1. PICK l \in 0..n : off[l] < q /\ q <= off[l + 1]
    BY <1>2, Zenon DEF Cut
  <2>2. l \in 0..m /\ l + 1 \in 0..m
    <3>1. n \in Nat
      BY <1>1, Zenon
    <3>. QED BY <1>6, <3>1
  <2>. QED BY <1>8, <2>1, <2>2, Zenon
<1>13. Cut(f, C, m, o)
  BY <1>8, <1>9, <1>11, <1>12, <1>15, Zenon DEF Cut
<1>14. Blocks(f, C, m)
  BY <1>1, <1>5, <1>6, <1>13, Zenon DEF Blocks
<1>. QED BY <1>14, Zenon DEF C, m

\* One more element at the end of the last block that is not empty, or of one
\* behind it.
LEMMA BlocksAppend ==
  ASSUME NEW f, NEW B, NEW n, Blocks(f, B, n), NEW p \in Pids,
         NEW c \in 0..n, \A j \in 0..n : c < j => B[j] = <<>>
  PROVE  Blocks(Append(f, p), [B EXCEPT ![c] = Append(B[c], p)], n)
<1>1. n \in Nat /\ f \in Seq(Pids) /\ B \in [0..n -> Seq(Pids)] /\ c \in Nat
  BY DEF Blocks
<1>2. PICK off : Cut(f, B, n, off)
  BY Zenon DEF Blocks
<1>. DEFINE C == [B EXCEPT ![c] = Append(B[c], p)]
            g == Append(f, p)
            z == Len(f)
            o == [j \in 0..(n + 1) |-> IF j <= c THEN off[j] ELSE z + 1]
<1>3. \A j \in 0..(n + 1) : c < j => off[j] = z
  BY <1>2, EmptyRest
<1>4. z \in Nat /\ g \in Seq(Pids) /\ Len(g) = z + 1 /\ g[z + 1] = p /\ \A k \in 1..z : g[k] = f[k]
  BY <1>1, LenProperties, AppendProperties
<1>5. /\ Len(B[c]) \in Nat /\ Append(B[c], p) \in Seq(Pids)
      /\ Len(Append(B[c], p)) = Len(B[c]) + 1 /\ Append(B[c], p)[Len(B[c]) + 1] = p
      /\ \A i \in 1..Len(B[c]) : Append(B[c], p)[i] = B[c][i]
  <2>. DEFINE b == B[c]
  <2>1. b \in Seq(Pids)
    BY <1>1, Zenon
  <2>. HIDE DEF b
  <2>2. /\ Len(b) \in Nat /\ Append(b, p) \in Seq(Pids)
        /\ Len(Append(b, p)) = Len(b) + 1 /\ Append(b, p)[Len(b) + 1] = p
        /\ \A i \in 1..Len(b) : Append(b, p)[i] = b[i]
    BY <2>1, LenProperties, AppendProperties
  <2>. QED BY <2>2, Zenon DEF b
<1>6. /\ C \in [0..n -> Seq(Pids)] /\ C[c] = Append(B[c], p)
      /\ \A j \in 0..n : j # c => C[j] = B[j]
  BY <1>1, <1>5, Zenon
<1>7. \A j \in 0..(n + 1) : off[j] \in 0..z
  BY <1>2, Zenon DEF Cut
<1>. HIDE DEF z, g
<1>8. /\ o \in [0..(n + 1) -> 0..(z + 1)]
      /\ \A j \in 0..(n + 1) : o[j] = IF j <= c THEN off[j] ELSE z + 1
  <2>1. \A j \in 0..(n + 1) : off[j] \in 0..(z + 1) /\ z + 1 \in 0..(z + 1)
    BY <1>4, <1>7
  <2>. QED BY <2>1, Zenon
<1>. HIDE DEF o, C
<1>9. o[0] = 0 /\ o[n + 1] = z + 1
  <2>1. 0 \in 0..(n + 1) /\ n + 1 \in 0..(n + 1) /\ 0 <= c /\ ~(n + 1 <= c)
    BY <1>1
  <2>. QED BY <1>2, <1>8, <2>1, Zenon DEF Cut
<1>10. \A j \in 0..(n + 1), k \in 0..(n + 1) : j <= k => o[j] <= o[k]
  <2>. TAKE j \in 0..(n + 1), k \in 0..(n + 1)
  <2>. SUFFICES ASSUME j <= k PROVE o[j] <= o[k]
    OBVIOUS
  <2>1. CASE k <= c
    <3>1. j <= c
      BY <1>1, <2>1
    <3>2. off[j] <= off[k]
      BY <1>2, Zenon DEF Cut
    <3>. QED BY <1>8, <2>1, <3>1, <3>2, Zenon
  <2>2. CASE ~(k <= c)
    <3>1. o[k] = z + 1 /\ o[j] \in 0..(z + 1)
      BY <1>8, <2>2, Zenon
    <3>. QED BY <1>4, <3>1
  <2>. QED BY <2>1, <2>2, Zenon
<1>11. ASSUME NEW j \in 0..n
       PROVE  /\ o[j + 1] = o[j] + Len(C[j])
              /\ \A i \in 1..Len(C[j]) : g[o[j] + i] = C[j][i]
  <2>1. j \in 0..(n + 1) /\ j + 1 \in 0..(n + 1)
    BY <1>1
  <2>2. /\ off[j + 1] = off[j] + Len(B[j]) /\ off[j] \in 0..z /\ off[j + 1] \in 0..z
        /\ \A i \in 1..Len(B[j]) : f[off[j] + i] = B[j][i]
    BY <1>2, <1>7, <2>1, Zenon DEF Cut
  <2>3. Len(B[j]) \in Nat
    BY <1>1, LenProperties, Zenon
  <2>4. \A i \in 1..Len(B[j]) : off[j] + i \in 1..z /\ g[off[j] + i] = B[j][i]
    <3>1. \A i \in 1..Len(B[j]) : off[j] + i \in 1..z
      <4>. DEFINE a == off[j]
                  l == Len(B[j])
      <4>1. z \in Nat /\ l \in Nat /\ a \in 0..z /\ a + l \in 0..z
        BY <1>4, <2>2, <2>3, Zenon
      <4>. HIDE DEF a, l, z
      <4>2. \A i \in 1..l : a + i \in 1..z
        BY <4>1
      <4>. QED BY <4>2, Zenon DEF a, l
    <3>. QED BY <1>4, <2>2, <3>1, Zenon
  <2>5. CASE j < c
    <3>1. j <= c /\ j + 1 <= c /\ j # c
      BY <1>1, <2>5
    <3>2. o[j] = off[j] /\ o[j + 1] = off[j + 1] /\ C[j] = B[j]
      BY <1>6, <1>8, <2>1, <3>1, Zenon
    <3>. QED BY <2>2, <2>4, <3>2, Zenon
  <2>6. CASE j = c
    <3>1. j <= c /\ ~(j + 1 <= c) /\ c < j + 1
      BY <1>1, <2>6
    <3>2. o[j] = off[j] /\ o[j + 1] = z + 1 /\ off[j + 1] = z
      BY <1>3, <1>8, <2>1, <3>1, Zenon
    <3>3. C[j] = Append(B[j], p)
      BY <1>6, <2>6, Zenon
    <3>4. o[j + 1] = o[j] + Len(C[j]) /\ Len(C[j]) = Len(B[j]) + 1
      <4>1. Len(C[j]) = Len(B[j]) + 1
        BY <1>5, <2>6, <3>3, Zenon
      <4>2. z \in Nat /\ off[j] \in Nat /\ z = off[j] + Len(B[j])
        BY <1>4, <2>2, <3>2
      <4>. QED BY <2>3, <3>2, <4>1, <4>2
    <3>5. ASSUME NEW i \in 1..Len(C[j]) PROVE g[o[j] + i] = C[j][i]
      <4>1. CASE i \in 1..Len(B[j])
        BY <1>5, <2>4, <2>6, <3>2, <3>3, <4>1
      <4>2. CASE i \notin 1..Len(B[j])
        <5>1. i = Len(B[j]) + 1
          BY <2>3, <3>4, <4>2
        <5>2. o[j] + i = z + 1
          <6>. DEFINE a == off[j]
                      l == Len(B[j])
          <6>1. l \in Nat /\ z \in Nat /\ a \in 0..z /\ z = a + l /\ o[j] = a /\ i = l + 1
            BY <1>4, <2>2, <2>3, <3>2, <5>1, Zenon
          <6>. HIDE DEF a, l, z
          <6>2. a + (l + 1) = z + 1
            BY <6>1
          <6>. QED BY <6>1, <6>2, Zenon
        <5>3. C[j][i] = p
          BY <1>5, <2>6, <3>3, <5>1, Zenon
        <5>. QED BY <1>4, <5>2, <5>3, Zenon
      <4>. QED BY <4>1, <4>2, Zenon
    <3>. QED BY <3>4, <3>5, Zenon
  <2>7. CASE j > c
    <3>1. ~(j <= c) /\ ~(j + 1 <= c) /\ c < j /\ j # c
      BY <1>1, <2>7
    <3>2. o[j] = z + 1 /\ o[j + 1] = z + 1 /\ C[j] = <<>>
      BY <1>6, <1>8, <2>1, <3>1, Zenon
    <3>3. Len(C[j]) = 0
      BY <3>2
    <3>. QED BY <1>4, <3>2, <3>3
  <2>. QED BY <1>1, <2>5, <2>6, <2>7, SMTT(20)
<1>14. ASSUME NEW q \in 1..(z + 1) PROVE \E j \in 0..n : o[j] < q /\ q <= o[j + 1]
  <2>1. n \in Nat /\ c \in Nat /\ z \in Nat
    BY <1>1, <1>4, Zenon
  <2>2. CASE q = z + 1
    <3>1. c \in 0..(n + 1) /\ c + 1 \in 0..(n + 1) /\ c <= c /\ ~(c + 1 <= c)
      BY <2>1
    <3>2. o[c] = off[c] /\ o[c + 1] = z + 1 /\ off[c] \in 0..z
      BY <1>7, <1>8, <3>1, Zenon
    <3>3. o[c] < q /\ q <= o[c + 1]
      BY <2>1, <2>2, <3>2
    <3>. QED BY <3>3, Zenon
  <2>3. CASE q # z + 1
    <3>1. q \in 1..z
      BY <2>1, <2>3
    <3>2. PICK j \in 0..n : off[j] < q /\ q <= off[j + 1]
      BY <1>2, <3>1, Zenon DEF Cut, z
    <3>3. j \in 0..(n + 1) /\ j + 1 \in 0..(n + 1)
      BY <2>1
    <3>4. off[j] \in 0..z /\ off[j + 1] \in 0..z
      BY <1>7, <3>3, Zenon
    <3>5. j <= c
      <4>1. off[j] # z
        BY <2>1, <3>1, <3>2, <3>4
      <4>2. ~(c < j)
        BY <1>3, <3>3, <4>1, Zenon
      <4>. QED BY <2>1, <4>2
    <3>6. o[j] = off[j] /\ (o[j + 1] = off[j + 1] \/ o[j + 1] = z + 1)
      BY <1>8, <3>3, <3>5, Zenon
    <3>7. o[j] < q /\ q <= o[j + 1]
      BY <2>1, <3>1, <3>2, <3>4, <3>6
    <3>. QED BY <3>7, Zenon
  <2>. QED BY <2>2, <2>3, Zenon
<1>12. Cut(g, C, n, o)
  BY <1>4, <1>8, <1>9, <1>10, <1>11, <1>14, Zenon DEF Cut
<1>13. Blocks(g, C, n)
  BY <1>1, <1>4, <1>6, <1>12, Zenon DEF Blocks
<1>. QED BY <1>13, Zenon DEF g, C

-----------------------------------------------------------------------------
(* Arithmetic of the slots *)

\* The number of slots until the frame counter is back.
Period == Frames * Slots

LEMMA Periods ==
  /\ Period \in Nat /\ Period > 0 /\ K1 \in 1..(Period - 1) /\ Times = 0..(Period - 1)
  /\ 0 \in Times /\ \A t \in Nat, k \in Nat : Later(t, k) \in Times
<1>1. Period \in Nat /\ K1 \in 1..(Period - 1) /\ Times = 0..(Period - 1)
  BY HarqAssumption DEF Period, Times
<1>2. Period > 0 /\ 0 \in Times
  BY <1>1
<1>3. ASSUME NEW t \in Nat, NEW k \in Nat PROVE Later(t, k) \in Times
  <2>1. Later(t, k) = (t + k) % Period
    BY Zenon DEF Later, Period
  <2>. QED BY <1>1, <1>2, <2>1
<1>. QED BY <1>1, <1>2, <1>3, Zenon

LEMMA Division ==
  ASSUME NEW a \in Nat, NEW m \in Nat, m > 0
  PROVE  a \div m \in Nat /\ a % m \in 0..(m - 1) /\ a = m * (a \div m) + (a % m)
OBVIOUS

LEMMA Monotone ==
  ASSUME NEW a \in Int, NEW b \in Int, NEW m \in Nat, a <= b
  PROVE  m * a <= m * b
OBVIOUS

\* The remainder of a number below twice the modulus.
LEMMA Remainder ==
  ASSUME NEW a \in Nat, NEW m \in Nat, m > 0, a < 2 * m
  PROVE  a % m = IF a < m THEN a ELSE a - m
<1>. DEFINE q == a \div m
            r == a % m
<1>1. q \in Nat /\ r \in 0..(m - 1) /\ a = m * q + r
  BY Division, Zenon
<1>. HIDE DEF q, r
<1>2. ~(q >= 2)
  <2>. SUFFICES ASSUME q >= 2 PROVE FALSE
    OBVIOUS
  <2>1. m * 2 <= m * q
    BY <1>1, Monotone
  <2>. QED BY <1>1, <2>1
<1>3. q = 0 \/ q = 1
  BY <1>1, <1>2
<1>4. CASE q = 0
  BY <1>1, <1>4 DEF r
<1>5. CASE q = 1
  BY <1>1, <1>5 DEF r
<1>. QED BY <1>3, <1>4, <1>5, Zenon

\* The slot k slots later.
LEMMA LaterIs ==
  ASSUME NEW t \in Times, NEW k \in 0..Period
  PROVE  Later(t, k) = IF t + k < Period THEN t + k ELSE (t + k) - Period
<1>1. Later(t, k) = (t + k) % Period
  BY Zenon DEF Later, Period
<1>2. Period \in Nat /\ Period > 0 /\ Times = 0..(Period - 1)
  BY Periods, Zenon
<1>. DEFINE a == t + k
<1>3. a \in Nat /\ a < 2 * Period
  BY <1>2
<1>. HIDE DEF a
<1>4. a % Period = IF a < Period THEN a ELSE a - Period
  BY <1>2, <1>3, Remainder, Zenon
<1>. QED BY <1>1, <1>4, Zenon DEF a

LEMMA LaterNext ==
  ASSUME NEW t \in Times, NEW k \in 0..(Period - 1)
  PROVE  Later(t, 1) \in Times /\ Later(Later(t, 1), k) = Later(t, k + 1)
<1>1. Period \in Nat /\ Period > 0 /\ Times = 0..(Period - 1) /\ K1 \in 1..(Period - 1)
  BY Periods, Zenon
<1>2. /\ t \in Nat /\ t < Period /\ k \in Nat /\ k < Period
      /\ 1 \in 0..Period /\ k \in 0..Period /\ k + 1 \in 0..Period
  BY <1>1
<1>3. Later(t, 1) = IF t + 1 < Period THEN t + 1 ELSE (t + 1) - Period
  BY <1>2, LaterIs, Zenon
<1>4. Later(t, 1) \in Times
  BY <1>1, <1>2, <1>3
<1>. DEFINE u == Later(t, 1)
<1>5. /\ Later(u, k) = IF u + k < Period THEN u + k ELSE (u + k) - Period
      /\ Later(t, k + 1) = IF t + (k + 1) < Period THEN t + (k + 1) ELSE (t + (k + 1)) - Period
  BY <1>2, <1>4, LaterIs, Zenon
<1>6. u = IF t + 1 < Period THEN t + 1 ELSE (t + 1) - Period
  BY <1>3, Zenon
<1>. HIDE DEF u
<1>7. Later(u, k) = Later(t, k + 1)
  BY <1>1, <1>2, <1>5, <1>6
<1>. QED BY <1>4, <1>7, Zenon DEF u

LEMMA LaterApart ==
  ASSUME NEW t \in Times, NEW k \in 1..Period, NEW l \in 1..Period, Later(t, k) = Later(t, l)
  PROVE  k = l
<1>1. Period \in Nat /\ Period > 0 /\ Times = 0..(Period - 1)
  BY Periods, Zenon
<1>2. k \in 0..Period /\ l \in 0..Period
  BY <1>1
<1>3. /\ Later(t, k) = IF t + k < Period THEN t + k ELSE (t + k) - Period
      /\ Later(t, l) = IF t + l < Period THEN t + l ELSE (t + l) - Period
  BY <1>2, LaterIs, Zenon
<1>4. /\ t \in Nat /\ t < Period /\ k \in Nat /\ 1 <= k /\ k <= Period
      /\ l \in Nat /\ 1 <= l /\ l <= Period /\ Period \in Nat
  BY <1>1
<1>5. (IF t + k < Period THEN t + k ELSE (t + k) - Period)
        = (IF t + l < Period THEN t + l ELSE (t + l) - Period)
  BY <1>3, Zenon
<1>. QED BY <1>4, <1>5

\* A feedback due in the slot of the indication is neither missed nor early.
LEMMA DueNow ==
  ASSUME NEW t \in Times PROVE ~InPast(t, t) /\ ~InFuture(t, t)
<1>1. Frames \in Nat /\ Frames > 0 /\ Slots \in Nat /\ Slots > 0
  BY HarqAssumption
<1>2. t \in Nat
  BY Periods
<1>3. frame(t) \in Nat /\ slot(t) \in Nat
  BY <1>1, <1>2, Division DEF frame, slot
<1>4. frame(t) - frame(t) + Frames = Frames
  BY <1>1, <1>3
<1>5. Frames % Frames = 0
  BY <1>1, Remainder
<1>6. Frames \div 2 \in Nat
  BY <1>1
<1>. QED BY <1>3, <1>4, <1>5, <1>6 DEF InPast, InFuture

-----------------------------------------------------------------------------
(* The inductive invariant of the lists *)

\* The types of what the lists are about, and the other types.
ProcTypes ==
  /\ len \in {InitHarq, NumHarq}
  /\ available \in Seq(Pids) /\ feedback \in Seq(Pids) /\ retrans \in Seq(Pids)
  /\ round \in [Pids -> 0..(RoundMax - 1)] /\ is_waiting \in [Pids -> BOOLEAN]
  /\ ra \in {"idle", "Msg4", "WAIT_Msg4_ACK"} /\ ra_pid \in Pids
  /\ Msg4_ACKed \in BOOLEAN /\ pc \in {"unlocked", "ra", "ue", "uci", "reset"}
NdiTypes == ndi \in [Pids -> 0..1] /\ sent \in [Pids -> 0..2] /\ cut \subseteq Pids
RestTypes ==
  /\ at \in [Pids -> Times] /\ ul_failure \in BOOLEAN /\ ras \in Nat /\ now \in Times
  /\ pucch \in [Times -> Seq(Pids)] /\ ul \subseteq Times
  /\ phy \in Seq([at : Times, bits : Seq(Pids)]) /\ lost \in Nat
  /\ uci \in [at : Times, bits : Seq(Pids)] /\ bit \in Nat \ {0}
  /\ credited \in Pids \X Pids

\* What the PHY hands over.
Indications == [at : Times, bits : Seq(Pids)]

\* OneList and NoneLost; only the process of a Msg4 under way is on two lists.
Apart ==
  /\ IsInjective(available) /\ IsInjective(feedback) /\ IsInjective(retrans)
  /\ Range(available) \cap Range(feedback) = {}
  /\ Known = Range(available) \cup Range(feedback) \cup Range(retrans)
  /\ \A p \in Range(retrans) : p \in Range(available) \/ p \in Range(feedback) =>
       ra = "WAIT_Msg4_ACK" /\ p = ra_pid

\* The waiting mark and the round of a process say which lists it is on.
Marked ==
  pc # "reset" =>
    \A p \in Pids : /\ is_waiting[p] <=> p \in Range(feedback)
                    /\ p \in Range(available) \/ p \notin Known => round[p] = 0
                    /\ p \in Range(retrans) /\ p \notin Range(available) => round[p] > 0

\* Until Msg4 is acknowledged its process is the only one in use.
Access ==
  /\ pc = "reset" => ra = "idle" /\ ~Msg4_ACKed
  /\ ra # "idle" => /\ \A p \in Range(feedback) : p = ra_pid
                    /\ \A p \in Range(retrans) : p = ra_pid
  /\ ra = "Msg4" => Range(feedback) = {} /\ ~Msg4_ACKed
  /\ ra = "WAIT_Msg4_ACK" =>
       /\ ra_pid \in Known
       /\ is_waiting[ra_pid] => ~Msg4_ACKed
       /\ ~is_waiting[ra_pid] => pc # "ue" /\ (Msg4_ACKed => round[ra_pid] = 0)
Sorted == ProcTypes /\ Apart /\ Marked /\ Access

-----------------------------------------------------------------------------
(* What is sent *)

\* What the constants are.
LEMMA Constants ==
  /\ NumHarq \in Nat /\ InitHarq \in Nat /\ InitHarq <= NumHarq /\ InitHarq > 0
  /\ RoundMax \in Nat /\ RoundMax > 0 /\ 0 \in 0..(RoundMax - 1)
  /\ 0 \in Pids
BY HarqAssumption DEF Pids

\* What holds while a UE may be scheduled: no random access is under way.
LEMMA ScheduledIdle ==
  ASSUME Sorted, Schedulable
  PROVE  /\ ra = "idle" /\ pc = "ue" /\ Msg4_ACKed
         /\ \A q \in Range(retrans) : q \notin Range(available) /\ q \notin Range(feedback)
<1>1. pc = "ue" /\ Msg4_ACKed /\ ProcTypes /\ Apart /\ Access
  BY Zenon DEF Schedulable, Sorted
<1>2. ra = "idle"
  BY <1>1, Zenon DEF Access, ProcTypes
<1>. QED BY <1>1, <1>2, Zenon DEF Apart

\* The process sent is known, and not waiting: what the senders have in common.
LEMMA Sent ==
  ASSUME Sorted, GenerateMsg4 \/ ScheduleRetx \/ ScheduleNew
  PROVE  \E p \in Pids, t \in Times :
           /\ Transmit(p, t) /\ Occasion(t) /\ p \notin Range(feedback) /\ ~is_waiting[p]
           /\ pc \in {"ra", "ue"} /\ pc' # "reset"
           /\ UNCHANGED <<ul_failure, ras>>
<1>0. ProcTypes /\ Apart /\ Marked /\ Access
  BY Zenon DEF Sorted
<1>1. CASE GenerateMsg4
  <2>. DEFINE p == IF retrans # <<>> THEN Head(retrans) ELSE Head(available)
  <2>1. pc = "ra" /\ Range(feedback) = {}
    BY <1>0, <1>1, Zenon DEF GenerateMsg4, Access
  <2>2. 0 \in Known
    BY <1>0, Constants DEF ProcTypes, Known
  <2>3. ~(retrans = <<>> /\ available = <<>>)
    BY <1>0, <2>1, <2>2, EmptyList, Zenon DEF Apart
  <2>4. PICK t \in Times : /\ Occasion(t) /\ Transmit(p, t) /\ pc' = "ue"
                           /\ UNCHANGED <<ul_failure, ras>>
    BY <1>1, <2>3, Zenon DEF GenerateMsg4
  <2>5. p \in Pids
    BY <1>0, <2>3, TailRemoves, Zenon DEF ProcTypes, Apart
  <2>. HIDE DEF p
  <2>6. ~is_waiting[p] /\ p \notin Range(feedback)
    BY <1>0, <2>1, <2>5, Zenon DEF Marked
  <2>. QED BY <2>1, <2>4, <2>5, <2>6, ZenonT(40)
<1>2. CASE ScheduleRetx
  <2>. DEFINE p == Head(retrans)
  <2>1. retrans # <<>> /\ pc = "ue" /\ \A q \in Range(retrans) : q \notin Range(feedback)
    BY <1>2, ScheduledIdle, Zenon DEF ScheduleRetx
  <2>2. p \in Pids /\ p \in Range(retrans)
    BY <1>0, <2>1, TailRemoves, Zenon DEF ProcTypes, Apart
  <2>3. PICK t \in Times : Occasion(t) /\ Transmit(p, t)
    BY <1>2, Zenon DEF ScheduleRetx
  <2>4. pc' = "unlocked" /\ UNCHANGED <<ul_failure, ras>>
    BY <1>2, Zenon DEF ScheduleRetx, access
  <2>. HIDE DEF p
  <2>5. ~is_waiting[p] /\ p \notin Range(feedback)
    BY <1>0, <2>1, <2>2, Zenon DEF Marked
  <2>. QED BY <2>1, <2>2, <2>3, <2>4, <2>5, Zenon
<1>3. CASE ScheduleNew
  <2>. DEFINE p == Head(available)
  <2>1. available # <<>> /\ pc = "ue"
    BY <1>3, ScheduledIdle, Zenon DEF ScheduleNew
  <2>2. p \in Pids /\ p \in Range(available)
    BY <1>0, <2>1, TailRemoves, Zenon DEF ProcTypes, Apart
  <2>3. PICK t \in Times : Occasion(t) /\ Transmit(p, t)
    BY <1>3, Zenon DEF ScheduleNew
  <2>4. pc' = "unlocked" /\ UNCHANGED <<ul_failure, ras>>
    BY <1>3, Zenon DEF ScheduleNew, access
  <2>. HIDE DEF p
  <2>5. ~is_waiting[p] /\ p \notin Range(feedback)
    BY <1>0, <2>1, <2>2, Zenon DEF Marked, Apart
  <2>. QED BY <2>1, <2>2, <2>3, <2>4, <2>5, Zenon
<1>. QED BY <1>1, <1>2, <1>3, Zenon

-----------------------------------------------------------------------------
(* The PUCCHs to come *)

\* Acknowledgements are due within the feedback delay only, and none is due behind
\* a PUCCH that has room.
PucchInv ==
  /\ \A t \in Times : (\A k \in 1..K1 : t # Later(now, k)) => pucch[t] = <<>>
  /\ \A l \in 1..K1, k \in 1..K1 : k < l /\ pucch[Later(now, l)] # <<>> => ~HasRoom(k)

\* A slot on, the PUCCHs to come are the same but for the first.
LEMMA PucchShift ==
  ASSUME RestTypes, PucchInv, SlotStart
  PROVE  /\ now \in Times /\ now' \in Times /\ now' = Later(now, 1)
         /\ \A k \in 1..K1 : /\ Later(now', k) = Later(now, k + 1)
                             /\ Later(now', k) \in Times /\ Later(now', k) # now'
                             /\ pucch'[Later(now', k)] = pucch[Later(now, k + 1)]
         /\ pucch[Later(now, K1 + 1)] = <<>>
<1>1. /\ Period \in Nat /\ Period > 0 /\ Times = 0..(Period - 1) /\ K1 \in 1..(Period - 1)
      /\ \A t \in Nat, k \in Nat : Later(t, k) \in Times
  BY Periods, Zenon
<1>2. now \in Times /\ now' = Later(now, 1) /\ pucch' = [pucch EXCEPT ![now'] = <<>>]
  BY Zenon DEF SlotStart, RestTypes
<1>3. /\ now \in Nat /\ 1 \in Nat /\ 1 \in 1..Period /\ K1 + 1 \in 1..Period
      /\ \A k \in 1..K1 : /\ k \in Nat /\ k + 1 \in Nat /\ k \in 0..(Period - 1)
                          /\ k + 1 \in 1..Period /\ k + 1 # 1 /\ k \in 1..Period /\ k # K1 + 1
  <2>1. now \in Nat
    BY <1>1, <1>2
  <2>2. K1 \in Nat /\ 1 <= K1 /\ K1 < Period /\ Period \in Nat
    BY <1>1
  <2>3. 1 \in 1..Period /\ K1 + 1 \in 1..Period
    BY <2>2
  <2>4. \A k \in 1..K1 : /\ k \in Nat /\ k + 1 \in Nat /\ k \in 0..(Period - 1)
                         /\ k + 1 \in 1..Period /\ k + 1 # 1 /\ k \in 1..Period /\ k # K1 + 1
    BY <2>2
  <2>. QED BY <2>1, <2>3, <2>4, Zenon
<1>4. now' \in Times /\ now' \in Nat
  BY <1>1, <1>2, <1>3
<1>5. \A k \in 1..K1 : Later(now', k) = Later(now, k + 1)
  BY <1>2, <1>3, LaterNext, Zenon
<1>6. \A k \in 1..K1 : Later(now', k) \in Times /\ Later(now', k) # now'
  <2>. TAKE k \in 1..K1
  <2>1. Later(now', k) \in Times
    BY <1>1, <1>3, <1>4, Zenon
  <2>2. Later(now, k + 1) # Later(now, 1)
    BY <1>2, <1>3, LaterApart, Zenon
  <2>. QED BY <1>2, <1>5, <2>1, <2>2, Zenon
<1>7. \A k \in 1..K1 : pucch'[Later(now', k)] = pucch[Later(now, k + 1)]
  <2>. TAKE k \in 1..K1
  <2>1. pucch'[Later(now', k)] = pucch[Later(now', k)]
    BY <1>2, <1>6, Zenon DEF RestTypes
  <2>. QED BY <1>5, <2>1, Zenon
<1>8. pucch[Later(now, K1 + 1)] = <<>>
  <2>1. K1 + 1 \in Nat
    BY <1>1
  <2>2. Later(now, K1 + 1) \in Times
    BY <1>1, <1>3, <2>1, Zenon
  <2>3. \A k \in 1..K1 : Later(now, K1 + 1) # Later(now, k)
    BY <1>2, <1>3, LaterApart, Zenon
  <2>. QED BY <2>2, <2>3, Zenon DEF PucchInv
<1>. QED BY <1>2, <1>4, <1>5, <1>6, <1>7, <1>8, Zenon

LEMMA PucchSlot ==
  ASSUME RestTypes, PucchInv, SlotStart PROVE PucchInv'
<1>0. /\ now \in Times /\ now' \in Times /\ now' = Later(now, 1)
      /\ \A k \in 1..K1 : /\ Later(now', k) = Later(now, k + 1)
                          /\ Later(now', k) \in Times /\ Later(now', k) # now'
                          /\ pucch'[Later(now', k)] = pucch[Later(now, k + 1)]
      /\ pucch[Later(now, K1 + 1)] = <<>>
  BY PucchShift, Zenon
<1>1. pucch' = [pucch EXCEPT ![now'] = <<>>] /\ pucch \in [Times -> Seq(Pids)]
  BY Zenon DEF SlotStart, RestTypes
<1>2. K1 \in Nat /\ K1 >= 1 /\ K1 < Period /\ Period \in Nat
  BY Periods
<1>3. ASSUME NEW t \in Times, \A k \in 1..K1 : t # Later(now', k)
      PROVE  pucch'[t] = <<>>
  <2>1. CASE t = now'
    BY <1>0, <1>1, <2>1, Zenon
  <2>2. CASE t # now'
    <3>1. \A k \in 1..K1 : k = 1 \/ (k - 1 \in 1..K1 /\ (k - 1) + 1 = k)
      BY <1>2
    <3>2. \A k \in 1..K1 : t # Later(now, k)
      <4>. TAKE k \in 1..K1
      <4>1. CASE k = 1
        BY <1>0, <2>2, <4>1, Zenon
      <4>2. CASE k # 1
        <5>1. k - 1 \in 1..K1 /\ (k - 1) + 1 = k
          BY <3>1, <4>2, Zenon
        <5>2. Later(now', k - 1) = Later(now, (k - 1) + 1)
          BY <1>0, <5>1, Zenon
        <5>. QED BY <1>3, <5>1, <5>2, Zenon
      <4>. QED BY <4>1, <4>2, Zenon
    <3>3. pucch[t] = <<>>
      BY <3>2, Zenon DEF PucchInv
    <3>. QED BY <1>1, <2>2, <3>3, Zenon
  <2>. QED BY <2>1, <2>2, Zenon
<1>4. ASSUME NEW l \in 1..K1, NEW k \in 1..K1, k < l, pucch'[Later(now', l)] # <<>>
      PROVE  ~HasRoom(k)'
  <2>1. pucch[Later(now, l + 1)] # <<>>
    BY <1>0, <1>4, Zenon
  <2>2. l # K1
    BY <1>0, <2>1, Zenon
  <2>3. l + 1 \in 1..K1 /\ k + 1 \in 1..K1 /\ k + 1 < l + 1 /\ k # K1
    BY <1>2, <1>4, <2>2
  <2>4. ~HasRoom(k + 1)
    BY <2>1, <2>3, Zenon DEF PucchInv
  <2>5. pucch'[Later(now', k)] = pucch[Later(now, k + 1)] /\ Later(now', k) = Later(now, k + 1)
    BY <1>0, Zenon
  <2>6. Later(now', k) # Later(now', K1)
    <3>1. k + 1 \in 1..Period /\ K1 + 1 \in 1..Period /\ k + 1 # K1 + 1
      BY <1>2, <2>3
    <3>2. Later(now, k + 1) # Later(now, K1 + 1)
      BY <1>0, <3>1, LaterApart, Zenon
    <3>3. K1 \in 1..K1
      BY <1>2
    <3>. QED BY <1>0, <2>5, <3>2, <3>3, Zenon
  <2>7. PICK usable \in BOOLEAN :
          ul' = (ul \ {now'}) \cup (IF usable THEN {Later(now', K1)} ELSE {})
    BY Zenon DEF SlotStart
  <2>8. Later(now', k) \in ul' => Later(now, k + 1) \in ul
    BY <2>5, <2>6, <2>7, Zenon
  <2>. QED BY <2>4, <2>5, <2>8, Zenon DEF HasRoom
<1>. QED BY <1>3, <1>4, Zenon DEF PucchInv

\* nr_acknack_scheduling takes the first PUCCH with room; there is none behind it.
LEMMA PucchTransmit ==
  ASSUME RestTypes, PucchInv, NEW p \in Pids, NEW t \in Times, Transmit(p, t), Occasion(t)
  PROVE  /\ PucchInv'
         /\ \E k \in 1..K1 : /\ t = Later(now, k)
                             /\ \A l \in 1..K1 : k < l => pucch[Later(now, l)] = <<>>
<1>1. /\ pucch' = [pucch EXCEPT ![t] = Append(@, p)] /\ now' = now /\ ul' = ul
      /\ pucch \in [Times -> Seq(Pids)] /\ now \in Times
  BY Zenon DEF Transmit, RestTypes
<1>2. PICK k \in 1..K1 : t = Later(now, k) /\ HasRoom(k) /\ \A l \in 1..(k - 1) : ~HasRoom(l)
  BY Zenon DEF Occasion
<1>3. \A l \in 1..K1 : k < l => pucch[Later(now, l)] = <<>>
  BY <1>2, Zenon DEF PucchInv
<1>4. now \in Nat /\ K1 \in Nat /\ Period \in Nat /\ K1 < Period
  BY Periods, <1>1
<1>5. \A l \in 1..K1 : Later(now, l) \in Times /\ (l # k => Later(now, l) # t)
  <2>. TAKE l \in 1..K1
  <2>1. l \in Nat /\ l \in 1..Period /\ k \in 1..Period
    BY <1>4
  <2>2. Later(now, l) \in Times
    BY <1>4, <2>1, Periods, Zenon
  <2>. QED BY <1>1, <1>2, <2>1, <2>2, LaterApart, Zenon
<1>6. \A s \in Times : s # t => pucch'[s] = pucch[s]
  BY <1>1, Zenon
<1>7. ASSUME NEW s \in Times, \A l \in 1..K1 : s # Later(now', l)
      PROVE  pucch'[s] = <<>>
  BY <1>1, <1>2, <1>6, <1>7, Zenon DEF PucchInv
<1>8. ASSUME NEW l \in 1..K1, NEW j \in 1..K1, j < l, pucch'[Later(now', l)] # <<>>
      PROVE  ~HasRoom(j)'
  <2>1. l = k \/ (l # k /\ pucch[Later(now, l)] # <<>>)
    BY <1>1, <1>5, <1>6, <1>8, Zenon
  <2>2. ~(k < l)
    BY <1>3, <1>5, <1>6, <1>1, <1>8, <2>1
  <2>3. ~HasRoom(j) /\ j # k
    <3>1. CASE l = k
      <4>1. j \in 1..(k - 1) /\ j # k
        BY <1>4, <1>8, <3>1
      <4>. QED BY <1>2, <4>1, Zenon
    <3>2. CASE l # k
      <4>1. j # k
        BY <1>8, <2>2, Zenon
      <4>. QED BY <1>8, <2>1, <3>2, <4>1, Zenon DEF PucchInv
    <3>. QED BY <3>1, <3>2, Zenon
  <2>4. pucch'[Later(now, j)] = pucch[Later(now, j)]
    BY <1>5, <1>6, <2>3, Zenon
  <2>. QED BY <1>1, <2>3, <2>4, Zenon DEF HasRoom
<1>. QED BY <1>2, <1>3, <1>7, <1>8, Zenon DEF PucchInv

LEMMA PucchStep ==
  ASSUME Sorted, RestTypes, PucchInv, [Next]_vars PROVE PucchInv'
<1>1. CASE GenerateMsg4 \/ ScheduleRetx \/ ScheduleNew
  <2>1. PICK p \in Pids, t \in Times : Transmit(p, t) /\ Occasion(t)
    BY <1>1, Sent, Zenon
  <2>. QED BY <2>1, PucchTransmit, Zenon
<1>2. CASE SlotStart
  BY <1>2, PucchSlot, Zenon
<1>3. CASE \/ UciMissed \/ UciBit \/ CheckMsg4Ack \/ RaWait \/ ScheduleNone \/ UciStart
           \/ UciEnd \/ UciLost \/ Msg3 \/ ResetFeedback \/ ResetRetrans \/ ResetEnd
           \/ UlFailure \/ CreateDlHarqList \/ UNCHANGED vars
  <2>1. UNCHANGED <<now, pucch, ul>>
    BY <1>3, Zenon DEF UciMissed, UciBit, CheckMsg4Ack, RaWait, ScheduleNone, UciStart, UciEnd, UciLost,
                Msg3, ResetFeedback, ResetRetrans, ResetEnd, UlFailure, CreateDlHarqList, vars, air
  <2>. QED BY <2>1, Zenon DEF PucchInv, HasRoom
<1>. QED BY <1>1, <1>2, <1>3, Zenon DEF Next, Scheduler, Uci, Reset

-----------------------------------------------------------------------------
(* The acknowledgements on their way, in the order of the feedback list *)

\* The bits of an indication from bit b on.
Left(u, b) == SubSeq(u.bits, b, Len(u.bits))

\* The acknowledgements on their way by occasion: what is left of the indication
\* being handled, the indications that follow it and the PUCCHs to come.
Line(u, b, ph, t, pu) ==
  [j \in 0..(Len(ph) + K1) |->
     IF j = 0 THEN Left(u, b) ELSE IF j <= Len(ph) THEN ph[j].bits
     ELSE pu[Later(t, j - Len(ph))]]

\* The slots of these occasions.
Due(u, ph, t) ==
  [j \in 0..(Len(ph) + K1) |->
     IF j = 0 THEN u.at ELSE IF j <= Len(ph) THEN ph[j].at ELSE Later(t, j - Len(ph))]

\* The processes of an occasion wait for feedback in its slot.
Timed(a, B, D, n) == \A j \in 0..n : \A i \in 1..Len(B[j]) : a[B[j][i]] = D[j]

\* The feedback list is the processes of the occasions, one occasion after the other.
Ordered(f, a, u, b, ph, t, pu) ==
  /\ Blocks(f, Line(u, b, ph, t, pu), Len(ph) + K1)
  /\ Timed(a, Line(u, b, ph, t, pu), Due(u, ph, t), Len(ph) + K1)
OrderInv ==
  /\ bit <= Len(uci.bits) + 1
  /\ pc # "uci" => uci.bits = <<>> /\ bit = 1
  /\ pc = "reset" => ras > 0
  /\ Undisturbed => /\ Ordered(feedback, at, uci, bit, phy, now, pucch)
                    /\ credited[1] = credited[2]

LEMMA SameFunction ==
  ASSUME NEW I, NEW F, NEW G, F = [x \in I |-> F[x]], G = [x \in I |-> G[x]],
         \A x \in I : F[x] = G[x]
  PROVE  F = G
OBVIOUS

\* The three kinds of occasions.
IsLine(L, D, m, u, b, ph, t, pu) ==
  /\ m \in Nat /\ L = [j \in 0..(m + K1) |-> L[j]]
  /\ L[0] = Left(u, b) /\ D[0] = u.at
  /\ \A j \in 1..m : L[j] = ph[j].bits /\ D[j] = ph[j].at
  /\ \A k \in 1..K1 : L[m + k] = pu[Later(t, k)] /\ D[m + k] = Later(t, k)
  /\ \A j \in 0..(m + K1) : j = 0 \/ j \in 1..m \/ \E k \in 1..K1 : j = m + k

LEMMA LineParts ==
  ASSUME NEW u, NEW b, NEW ph \in Seq(Indications), NEW t, NEW pu
  PROVE  IsLine(Line(u, b, ph, t, pu), Due(u, ph, t), Len(ph), u, b, ph, t, pu)
<1>. DEFINE m == Len(ph)
            L == Line(u, b, ph, t, pu)
            D == Due(u, ph, t)
<1>1. m \in Nat
  BY LenProperties, Zenon
<1>2. K1 \in Nat
  BY Periods, SMTT(20)
<1>3. L = [j \in 0..(m + K1) |-> IF j = 0 THEN Left(u, b) ELSE IF j <= m THEN ph[j].bits
                                 ELSE pu[Later(t, j - m)]]
  BY Zenon DEF Line
<1>4. D = [j \in 0..(m + K1) |-> IF j = 0 THEN u.at ELSE IF j <= m THEN ph[j].at
                                 ELSE Later(t, j - m)]
  BY Zenon DEF Due
<1>. HIDE DEF m, L, D
<1>5. /\ m + K1 \in Nat /\ 0 \in 0..(m + K1)
      /\ \A j \in 1..m : j \in 0..(m + K1) /\ j # 0 /\ j <= m
      /\ \A k \in 1..K1 : m + k \in 0..(m + K1) /\ m + k # 0 /\ ~(m + k <= m) /\ (m + k) - m = k
  BY <1>1, <1>2
<1>6. L = [j \in 0..(m + K1) |-> L[j]]
  BY <1>3, Zenon
<1>7. L[0] = Left(u, b) /\ D[0] = u.at
  BY <1>3, <1>4, <1>5, Zenon
<1>8. \A j \in 1..m : L[j] = ph[j].bits /\ D[j] = ph[j].at
  BY <1>3, <1>4, <1>5, Zenon
<1>9. \A k \in 1..K1 : L[m + k] = pu[Later(t, k)] /\ D[m + k] = Later(t, k)
  BY <1>3, <1>4, <1>5, Zenon
<1>10. ASSUME NEW j \in 0..(m + K1), j # 0, j \notin 1..m
       PROVE  \E k \in 1..K1 : j = m + k
  <2>1. j - m \in 1..K1 /\ j = m + (j - m)
    BY <1>1, <1>2, <1>10
  <2>. QED BY <2>1, Zenon
<1>11. IsLine(L, D, m, u, b, ph, t, pu)
  BY <1>1, <1>6, <1>7, <1>8, <1>9, <1>10, Zenon DEF IsLine
<1>. QED BY <1>11, Zenon DEF m, L, D

\* The bits left: all, one fewer, none.
LEMMA LeftParts ==
  ASSUME NEW u \in Indications, NEW b \in Nat \ {0}, b <= Len(u.bits) + 1
  PROVE  /\ Left(u, 1) = u.bits
         /\ b = Len(u.bits) + 1 => Left(u, b) = <<>>
         /\ b <= Len(u.bits) =>
              Left(u, b) # <<>> /\ Left(u, b)[1] = u.bits[b] /\ Tail(Left(u, b)) = Left(u, b + 1)
<1>. DEFINE s == u.bits
            n == Len(s)
<1>1. s \in Seq(Pids) /\ n \in Nat
  BY LenProperties, Zenon DEF Indications
<1>2. SubSeq(s, 1, n) = s
  BY <1>1, SubSeqFull, Zenon
<1>. HIDE DEF s, n
<1>3. ASSUME b = n + 1 PROVE SubSeq(s, b, n) = <<>>
  <2>1. n < b /\ b \in Int /\ n \in Int
    BY <1>1, <1>3
  <2>. QED BY <2>1, SubSeqEmpty, Zenon
<1>4. ASSUME b <= n
      PROVE  /\ SubSeq(s, b, n) # <<>> /\ SubSeq(s, b, n)[1] = s[b]
             /\ Tail(SubSeq(s, b, n)) = SubSeq(s, b + 1, n)
  <2>1. b \in 1..n /\ n \in b..n /\ b \in Int /\ n \in Int /\ b + 1 - 1 = b
    BY <1>1, <1>4
  <2>2. Tail(SubSeq(s, b, n)) = SubSeq(s, b + 1, n)
    BY <1>1, <2>1, HeadTailOfSubSeq, Zenon DEF n
  <2>3. \A i \in b..n : s[i] \in Pids
    <3>1. \A i \in b..n : i \in 1..n
      BY <1>1, <2>1
    <3>. QED BY <1>1, <3>1, ElementOfSeq, Zenon DEF n
  <2>4. /\ Len(SubSeq(s, b, n)) = n - b + 1
        /\ \A i \in 1..(n - b + 1) : SubSeq(s, b, n)[i] = s[b + i - 1]
    BY <1>4, <2>1, <2>3, SubSeqProperties
  <2>5. n - b + 1 # 0 /\ 1 \in 1..(n - b + 1)
    BY <1>1, <1>4
  <2>6. SubSeq(s, b, n) # <<>>
    <3>1. Len(<<>>) = 0
      OBVIOUS
    <3>. QED BY <2>4, <2>5, <3>1, Zenon
  <2>. QED BY <2>1, <2>2, <2>4, <2>5, <2>6, Zenon
<1>. QED BY <1>2, <1>3, <1>4, Zenon DEF Left, s, n

\* Blocks that are empty or were there before, with the same slot, stay timed.
Kept(C, E, m, B, D, n) ==
  \A j \in 0..m : C[j] = <<>> \/ \E l \in 0..n : C[j] = B[l] /\ E[j] = D[l]

LEMMA TimedFrom ==
  ASSUME NEW a, NEW B, NEW D, NEW n, Timed(a, B, D, n), NEW C, NEW E, NEW m,
         Kept(C, E, m, B, D, n)
  PROVE  Timed(a, C, E, m)
<1>1. Len(<<>>) = 0 /\ 1..0 = {}
  OBVIOUS
<1>. SUFFICES ASSUME NEW j \in 0..m, NEW i \in 1..Len(C[j]) PROVE a[C[j][i]] = E[j]
  BY Zenon DEF Timed
<1>2. C[j] # <<>>
  BY <1>1, Zenon
<1>3. PICK l \in 0..n : C[j] = B[l] /\ E[j] = D[l]
  BY <1>2, Zenon DEF Kept
<1>. QED BY <1>3, Zenon DEF Timed

\* The slot scheduler hands the PUCCH of the slot over, or drops an empty one.
LEMMA OrderSlot ==
  ASSUME RestTypes, PucchInv, SlotStart, Ordered(feedback, at, uci, bit, phy, now, pucch)
  PROVE  Ordered(feedback, at, uci, bit, phy', now', pucch')
<1>. DEFINE L == Line(uci, bit, phy, now, pucch)
            M == Line(uci, bit, phy', now', pucch')
            D == Due(uci, phy, now)
            E == Due(uci, phy', now')
            m == Len(phy)
            n == m + K1
<1>1. /\ now' = Later(now, 1) /\ now' \in Times /\ pucch[Later(now, K1 + 1)] = <<>>
      /\ \A k \in 1..K1 : /\ Later(now', k) = Later(now, k + 1)
                          /\ pucch'[Later(now', k)] = pucch[Later(now, k + 1)]
  BY PucchShift, Zenon
<1>2. phy \in Seq(Indications) /\ pucch[now'] \in Seq(Pids)
  BY <1>1, Zenon DEF RestTypes, Indications
<1>3. K1 \in Nat /\ K1 >= 1
  BY Periods
<1>9. IsLine(L, D, m, uci, bit, phy, now, pucch)
  BY <1>2, LineParts, Zenon
<1>10. m \in Nat /\ n \in Nat /\ n = m + K1 /\ K1 \in Nat /\ K1 >= 1
  BY <1>3, <1>9 DEF IsLine
<1>4. /\ L = [j \in 0..n |-> L[j]]
      /\ L[0] = Left(uci, bit) /\ D[0] = uci.at
      /\ \A j \in 1..m : L[j] = phy[j].bits /\ D[j] = phy[j].at
      /\ \A k \in 1..K1 : L[m + k] = pucch[Later(now, k)] /\ D[m + k] = Later(now, k)
      /\ \A j \in 0..n : j = 0 \/ j \in 1..m \/ \E k \in 1..K1 : j = m + k
  <2>. HIDE DEF L, D, m
  <2>. QED BY <1>9, Zenon DEF IsLine
<1>5. Blocks(feedback, L, n) /\ Timed(at, L, D, n)
  BY Zenon DEF Ordered
<1>6. L[m + 1] = pucch[now']
  <2>1. 1 \in 1..K1
    BY <1>3
  <2>. QED BY <1>1, <1>4, <2>1, Zenon
<1>7. CASE pucch[now'] = <<>>
  <2>1. phy' = phy
    BY <1>7, Zenon DEF SlotStart
  <2>2. /\ M = [j \in 0..n |-> M[j]] /\ M[0] = Left(uci, bit) /\ E[0] = uci.at
        /\ \A j \in 1..m : M[j] = phy[j].bits /\ E[j] = phy[j].at
        /\ \A k \in 1..K1 : M[m + k] = pucch'[Later(now', k)] /\ E[m + k] = Later(now', k)
    <3>1. IsLine(M, E, m, uci, bit, phy, now', pucch')
      BY <1>2, <2>1, LineParts, Zenon
    <3>. HIDE DEF M, E, m
    <3>. QED BY <3>1, Zenon DEF IsLine
  <2>. DEFINE S == Skipped(L, n, m + 1)
              X == Extended(S, n - 1)
  <2>. HIDE DEF L, M, D, E, m, n
  <2>3. n # 0 /\ m + 1 \in 0..n /\ (n - 1) + 1 = n /\ n = m + K1
    BY <1>10, SMTT(20)
  <2>4. Blocks(feedback, S, n - 1)
    BY <1>5, <1>6, <1>7, <2>3, BlocksSkip, Zenon
  <2>5. Blocks(feedback, X, n)
    <3>. HIDE DEF S
    <3>1. Blocks(feedback, Extended(S, n - 1), (n - 1) + 1)
      BY <2>4, BlocksExtend, Zenon
    <3>. QED BY <2>3, <3>1, Zenon
  <2>6. \A j \in 0..(n - 1) : S[j] = IF j < m + 1 THEN L[j] ELSE L[j + 1]
    BY Zenon DEF Skipped
  <2>. HIDE DEF S
  <2>7. X = [j \in 0..n |-> IF j <= n - 1 THEN S[j] ELSE <<>>]
    BY <2>3, Zenon DEF Extended
  <2>8. X = [j \in 0..n |-> X[j]] /\ \A j \in 0..n : X[j] = IF j <= n - 1 THEN S[j] ELSE <<>>
    BY <2>7, Zenon
  <2>. HIDE DEF X
  <2>9. ASSUME NEW j \in 0..n, j = 0 \/ j \in 1..m PROVE X[j] = M[j] /\ M[j] = L[j] /\ E[j] = D[j]
    <3>1. j <= n - 1 /\ j \in 0..(n - 1) /\ j < m + 1
      BY <1>10, <2>9
    <3>2. X[j] = L[j]
      BY <2>6, <2>8, <3>1, Zenon
    <3>. QED BY <1>4, <2>2, <2>9, <3>2, Zenon
  <2>10. ASSUME NEW k \in 1..K1, k # K1
         PROVE  /\ X[m + k] = M[m + k] /\ M[m + k] = L[m + (k + 1)] /\ E[m + k] = D[m + (k + 1)]
                /\ m + (k + 1) \in 0..n
    <3>1. /\ m + k <= n - 1 /\ m + k \in 0..(n - 1) /\ m + k \in 0..n /\ ~(m + k < m + 1)
          /\ k + 1 \in 1..K1 /\ (m + k) + 1 = m + (k + 1) /\ m + (k + 1) \in 0..n
      BY <1>10, <2>10
    <3>2. X[m + k] = L[m + (k + 1)]
      BY <2>6, <2>8, <3>1, Zenon
    <3>3. M[m + k] = pucch[Later(now, k + 1)] /\ E[m + k] = Later(now, k + 1)
      BY <1>1, <2>2, Zenon
    <3>4. L[m + (k + 1)] = pucch[Later(now, k + 1)] /\ D[m + (k + 1)] = Later(now, k + 1)
      BY <1>4, <3>1, Zenon
    <3>. QED BY <3>1, <3>2, <3>3, <3>4, Zenon
  <2>11. X[m + K1] = <<>> /\ M[m + K1] = <<>>
    <3>1. n \in 0..n /\ ~(n <= n - 1) /\ K1 \in 1..K1
      BY <1>10
    <3>2. X[n] = <<>>
      BY <2>8, <3>1, Zenon
    <3>3. M[m + K1] = <<>>
      BY <1>1, <2>2, <3>1, Zenon
    <3>. QED BY <1>10, <3>2, <3>3, Zenon
  <2>12. ASSUME NEW j \in 0..n
         PROVE  /\ X[j] = M[j]
                /\ M[j] = <<>> \/ \E l \in 0..n : M[j] = L[l] /\ E[j] = D[l]
    <3>1. CASE j = 0 \/ j \in 1..m
      BY <2>9, <3>1, Zenon
    <3>2. ASSUME NEW k \in 1..K1, j = m + k
          PROVE  /\ X[j] = M[j]
                 /\ M[j] = <<>> \/ \E l \in 0..n : M[j] = L[l] /\ E[j] = D[l]
      <4>1. CASE k = K1
        BY <2>11, <3>2, <4>1, Zenon
      <4>2. CASE k # K1
        <5>1. /\ X[m + k] = M[m + k] /\ M[m + k] = L[m + (k + 1)] /\ E[m + k] = D[m + (k + 1)]
              /\ m + (k + 1) \in 0..n
          BY <2>10, <4>2, Zenon
        <5>. QED BY <3>2, <5>1, Zenon
      <4>. QED BY <4>1, <4>2, Zenon
    <3>. QED BY <1>4, <3>1, <3>2, Zenon
  <2>13. X = M
    <3>1. \A j \in 0..n : X[j] = M[j]
      BY <2>12, Zenon
    <3>. QED BY <2>2, <2>8, <3>1, SameFunction, Zenon
  <2>14. Timed(at, M, E, n)
    <3>1. Kept(M, E, n, L, D, n)
      BY <2>12, Zenon DEF Kept
    <3>. QED BY <1>5, <3>1, TimedFrom, Zenon
  <2>. QED BY <2>1, <2>5, <2>13, <2>14, Zenon DEF Ordered, M, E, n, m
<1>8. CASE pucch[now'] # <<>>
  <2>. DEFINE x == [at |-> now', bits |-> pucch[now']]
  <2>1. phy' = Append(phy, x)
    BY <1>8, Zenon DEF SlotStart
  <2>2. x \in Indications /\ x.at = now' /\ x.bits = pucch[now']
    BY <1>1, <1>2, Zenon DEF Indications
  <2>. HIDE DEF x
  <2>3. /\ phy' \in Seq(Indications) /\ Len(phy') = m + 1 /\ phy'[m + 1] = x
        /\ \A j \in 1..m : phy'[j] = phy[j]
    BY <1>2, <2>1, <2>2, AppendProperties
  <2>4. /\ M = [j \in 0..((m + 1) + K1) |-> M[j]]
        /\ M[0] = Left(uci, bit) /\ E[0] = uci.at
        /\ \A j \in 1..(m + 1) : M[j] = phy'[j].bits /\ E[j] = phy'[j].at
        /\ \A k \in 1..K1 : /\ M[(m + 1) + k] = pucch'[Later(now', k)]
                            /\ E[(m + 1) + k] = Later(now', k)
        /\ \A j \in 0..((m + 1) + K1) :
             j = 0 \/ j \in 1..(m + 1) \/ \E k \in 1..K1 : j = (m + 1) + k
    <3>1. IsLine(M, E, Len(phy'), uci, bit, phy', now', pucch')
      BY <2>3, LineParts, Zenon
    <3>. HIDE DEF M, E, m
    <3>2. IsLine(M, E, m + 1, uci, bit, phy', now', pucch')
      BY <2>3, <3>1, Zenon
    <3>. QED BY <3>2, Zenon DEF IsLine
  <2>. DEFINE X == Extended(L, n)
  <2>. HIDE DEF L, M, D, E, m, n
  <2>5. (m + 1) + K1 = n + 1 /\ m + 1 \in 1..(m + 1) /\ m + 1 \in 0..n
    BY <1>10
  <2>6. Blocks(feedback, X, n + 1)
    BY <1>5, BlocksExtend, Zenon
  <2>7. X = [j \in 0..(n + 1) |-> X[j]] /\ \A j \in 0..(n + 1) : X[j] = IF j <= n THEN L[j] ELSE <<>>
    BY Zenon DEF Extended
  <2>. HIDE DEF X
  <2>8. ASSUME NEW j \in 0..(n + 1), j = 0 \/ j \in 1..m
        PROVE  X[j] = M[j] /\ M[j] = L[j] /\ E[j] = D[j] /\ j \in 0..n
    <3>1. j <= n /\ j \in 0..n /\ (j \in 1..m => j \in 1..(m + 1))
      BY <1>10, <2>8
    <3>2. X[j] = L[j]
      BY <2>7, <3>1, Zenon
    <3>3. CASE j = 0
      BY <1>4, <2>4, <3>1, <3>2, <3>3, Zenon
    <3>4. CASE j \in 1..m
      <4>1. M[j] = phy[j].bits /\ E[j] = phy[j].at
        BY <2>3, <2>4, <3>1, <3>4, Zenon
      <4>2. L[j] = phy[j].bits /\ D[j] = phy[j].at
        BY <1>4, <3>4, ZenonT(30)
      <4>. QED BY <3>1, <3>2, <4>1, <4>2, Zenon
    <3>. QED BY <2>8, <3>3, <3>4, Zenon
  <2>9. X[m + 1] = M[m + 1] /\ M[m + 1] = L[m + 1] /\ E[m + 1] = D[m + 1]
    <3>1. m + 1 \in 0..(n + 1) /\ m + 1 <= n /\ 1 \in 1..K1
      BY <1>10
    <3>2. X[m + 1] = L[m + 1] /\ D[m + 1] = now'
      BY <1>1, <1>4, <2>7, <3>1, Zenon
    <3>3. M[m + 1] = pucch[now'] /\ E[m + 1] = now'
      BY <2>2, <2>3, <2>4, <2>5, Zenon
    <3>. QED BY <1>6, <3>2, <3>3, Zenon
  <2>10. ASSUME NEW k \in 1..K1, k # K1
         PROVE  /\ X[(m + 1) + k] = M[(m + 1) + k] /\ M[(m + 1) + k] = L[(m + 1) + k]
                /\ E[(m + 1) + k] = D[(m + 1) + k] /\ (m + 1) + k \in 0..n
    <3>1. /\ (m + 1) + k <= n /\ (m + 1) + k \in 0..n /\ (m + 1) + k \in 0..(n + 1)
          /\ k + 1 \in 1..K1 /\ (m + 1) + k = m + (k + 1)
      BY <1>10, <2>10
    <3>2. X[(m + 1) + k] = L[(m + 1) + k]
      BY <2>7, <3>1, Zenon
    <3>3. /\ M[(m + 1) + k] = pucch[Later(now, k + 1)]
          /\ E[(m + 1) + k] = Later(now, k + 1)
      BY <1>1, <2>3, <2>4, Zenon
    <3>4. L[m + (k + 1)] = pucch[Later(now, k + 1)] /\ D[m + (k + 1)] = Later(now, k + 1)
      BY <1>4, <3>1, ZenonT(30)
    <3>. QED BY <3>1, <3>2, <3>3, <3>4, Zenon
  <2>11. X[(m + 1) + K1] = <<>> /\ M[(m + 1) + K1] = <<>>
    <3>1. n + 1 \in 0..(n + 1) /\ ~(n + 1 <= n) /\ K1 \in 1..K1 /\ (m + 1) + K1 = n + 1
      BY <1>10
    <3>2. X[n + 1] = <<>>
      BY <2>7, <3>1, Zenon
    <3>3. M[(m + 1) + K1] = <<>>
      BY <1>1, <2>3, <2>4, <3>1, Zenon
    <3>. QED BY <3>1, <3>2, <3>3, Zenon
  <2>12. ASSUME NEW j \in 0..(n + 1)
         PROVE  /\ X[j] = M[j]
                /\ M[j] = <<>> \/ \E l \in 0..n : M[j] = L[l] /\ E[j] = D[l]
    <3>1. CASE j = 0 \/ j \in 1..m
      BY <2>8, <3>1, Zenon
    <3>2. CASE j = m + 1
      BY <2>5, <2>9, <3>2, Zenon
    <3>3. ASSUME NEW k \in 1..K1, j = (m + 1) + k
          PROVE  /\ X[j] = M[j]
                 /\ M[j] = <<>> \/ \E l \in 0..n : M[j] = L[l] /\ E[j] = D[l]
      <4>1. CASE k = K1
        BY <2>11, <3>3, <4>1, Zenon
      <4>2. CASE k # K1
        <5>1. /\ X[(m + 1) + k] = M[(m + 1) + k] /\ M[(m + 1) + k] = L[(m + 1) + k]
              /\ E[(m + 1) + k] = D[(m + 1) + k] /\ (m + 1) + k \in 0..n
          BY <2>10, <4>2, Zenon
        <5>. QED BY <3>3, <5>1, Zenon
      <4>. QED BY <4>1, <4>2, Zenon
    <3>4. j = 0 \/ j \in 1..(m + 1) \/ \E k \in 1..K1 : j = (m + 1) + k
      BY <2>3, <2>4, <2>5, Zenon
    <3>5. j \in 1..(m + 1) => j \in 1..m \/ j = m + 1
      BY <1>10
    <3>. QED BY <3>1, <3>2, <3>3, <3>4, <3>5, Zenon
  <2>13. X = M
    <3>1. \A j \in 0..(n + 1) : X[j] = M[j]
      BY <2>12, Zenon
    <3>2. M = [j \in 0..(n + 1) |-> M[j]]
      BY <2>4, <2>5, Zenon
    <3>. QED BY <2>7, <3>1, <3>2, SameFunction, Zenon
  <2>14. Timed(at, M, E, n + 1)
    <3>1. Kept(M, E, n + 1, L, D, n)
      BY <2>12, Zenon DEF Kept
    <3>. QED BY <1>5, <3>1, TimedFrom, Zenon
  <2>. QED BY <2>3, <2>5, <2>6, <2>13, <2>14 DEF Ordered, M, E
<1>. QED BY <1>7, <1>8, Zenon

\* The handler takes the first indication; nothing was left of the one before.
LEMMA OrderStart ==
  ASSUME NEW f, NEW a, NEW u \in Indications, NEW ph \in Seq(Indications), ph # <<>>,
         NEW t, NEW pu, u.bits = <<>>, Ordered(f, a, u, 1, ph, t, pu)
  PROVE  Ordered(f, a, Head(ph), 1, Tail(ph), t, pu)
<1>. DEFINE L == Line(u, 1, ph, t, pu)
            M == Line(Head(ph), 1, Tail(ph), t, pu)
            D == Due(u, ph, t)
            E == Due(Head(ph), Tail(ph), t)
            m == Len(ph) - 1
            n == Len(ph) + K1
<1>1. /\ Head(ph) \in Indications /\ Tail(ph) \in Seq(Indications) /\ Len(Tail(ph)) = m
      /\ Head(ph) = ph[1] /\ \A j \in 1..m : Tail(ph)[j] = ph[j + 1]
  BY HeadTailProperties
<1>2. m \in Nat /\ Len(ph) = m + 1 /\ K1 \in Nat /\ K1 >= 1
  <2>1. Len(ph) \in Nat /\ Len(ph) # 0
    BY LenProperties, EmptySeq, Zenon
  <2>. QED BY <2>1, Periods
<1>3. IsLine(L, D, Len(ph), u, 1, ph, t, pu) /\ IsLine(M, E, m, Head(ph), 1, Tail(ph), t, pu)
  <2>1. IsLine(M, E, Len(Tail(ph)), Head(ph), 1, Tail(ph), t, pu)
    BY <1>1, LineParts, Zenon
  <2>2. IsLine(L, D, Len(ph), u, 1, ph, t, pu)
    BY LineParts, Zenon
  <2>. HIDE DEF L, M, D, E, m
  <2>. QED BY <1>1, <2>1, <2>2, Zenon
<1>4. Blocks(f, L, n) /\ Timed(a, L, D, n)
  BY Zenon DEF Ordered
<1>5. Left(u, 1) = <<>> /\ Left(Head(ph), 1) = ph[1].bits
  <2>1. \A x \in Indications : Left(x, 1) = x.bits
    <3>. TAKE x \in Indications
    <3>1. x.bits \in Seq(Pids)
      BY Zenon DEF Indications
    <3>. QED BY <3>1, SubSeqFull, Zenon DEF Left
  <2>. QED BY <1>1, <2>1, Zenon
<1>. DEFINE S == Skipped(L, n, 0)
<1>6. n \in Nat /\ n # 0 /\ n - 1 = m + K1 /\ 0 \in 0..n /\ n = (m + 1) + K1
  BY <1>2
<1>. HIDE DEF L, M, D, E, m, n
<1>7. L[0] = <<>>
  BY <1>3, <1>5, Zenon DEF IsLine
<1>8. Blocks(f, S, m + K1)
  BY <1>4, <1>6, <1>7, BlocksSkip, Zenon
<1>9. \A j \in 0..(m + K1) : ~(j < 0) /\ j + 1 \in 0..n
  BY <1>2, <1>6
<1>10. S = [j \in 0..(m + K1) |-> S[j]] /\ \A j \in 0..(m + K1) : S[j] = L[j + 1]
  BY <1>6, <1>9, Zenon DEF Skipped
<1>. HIDE DEF S
<1>11. ASSUME NEW j \in 0..(m + K1) PROVE M[j] = L[j + 1] /\ E[j] = D[j + 1]
  <2>1. CASE j = 0
    <3>1. 1 \in 1..Len(ph) /\ j + 1 = 1
      BY <1>2, <2>1
    <3>2. L[1] = ph[1].bits /\ D[1] = ph[1].at
      BY <1>3, <3>1, Zenon DEF IsLine
    <3>3. M[0] = ph[1].bits /\ E[0] = ph[1].at
      BY <1>1, <1>3, <1>5, Zenon DEF IsLine
    <3>. QED BY <2>1, <3>1, <3>2, <3>3, Zenon
  <2>2. CASE j \in 1..m
    <3>1. j + 1 \in 1..Len(ph)
      BY <1>2, <2>2
    <3>2. L[j + 1] = ph[j + 1].bits /\ D[j + 1] = ph[j + 1].at
      BY <1>3, <3>1, Zenon DEF IsLine
    <3>3. M[j] = ph[j + 1].bits /\ E[j] = ph[j + 1].at
      BY <1>1, <1>3, <2>2, ZenonT(40) DEF IsLine
    <3>. QED BY <3>2, <3>3, Zenon
  <2>3. ASSUME NEW k \in 1..K1, j = m + k PROVE M[j] = L[j + 1] /\ E[j] = D[j + 1]
    <3>1. j + 1 = Len(ph) + k
      BY <1>2, <2>3
    <3>2. L[Len(ph) + k] = pu[Later(t, k)] /\ D[Len(ph) + k] = Later(t, k)
      BY <1>3, Zenon DEF IsLine
    <3>3. M[m + k] = pu[Later(t, k)] /\ E[m + k] = Later(t, k)
      BY <1>3, Zenon DEF IsLine
    <3>. QED BY <2>3, <3>1, <3>2, <3>3, Zenon
  <2>4. j = 0 \/ j \in 1..m \/ \E k \in 1..K1 : j = m + k
    BY <1>3, Zenon DEF IsLine
  <2>. QED BY <2>1, <2>2, <2>3, <2>4, Zenon
<1>12. S = M
  <2>1. \A j \in 0..(m + K1) : S[j] = M[j]
    BY <1>10, <1>11, Zenon
  <2>2. M = [j \in 0..(m + K1) |-> M[j]]
    BY <1>3, Zenon DEF IsLine
  <2>. QED BY <1>10, <2>1, <2>2, SameFunction, Zenon
<1>13. Timed(a, M, E, m + K1)
  <2>1. Kept(M, E, m + K1, L, D, n)
    BY <1>9, <1>11, Zenon DEF Kept
  <2>. QED BY <1>4, <2>1, TimedFrom, Zenon
<1>14. Blocks(f, M, Len(Tail(ph)) + K1) /\ Timed(a, M, E, Len(Tail(ph)) + K1)
  BY <1>1, <1>8, <1>12, <1>13, Zenon
<1>. QED BY <1>14, Zenon DEF Ordered, M, E

\* The bits left belong to the head of the list, due in the slot of the indication.
LEMMA OrderHead ==
  ASSUME NEW f, NEW a, NEW u \in Indications, NEW b \in Nat \ {0}, b <= Len(u.bits),
         NEW ph \in Seq(Indications), NEW t, NEW pu, Ordered(f, a, u, b, ph, t, pu)
  PROVE  f # <<>> /\ Head(f) = u.bits[b] /\ a[Head(f)] = u.at
<1>. DEFINE L == Line(u, b, ph, t, pu)
            D == Due(u, ph, t)
            n == Len(ph) + K1
<1>1. IsLine(L, D, Len(ph), u, b, ph, t, pu)
  BY LineParts, Zenon
<1>2. Blocks(f, L, n) /\ Timed(a, L, D, n)
  BY Zenon DEF Ordered
<1>3. 0 \in 0..n
  <2>1. n \in Nat
    BY <1>2, Zenon DEF Blocks
  <2>. HIDE DEF n
  <2>. QED BY <2>1
<1>. HIDE DEF L, D, n
<1>4. b <= Len(u.bits) + 1
  <2>1. Len(u.bits) \in Nat
    BY LenProperties, Zenon DEF Indications
  <2>. QED BY <2>1
<1>5. Left(u, b) # <<>> /\ Left(u, b)[1] = u.bits[b]
  BY <1>4, LeftParts, Zenon
<1>6. L[0] # <<>> /\ L[0][1] = u.bits[b] /\ D[0] = u.at
  BY <1>1, <1>5, Zenon DEF IsLine
<1>7. f # <<>> /\ Head(f) = L[0][1]
  BY <1>2, <1>6, BlocksPop, Zenon
<1>8. 1 \in 1..Len(L[0])
  <2>1. L[0] \in Seq(Pids)
    BY <1>2, <1>3, Zenon DEF Blocks
  <2>2. Len(L[0]) \in Nat /\ Len(L[0]) # 0
    BY <1>6, <2>1, LenProperties, EmptySeq, Zenon
  <2>. QED BY <2>2
<1>9. a[L[0][1]] = D[0]
  BY <1>2, <1>3, <1>8, Zenon DEF Timed
<1>. QED BY <1>6, <1>7, <1>9, Zenon

\* One bit handled: the head leaves the list, and nothing else is due with it.
LEMMA OrderBit ==
  ASSUME NEW f \in Seq(Pids), NEW a \in [Pids -> Times], NEW u \in Indications,
         NEW b \in Nat \ {0}, b <= Len(u.bits), IsInjective(f),
         NEW ph \in Seq(Indications), NEW t, NEW pu, Ordered(f, a, u, b, ph, t, pu)
  PROVE  Ordered(Tail(f), [a EXCEPT ![Head(f)] = 0], u, b + 1, ph, t, pu)
<1>. DEFINE L == Line(u, b, ph, t, pu)
            M == Line(u, b + 1, ph, t, pu)
            D == Due(u, ph, t)
            m == Len(ph)
            n == m + K1
            X == [L EXCEPT ![0] = Tail(L[0])]
            c == [a EXCEPT ![Head(f)] = 0]
<1>1. IsLine(L, D, m, u, b, ph, t, pu) /\ IsLine(M, D, m, u, b + 1, ph, t, pu)
  BY LineParts, Zenon
<1>2. Blocks(f, L, n) /\ Timed(a, L, D, n)
  BY Zenon DEF Ordered
<1>3. n \in Nat
  BY <1>2, Zenon DEF Blocks
<1>4. Left(u, b) # <<>> /\ Tail(Left(u, b)) = Left(u, b + 1)
  <2>1. Len(u.bits) \in Nat
    BY LenProperties, Zenon DEF Indications
  <2>2. b <= Len(u.bits) + 1
    BY <2>1
  <2>. QED BY <2>2, LeftParts, Zenon
<1>5. n = m + K1
  BY Zenon
<1>6. f # <<>>
  BY OrderHead, Zenon
<1>7. Head(f) \in Pids /\ Tail(f) \in Seq(Pids) /\ Head(f) \notin Range(Tail(f))
  BY <1>6, TailRemoves
<1>8. \A q \in Pids : q # Head(f) => c[q] = a[q]
  BY <1>7, Zenon
<1>. HIDE DEF L, M, D, m, n, c
<1>9. L = [j \in 0..n |-> L[j]] /\ M = [j \in 0..n |-> M[j]]
  BY <1>1, <1>5, Zenon DEF IsLine
<1>10. L[0] = Left(u, b) /\ M[0] = Left(u, b + 1) /\ 0 \in 0..n
  BY <1>1, <1>3 DEF IsLine
<1>11. ASSUME NEW j \in 0..n, j # 0 PROVE M[j] = L[j]
  <2>1. j \in 1..m \/ \E k \in 1..K1 : j = m + k
    BY <1>1, <1>5, <1>11, Zenon DEF IsLine
  <2>2. CASE j \in 1..m
    BY <1>1, <2>2, Zenon DEF IsLine
  <2>3. ASSUME NEW k \in 1..K1, j = m + k PROVE M[j] = L[j]
    BY <1>1, <2>3, Zenon DEF IsLine
  <2>. QED BY <2>1, <2>2, <2>3, Zenon
<1>12. X = M
  <2>1. X = [j \in 0..n |-> X[j]] /\ X[0] = Tail(L[0]) /\ \A j \in 0..n : j # 0 => X[j] = L[j]
    BY <1>9, <1>10, Zenon
  <2>. HIDE DEF X
  <2>2. \A j \in 0..n : X[j] = M[j]
    BY <1>4, <1>10, <1>11, <2>1, Zenon
  <2>. QED BY <1>9, <2>1, <2>2, SameFunction, Zenon
<1>13. Blocks(Tail(f), M, n)
  BY <1>2, <1>4, <1>10, <1>12, BlocksPop, Zenon
<1>. HIDE DEF X
<1>14. Timed(c, M, D, n)
  <2>. SUFFICES ASSUME NEW j \in 0..n, NEW i \in 1..Len(M[j]) PROVE c[M[j][i]] = D[j]
    BY Zenon DEF Timed
  <2>1. M[j][i] \in Range(Tail(f))
    BY <1>13, BlockIn, Zenon
  <2>2. M[j] \in Seq(Pids) /\ L[j] \in Seq(Pids)
    BY <1>2, <1>13, Zenon DEF Blocks
  <2>3. M[j][i] \in Pids
    BY <2>2, ElementOfSeq, Zenon
  <2>4. c[M[j][i]] = a[M[j][i]]
    BY <1>7, <1>8, <2>1, <2>3, Zenon
  <2>5. a[M[j][i]] = D[j]
    <3>1. CASE j = 0
      <4>. DEFINE s == L[0]
      <4>1. s \in Seq(Pids) /\ s # <<>> /\ M[j] = Tail(s)
        BY <1>4, <1>10, <2>2, <3>1, Zenon
      <4>. HIDE DEF s
      <4>2. Len(s) \in Nat /\ Len(Tail(s)) = Len(s) - 1 /\ \A l \in 1..Len(Tail(s)) : Tail(s)[l] = s[l + 1]
        BY <4>1, LenProperties, HeadTailProperties, ZenonT(40)
      <4>3. i + 1 \in 1..Len(s) /\ M[j][i] = s[i + 1]
        BY <4>1, <4>2
      <4>4. a[s[i + 1]] = D[0]
        BY <1>2, <1>10, <4>3, Zenon DEF Timed, s
      <4>. QED BY <3>1, <4>3, <4>4, ZenonT(30)
    <3>2. CASE j # 0
      <4>1. M[j] = L[j]
        BY <1>11, <3>2, Zenon
      <4>. QED BY <1>2, <4>1, Zenon DEF Timed
    <3>. QED BY <3>1, <3>2, Zenon
  <2>. QED BY <2>4, <2>5, Zenon
<1>. QED BY <1>13, <1>14, Zenon DEF Ordered, M, D, c, n, m

\* Nothing is left of the indication when the handler ends.
LEMMA OrderEnd ==
  ASSUME NEW f, NEW a, NEW u \in Indications, NEW b \in Nat \ {0}, b = Len(u.bits) + 1,
         NEW ph \in Seq(Indications), NEW t, NEW pu, Ordered(f, a, u, b, ph, t, pu),
         NEW v \in Indications, v.bits = <<>>
  PROVE  Ordered(f, a, v, 1, ph, t, pu)
<1>. DEFINE L == Line(u, b, ph, t, pu)
            M == Line(v, 1, ph, t, pu)
            D == Due(u, ph, t)
            E == Due(v, ph, t)
            m == Len(ph)
            n == m + K1
<1>1. IsLine(L, D, m, u, b, ph, t, pu) /\ IsLine(M, E, m, v, 1, ph, t, pu)
  BY LineParts, Zenon
<1>2. Blocks(f, L, n) /\ Timed(a, L, D, n)
  BY ZenonT(40) DEF Ordered
<1>3. Left(u, b) = <<>> /\ Left(v, 1) = <<>>
  <2>1. Len(u.bits) \in Nat
    BY LenProperties, Zenon DEF Indications
  <2>2. b <= Len(u.bits) + 1
    BY <2>1
  <2>3. Left(u, b) = <<>>
    BY <2>2, LeftParts, Zenon
  <2>4. v.bits \in Seq(Pids)
    BY Zenon DEF Indications
  <2>. QED BY <2>3, <2>4, SubSeqFull, Zenon DEF Left
<1>4. n = m + K1
  BY Zenon
<1>. HIDE DEF L, M, D, E, m, n
<1>5. ASSUME NEW j \in 0..n
      PROVE  M[j] = L[j] /\ (M[j] = <<>> \/ E[j] = D[j])
  <2>1. j = 0 \/ j \in 1..m \/ \E k \in 1..K1 : j = m + k
    BY <1>1, <1>4, Zenon DEF IsLine
  <2>2. CASE j = 0
    BY <1>1, <1>3, <2>2, Zenon DEF IsLine
  <2>3. CASE j \in 1..m
    BY <1>1, <2>3, Zenon DEF IsLine
  <2>4. ASSUME NEW k \in 1..K1, j = m + k PROVE M[j] = L[j] /\ E[j] = D[j]
    BY <1>1, <2>4, Zenon DEF IsLine
  <2>. QED BY <2>1, <2>2, <2>3, <2>4, Zenon
<1>6. M = L
  <2>1. L = [j \in 0..n |-> L[j]] /\ M = [j \in 0..n |-> M[j]]
    BY <1>1, <1>4, Zenon DEF IsLine
  <2>. QED BY <1>5, <2>1, SameFunction, Zenon
<1>7. Timed(a, M, E, n)
  <2>1. Kept(M, E, n, L, D, n)
    BY <1>5, Zenon DEF Kept
  <2>. QED BY <1>2, <2>1, TimedFrom, Zenon
<1>. QED BY <1>2, <1>6, <1>7, Zenon DEF Ordered, M, E, n, m

\* A process sent goes to the end of the list, and its feedback is the last due.
LEMMA OrderSent ==
  ASSUME NEW f, NEW a \in [Pids -> Times], NEW u, NEW b, NEW ph \in Seq(Indications),
         NEW t, NEW pu \in [Times -> Seq(Pids)], Ordered(f, a, u, b, ph, t, pu),
         NEW p \in Pids, p \notin Range(f), NEW k \in 1..K1, Later(t, k) \in Times,
         \A l \in 1..K1 : k < l => pu[Later(t, l)] = <<>>,
         \A l \in 1..K1 : l # k => Later(t, l) # Later(t, k),
         NEW d, d = Later(t, k)
  PROVE  Ordered(Append(f, p), [a EXCEPT ![p] = d], u, b, ph, t,
                 [pu EXCEPT ![d] = Append(pu[d], p)])
<1>. DEFINE pv == [pu EXCEPT ![d] = Append(pu[d], p)]
            L == Line(u, b, ph, t, pu)
            M == Line(u, b, ph, t, pv)
            D == Due(u, ph, t)
            m == Len(ph)
            n == m + K1
            e == m + k
            X == [L EXCEPT ![e] = Append(L[e], p)]
            c == [a EXCEPT ![p] = d]
<1>1. IsLine(L, D, m, u, b, ph, t, pu) /\ IsLine(M, D, m, u, b, ph, t, pv)
  BY LineParts, Zenon
<1>2. Blocks(f, L, n) /\ Timed(a, L, D, n)
  BY Zenon DEF Ordered
<1>3. m \in Nat /\ K1 \in Nat /\ n = m + K1 /\ e = m + k /\ e \in 0..n
  <2>1. m \in Nat /\ K1 \in Nat
    BY LenProperties, Periods
  <2>2. k \in Nat /\ k <= K1
    BY <2>1
  <2>. HIDE DEF m
  <2>. QED BY <2>1, <2>2
<1>4. pv[d] = Append(pu[d], p) /\ \A l \in 1..K1 : l # k => pv[Later(t, l)] = pu[Later(t, l)]
  OBVIOUS
<1>5. c[p] = d /\ \A q \in Pids : q # p => c[q] = a[q]
  BY Zenon
<1>. HIDE DEF pv, L, M, D, m, n, e, c
<1>6. L = [j \in 0..n |-> L[j]] /\ M = [j \in 0..n |-> M[j]]
  BY <1>1, <1>3, Zenon DEF IsLine
<1>7. L[e] = pu[d] /\ M[e] = Append(L[e], p) /\ D[e] = d
  BY <1>1, <1>3, <1>4, ZenonT(40) DEF IsLine
<1>8. \A j \in 0..n : j = 0 \/ j \in 1..m \/ \E l \in 1..K1 : j = m + l
  BY <1>1, <1>3, Zenon DEF IsLine
<1>9. ASSUME NEW j \in 0..n, j # e PROVE M[j] = L[j]
  <2>1. CASE j = 0
    BY <1>1, <2>1, Zenon DEF IsLine
  <2>2. CASE j \in 1..m
    BY <1>1, <2>2, ZenonT(40) DEF IsLine
  <2>3. ASSUME NEW l \in 1..K1, j = m + l PROVE M[j] = L[j]
    <3>1. l # k
      BY <1>3, <1>9, <2>3, Zenon
    <3>2. pv[Later(t, l)] = pu[Later(t, l)]
      BY <1>4, <3>1, Zenon
    <3>. QED BY <1>1, <2>3, <3>2, Zenon DEF IsLine
  <2>. QED BY <1>8, <2>1, <2>2, <2>3, Zenon
<1>10. ASSUME NEW j \in 0..n, e < j PROVE L[j] = <<>>
  <2>1. j # 0 /\ j \notin 1..m
    BY <1>3, <1>10
  <2>2. PICK l \in 1..K1 : j = m + l
    BY <1>8, <2>1, Zenon
  <2>3. k < l
    BY <1>3, <1>10, <2>2, SMTT(20)
  <2>4. pu[Later(t, l)] = <<>>
    BY <2>3, Zenon
  <2>. QED BY <1>1, <2>2, <2>4, Zenon DEF IsLine
<1>11. X = M
  <2>1. X = [j \in 0..n |-> X[j]] /\ X[e] = Append(L[e], p) /\ \A j \in 0..n : j # e => X[j] = L[j]
    BY <1>3, <1>6, Zenon
  <2>. HIDE DEF X
  <2>2. \A j \in 0..n : X[j] = M[j]
    BY <1>7, <1>9, <2>1, Zenon
  <2>. QED BY <1>6, <2>1, <2>2, SameFunction, Zenon
<1>12. Blocks(Append(f, p), X, n)
  BY <1>2, <1>3, <1>10, BlocksAppend, Zenon
<1>. HIDE DEF X
<1>13. ASSUME NEW j \in 0..n, NEW i \in 1..Len(L[j])
       PROVE  L[j][i] \in Pids /\ c[L[j][i]] = D[j]
  <2>1. L[j][i] \in Range(f)
    BY <1>2, BlockIn, Zenon
  <2>2. L[j] \in Seq(Pids)
    BY <1>2, Zenon DEF Blocks
  <2>3. L[j][i] \in Pids
    BY <2>2, ElementOfSeq, Zenon
  <2>4. a[L[j][i]] = D[j]
    BY <1>2, Zenon DEF Timed
  <2>5. L[j][i] # p
    BY <2>1, Zenon
  <2>. QED BY <1>5, <2>3, <2>4, <2>5, Zenon
<1>14. Timed(c, M, D, n)
  <2>. SUFFICES ASSUME NEW j \in 0..n, NEW i \in 1..Len(M[j]) PROVE c[M[j][i]] = D[j]
    BY Zenon DEF Timed
  <2>1. CASE j # e
    <3>1. M[j] = L[j]
      BY <1>9, <2>1, Zenon
    <3>. QED BY <1>13, <3>1, Zenon
  <2>2. CASE j = e
    <3>. DEFINE s == L[e]
    <3>1. s \in Seq(Pids) /\ M[e] = Append(s, p)
      BY <1>2, <1>3, <1>7, Zenon DEF Blocks
    <3>. HIDE DEF s
    <3>2. /\ Len(s) \in Nat /\ Len(M[e]) = Len(s) + 1 /\ M[e][Len(s) + 1] = p
          /\ \A l \in 1..Len(s) : M[e][l] = s[l]
      <4>. DEFINE r == Append(s, p)
      <4>0. s \in Seq(Pids) /\ p \in Pids
        BY <3>1, Zenon
      <4>1. /\ Len(s) \in Nat /\ Len(r) = Len(s) + 1 /\ r[Len(s) + 1] = p
            /\ \A l \in 1..Len(s) : r[l] = s[l]
        BY <4>0, AppendParts
      <4>2. M[e] = r
        BY <3>1, Zenon
      <4>. HIDE DEF r, M
      <4>. QED BY <4>1, <4>2, ZenonT(40)
    <3>3. i \in 1..Len(s) \/ i = Len(s) + 1
      <4>. DEFINE q == Len(s)
      <4>1. q \in Nat /\ i \in 1..(q + 1)
        BY <2>2, <3>2, Zenon
      <4>. HIDE DEF q
      <4>2. i \in 1..q \/ i = q + 1
        BY <4>1
      <4>. QED BY <4>2, Zenon DEF q
    <3>4. CASE i \in 1..Len(s)
      <4>1. M[e][i] = s[i]
        BY <3>2, <3>4, Zenon
      <4>2. c[s[i]] = D[e]
        BY <1>3, <1>13, <3>4, Zenon DEF s
      <4>. QED BY <2>2, <4>1, <4>2, Zenon
    <3>5. CASE i = Len(s) + 1
      BY <1>5, <1>7, <2>2, <3>2, <3>5, Zenon
    <3>. QED BY <3>3, <3>4, <3>5, Zenon
  <2>. QED BY <2>1, <2>2, Zenon
<1>. QED BY <1>11, <1>12, <1>14, ZenonT(40) DEF Ordered, M, D, c, n, m, pv

\* The handlers that send a process.
LEMMA OrderTransmit ==
  ASSUME Sorted, RestTypes, PucchInv, OrderInv, GenerateMsg4 \/ ScheduleRetx \/ ScheduleNew
  PROVE  OrderInv'
<1>1. PICK p \in Pids, t \in Times :
        /\ Transmit(p, t) /\ Occasion(t) /\ p \notin Range(feedback)
        /\ pc \in {"ra", "ue"} /\ pc' # "reset" /\ UNCHANGED ras
  BY Sent, Zenon
<1>2. /\ feedback' = AddTail(feedback, p) /\ at' = [at EXCEPT ![p] = t]
      /\ pucch' = [pucch EXCEPT ![t] = Append(pucch[t], p)]
      /\ UNCHANGED <<phy, lost, now, uci, bit, credited>>
  BY <1>1, Zenon DEF Transmit, rx
<1>3. /\ at \in [Pids -> Times] /\ phy \in Seq(Indications) /\ now \in Times
      /\ pucch \in [Times -> Seq(Pids)]
  BY Zenon DEF RestTypes, Indications
<1>4. PICK k \in 1..K1 : /\ t = Later(now, k)
                         /\ \A l \in 1..K1 : k < l => pucch[Later(now, l)] = <<>>
  BY <1>1, PucchTransmit, Zenon
<1>5. feedback' = Append(feedback, p)
  <2>1. feedback \in Seq(Pids)
    BY Zenon DEF Sorted, ProcTypes
  <2>2. Len(feedback) \in Nat /\ DOMAIN feedback = 1..Len(feedback) /\ (feedback # <<>> => Len(feedback) # 0)
    BY <2>1, LenProperties, EmptySeq, Zenon
  <2>3. feedback # <<>> => feedback[Len(feedback)] # p
    BY <1>1, <2>2 DEF Range
  <2>. QED BY <1>2, <2>3, Zenon DEF AddTail
<1>6. \A l \in 1..K1 : l # k => Later(now, l) # Later(now, k)
  <2>1. \A l \in 1..K1 : l \in 1..Period
    BY Periods
  <2>. QED BY <1>3, <2>1, LaterApart, Zenon
<1>7. uci'.bits = <<>> /\ bit' = 1 /\ bit' <= Len(uci'.bits) + 1
  BY <1>1, <1>2, Zenon DEF OrderInv
<1>8. ASSUME Undisturbed'
      PROVE  (Ordered(feedback, at, uci, bit, phy, now, pucch) /\ credited[1] = credited[2])'
  <2>1. Undisturbed
    BY <1>1, <1>2, <1>8, ZenonT(30) DEF Undisturbed
  <2>2. Ordered(feedback, at, uci, bit, phy, now, pucch) /\ credited[1] = credited[2]
    BY <2>1, Zenon DEF OrderInv
  <2>3. Ordered(feedback', at', uci, bit, phy, now, pucch')
    <3>1. Later(now, k) \in Times /\ p \notin Range(feedback)
      BY <1>1, <1>4, Zenon
    <3>2. Ordered(Append(feedback, p), [at EXCEPT ![p] = t], uci, bit, phy, now,
                  [pucch EXCEPT ![t] = Append(pucch[t], p)])
      BY <1>3, <1>4, <1>6, <2>2, <3>1, OrderSent, Zenon
    <3>. QED BY <1>2, <1>5, <3>2, Zenon
  <2>. QED BY <1>2, <2>2, <2>3, Zenon
<1>. QED BY <1>1, <1>7, <1>8, Zenon DEF OrderInv

\* The handlers of an indication: a bit is applied where it belongs, none is
\* missed, and none is left when the loop ends.
LEMMA OrderUci ==
  ASSUME Sorted, RestTypes, OrderInv, Undisturbed, pc = "uci", bit <= Len(uci.bits)
  PROVE  /\ feedback # <<>> /\ Head(feedback) = uci.bits[bit]
         /\ ~InPast(at[Head(feedback)], uci.at) /\ ~InFuture(at[Head(feedback)], uci.at)
<1>1. uci \in Indications /\ phy \in Seq(Indications) /\ bit \in Nat \ {0} /\ uci.at \in Times
  BY Zenon DEF RestTypes, Indications
<1>2. Ordered(feedback, at, uci, bit, phy, now, pucch)
  BY ZenonT(40) DEF OrderInv
<1>3. feedback # <<>> /\ Head(feedback) = uci.bits[bit] /\ at[Head(feedback)] = uci.at
  BY <1>1, <1>2, OrderHead, Zenon
<1>. QED BY <1>1, <1>3, DueNow, Zenon

LEMMA OrderUciStep ==
  ASSUME Sorted, RestTypes, OrderInv, UciMissed \/ UciBit \/ UciStart \/ UciEnd
  PROVE  OrderInv'
<1>0. /\ uci \in Indications /\ phy \in Seq(Indications) /\ bit \in Nat \ {0}
      /\ uci.at \in Times /\ uci.bits \in Seq(Pids) /\ at \in [Pids -> Times]
  BY Zenon DEF RestTypes, Indications
<1>1. Len(uci.bits) \in Nat
  BY <1>0, LenProperties, Zenon
<1>2. bit <= Len(uci.bits) + 1
  BY Zenon DEF OrderInv
<1>3. CASE UciMissed
  <2>1. pc = "uci" /\ pc' = "uci" /\ bit <= Len(uci.bits) /\ InPast(at[Head(feedback)], uci.at)
        /\ UNCHANGED <<ras, lost, uci, bit>>
    BY <1>3, Zenon DEF UciMissed, BitLeft, access, air, rx
  <2>2. ~Undisturbed'
    BY <2>1, OrderUci, Zenon DEF Undisturbed
  <2>. QED BY <1>2, <2>1, <2>2, Zenon DEF OrderInv
<1>4. CASE UciBit
  <2>1. /\ pc = "uci" /\ pc' = "uci" /\ bit <= Len(uci.bits) /\ bit' = bit + 1
        /\ credited' = <<uci.bits[bit], Head(feedback)>>
        /\ UNCHANGED <<ras, lost, uci, now, pucch, phy>>
    BY <1>4, Zenon DEF UciBit, BitLeft, air
  <2>2. feedback' = Tail(feedback) /\ at' = [at EXCEPT ![Head(feedback)] = 0]
    BY <1>4, Zenon DEF UciBit, HandleDlHarq
  <2>3. bit' <= Len(uci'.bits) + 1
    BY <1>0, <1>1, <2>1
  <2>4. ASSUME Undisturbed'
        PROVE  (Ordered(feedback, at, uci, bit, phy, now, pucch) /\ credited[1] = credited[2])'
    <3>1. Undisturbed
      BY <2>1, <2>4, Zenon DEF Undisturbed
    <3>2. Head(feedback) = uci.bits[bit]
      BY <2>1, <3>1, OrderUci, Zenon
    <3>3. Ordered(feedback, at, uci, bit, phy, now, pucch)
      BY <3>1, Zenon DEF OrderInv
    <3>4. feedback \in Seq(Pids) /\ IsInjective(feedback)
      BY Zenon DEF Sorted, ProcTypes, Apart
    <3>5. Ordered(Tail(feedback), [at EXCEPT ![Head(feedback)] = 0], uci, bit + 1, phy, now, pucch)
      BY <1>0, <2>1, <3>3, <3>4, OrderBit, Zenon
    <3>. QED BY <2>1, <2>2, <3>2, <3>5, Zenon
  <2>. QED BY <2>1, <2>3, <2>4, Zenon DEF OrderInv
<1>5. CASE UciStart
  <2>1. /\ pc = "unlocked" /\ pc' = "uci" /\ phy # <<>> /\ uci' = Head(phy) /\ bit' = 1
        /\ phy' = Tail(phy) /\ UNCHANGED <<ras, lost, feedback, at, now, pucch, credited>>
    BY <1>5, Zenon DEF UciStart, lists, procs, access
  <2>2. uci.bits = <<>> /\ bit = 1
    BY <2>1, Zenon DEF OrderInv
  <2>3. bit' <= Len(uci'.bits) + 1
    <3>1. Head(phy) \in Indications
      BY <1>0, <2>1, HeadTailProperties, Zenon
    <3>2. Len(Head(phy).bits) \in Nat
      BY <3>1, LenProperties, Zenon DEF Indications
    <3>. QED BY <2>1, <3>2
  <2>4. ASSUME Undisturbed'
        PROVE  (Ordered(feedback, at, uci, bit, phy, now, pucch) /\ credited[1] = credited[2])'
    <3>1. Undisturbed
      BY <2>1, <2>4, Zenon DEF Undisturbed
    <3>2. Ordered(feedback, at, uci, 1, phy, now, pucch) /\ credited[1] = credited[2]
      BY <2>2, <3>1, Zenon DEF OrderInv
    <3>3. Ordered(feedback, at, Head(phy), 1, Tail(phy), now, pucch)
      BY <1>0, <2>1, <2>2, <3>2, OrderStart, Zenon
    <3>. QED BY <2>1, <3>2, <3>3, Zenon
  <2>. QED BY <2>1, <2>3, <2>4, Zenon DEF OrderInv
<1>6. CASE UciEnd
  <2>1. /\ pc = "uci" /\ pc' = "unlocked" /\ bit' = 1 /\ uci' = [at |-> 0, bits |-> <<>>]
        /\ credited' = <<0, 0>>
        /\ BitLeft => InFuture(at[Head(feedback)], uci.at)
        /\ UNCHANGED <<ras, lost, feedback, at, now, pucch, phy>>
    BY <1>6, ZenonT(30) DEF UciEnd, lists, procs, access, air
  <2>2. uci'.bits = <<>> /\ uci' \in Indications /\ Len(uci'.bits) = 0
    <3>. DEFINE none == [at |-> 0, bits |-> <<>>]
    <3>1. 0 \in Times
      BY Periods, Zenon
    <3>2. none \in Indications /\ none.bits = <<>> /\ Len(none.bits) = 0
      BY <3>1 DEF Indications
    <3>3. uci' = none
      BY <2>1, Zenon
    <3>. HIDE DEF none
    <3>. QED BY <3>2, <3>3, Zenon
  <2>3. ASSUME Undisturbed'
        PROVE  (Ordered(feedback, at, uci, bit, phy, now, pucch) /\ credited[1] = credited[2])'
    <3>1. Undisturbed
      BY <2>1, <2>3, ZenonT(40) DEF Undisturbed
    <3>2. ~(bit <= Len(uci.bits))
      BY <2>1, <3>1, OrderUci, Zenon DEF BitLeft
    <3>3. bit = Len(uci.bits) + 1
      BY <1>0, <1>1, <1>2, <3>2, SMTT(20)
    <3>4. Ordered(feedback, at, uci, bit, phy, now, pucch)
      BY <3>1, Zenon DEF OrderInv
    <3>5. Ordered(feedback, at, uci', 1, phy, now, pucch)
      BY <1>0, <2>2, <3>3, <3>4, OrderEnd
    <3>6. credited'[1] = credited'[2]
      BY <2>1, Zenon
    <3>. QED BY <2>1, <3>5, <3>6, Zenon
  <2>4. bit' <= Len(uci'.bits) + 1
    BY <2>1, <2>2
  <2>. QED BY <2>1, <2>2, <2>3, <2>4, Zenon DEF OrderInv
<1>. QED BY <1>3, <1>4, <1>5, <1>6, ZenonT(40)

LEMMA OrderStep ==
  ASSUME Sorted, RestTypes, PucchInv, OrderInv, [Next]_vars PROVE OrderInv'
<1>1. CASE GenerateMsg4 \/ ScheduleRetx \/ ScheduleNew
  BY <1>1, OrderTransmit, Zenon
<1>2. CASE UciMissed \/ UciBit \/ UciStart \/ UciEnd
  BY <1>2, OrderUciStep, Zenon
<1>3. CASE SlotStart
  <2>1. /\ pc = "unlocked" /\ pc' = "ra"
        /\ UNCHANGED <<ras, lost, feedback, at, uci, bit, credited>>
    BY <1>3, Zenon DEF SlotStart, lists, procs, access, rx
  <2>2. ASSUME Undisturbed'
        PROVE  (Ordered(feedback, at, uci, bit, phy, now, pucch) /\ credited[1] = credited[2])'
    <3>1. Undisturbed
      BY <2>1, <2>2, ZenonT(40) DEF Undisturbed
    <3>2. Ordered(feedback, at, uci, bit, phy, now, pucch) /\ credited[1] = credited[2]
      BY <3>1, Zenon DEF OrderInv
    <3>3. Ordered(feedback, at, uci, bit, phy', now', pucch')
      BY <1>3, <3>2, OrderSlot, ZenonT(40)
    <3>. QED BY <2>1, <3>2, <3>3, Zenon
  <2>. QED BY <2>1, <2>2, ZenonT(40) DEF OrderInv
<1>4. CASE UciLost \/ Msg3
  <2>1. ras \in Nat /\ lost \in Nat
    BY Zenon DEF RestTypes
  <2>2. pc = "unlocked" /\ pc' # "uci" /\ (pc' = "reset" => ras' = ras + 1) /\ UNCHANGED <<uci, bit>>
        /\ (ras' = ras + 1 \/ lost' = lost + 1)
    BY <1>4, Zenon DEF UciLost, Msg3, rx
  <2>3. ~Undisturbed' /\ (pc' = "reset" => ras' > 0)
    BY <2>1, <2>2 DEF Undisturbed, RestTypes
  <2>. QED BY <2>2, <2>3, Zenon DEF OrderInv
<1>5. CASE Reset
  <2>1. pc = "reset" /\ pc' \in {"reset", "unlocked"} /\ UNCHANGED <<ras, uci, bit>>
    BY <1>5, ZenonT(40) DEF Reset, ResetFeedback, ResetRetrans, ResetEnd, access, rx
  <2>2. ras > 0
    BY <2>1, Zenon DEF OrderInv
  <2>3. ~Undisturbed'
    BY <2>1, <2>2 DEF Undisturbed
  <2>. QED BY <2>1, <2>2, <2>3, Zenon DEF OrderInv
<1>6. CASE CheckMsg4Ack \/ RaWait \/ ScheduleNone \/ UlFailure \/ CreateDlHarqList \/ UNCHANGED vars
  <2>1. /\ UNCHANGED <<ras, lost, feedback, at, now, pucch, phy, uci, bit, credited>>
        /\ pc' = pc \/ (pc \notin {"uci", "reset"} /\ pc' \notin {"uci", "reset"})
    BY <1>6, Zenon DEF CheckMsg4Ack, RaWait, ScheduleNone, UlFailure, CreateDlHarqList, vars, lists, procs,
                access, air, rx
  <2>2. Undisturbed' = Undisturbed
    BY <2>1, Zenon DEF Undisturbed
  <2>. QED BY <2>1, <2>2, Zenon DEF OrderInv
<1>. QED BY <1>1, <1>2, <1>3, <1>4, <1>5, <1>6, Zenon DEF Next, Scheduler, Uci

LEMMA OrderInit == Init => PucchInv /\ OrderInv
<1>. SUFFICES ASSUME Init PROVE PucchInv /\ OrderInv
  OBVIOUS
<1>1. /\ feedback = <<>> /\ pc = "unlocked" /\ pucch = [t \in Times |-> <<>>] /\ phy = <<>>
      /\ uci = [at |-> 0, bits |-> <<>>] /\ bit = 1 /\ credited = <<0, 0>> /\ now = 0
  BY Zenon DEF Init
<1>2. \A k \in 1..K1 : Later(now, k) \in Times
  <2>1. now \in Nat /\ \A k \in 1..K1 : k \in Nat
    BY <1>1
  <2>. QED BY <2>1, Periods, Zenon
<1>3. PucchInv
  BY <1>1, <1>2, Zenon DEF PucchInv
<1>. DEFINE L == Line(uci, bit, phy, now, pucch)
            n == K1
            off == [j \in 0..(n + 1) |-> 0]
<1>4. n \in Nat /\ phy \in Seq(Indications) /\ Len(phy) = 0 /\ Len(phy) + K1 = n
  BY <1>1, Periods
<1>5. IsLine(L, Due(uci, phy, now), 0, uci, bit, phy, now, pucch)
  BY <1>4, LineParts, Zenon
<1>6. Left(uci, bit) = <<>>
  BY <1>1 DEF Left
<1>7. off \in [0..(n + 1) -> 0..0] /\ \A j \in 0..(n + 1) : off[j] = 0
  BY <1>4
<1>. HIDE DEF L, n, off
<1>8. L = [j \in 0..n |-> L[j]] /\ \A j \in 0..n : L[j] = <<>>
  <2>1. 0 + K1 = n
    BY <1>4, Zenon DEF n
  <2>2. L[0] = <<>> /\ L = [j \in 0..n |-> L[j]]
    BY <1>5, <1>6, <2>1, Zenon DEF IsLine
  <2>3. \A j \in 0..n : j = 0 \/ \E k \in 1..K1 : j = 0 + k /\ L[0 + k] = pucch[Later(now, k)]
    BY <1>5, <2>1 DEF IsLine
  <2>4. \A k \in 1..K1 : pucch[Later(now, k)] = <<>>
    BY <1>1, <1>2, Zenon
  <2>. QED BY <2>2, <2>3, <2>4, Zenon
<1>9. L \in [0..n -> Seq(Pids)]
  <2>. DEFINE e == <<>>
  <2>0. e \in Seq(Pids) /\ \A j \in 0..n : L[j] = e
    BY <1>8, EmptySeq, Zenon
  <2>. HIDE DEF e
  <2>1. \A j \in 0..n : L[j] \in Seq(Pids)
    BY <2>0, Zenon
  <2>2. [j \in 0..n |-> L[j]] \in [0..n -> Seq(Pids)]
    BY <2>1, Zenon
  <2>. QED BY <1>8, <2>2, Zenon
<1>10. Cut(feedback, L, n, off)
  <2>1. Len(feedback) = 0 /\ \A j \in 0..n : Len(L[j]) = 0
    BY <1>1, <1>8
  <2>2. 0 \in 0..(n + 1) /\ n + 1 \in 0..(n + 1) /\ \A j \in 0..n : j \in 0..(n + 1) /\ j + 1 \in 0..(n + 1)
    BY <1>4
  <2>. QED BY <1>7, <2>1, <2>2 DEF Cut
<1>11. Blocks(feedback, L, n)
  <2>1. feedback \in Seq(Pids)
    BY <1>1
  <2>. QED BY <1>4, <1>9, <1>10, <2>1, Zenon DEF Blocks
<1>12. Timed(at, L, Due(uci, phy, now), n)
  BY <1>8 DEF Timed
<1>13. Ordered(feedback, at, uci, bit, phy, now, pucch)
  BY <1>4, <1>11, <1>12, Zenon DEF Ordered, L
<1>14. bit <= Len(uci.bits) + 1 /\ uci.bits = <<>> /\ credited[1] = credited[2]
  BY <1>1
<1>. QED BY <1>1, <1>3, <1>13, <1>14, Zenon DEF OrderInv

-----------------------------------------------------------------------------
(* Lists that are joined, and the return of a process to a list *)

\* The elements of a concatenation are those of its parts, and none is repeated
\* exactly if none is in a part or in two.
LEMMA ConcatParts ==
  ASSUME NEW S, NEW s \in Seq(S), NEW t \in Seq(S)
  PROVE  /\ Range(s \o t) = Range(s) \cup Range(t)
         /\ IsInjective(s \o t) <=>
              IsInjective(s) /\ IsInjective(t) /\ Range(s) \cap Range(t) = {}
<1>. DEFINE c == s \o t
            m == Len(s)
            n == Len(t)
<1>1. /\ m \in Nat /\ n \in Nat /\ DOMAIN s = 1..m /\ DOMAIN t = 1..n
      /\ DOMAIN c = 1..(m + n)
  BY LenProperties, ConcatProperties
<1>2. /\ \A k \in 1..m : c[k] = s[k]
      /\ \A k \in 1..n : c[m + k] = t[k]
  BY <1>1, ConcatProperties
<1>3. \A k \in 1..(m + n) : k \in 1..m \/ \E l \in 1..n : k = m + l
  <2>. SUFFICES ASSUME NEW k \in 1..(m + n), k \notin 1..m
                PROVE  \E l \in 1..n : k = m + l
    OBVIOUS
  <2>1. k - m \in 1..n /\ k = m + (k - m)
    BY <1>1
  <2>. QED BY <2>1, Zenon
<1>4. \A k \in 1..n : m + k \in 1..(m + n) /\ m + k \notin 1..m
  BY <1>1
<1>5. \A k \in 1..m : k \in 1..(m + n)
  BY <1>1
<1>6. \A k, l \in 1..n : m + k = m + l => k = l
  BY <1>1
<1>. HIDE DEF c, m, n
<1>7. Range(c) = Range(s) \cup Range(t)
  <2>1. ASSUME NEW k \in 1..(m + n) PROVE c[k] \in Range(s) \cup Range(t)
    <3>1. CASE k \in 1..m
      BY <3>1, <1>1, <1>2, Zenon DEF Range
    <3>2. ASSUME NEW l \in 1..n, k = m + l PROVE c[k] \in Range(t)
      BY <3>2, <1>1, <1>2, Zenon DEF Range
    <3>. QED BY <3>1, <3>2, <1>3, Zenon
  <2>2. Range(s) \subseteq Range(c)
    BY <1>1, <1>2, <1>5, Zenon DEF Range
  <2>3. Range(t) \subseteq Range(c)
    BY <1>1, <1>2, <1>4, Zenon DEF Range
  <2>4. Range(c) \subseteq Range(s) \cup Range(t)
    BY <2>1, <1>1, Zenon DEF Range
  <2>. QED BY <2>2, <2>3, <2>4, Zenon
<1>8. ASSUME IsInjective(c)
      PROVE  IsInjective(s) /\ IsInjective(t) /\ Range(s) \cap Range(t) = {}
  <2>1. IsInjective(s)
    BY <1>1, <1>2, <1>5, <1>8, Zenon DEF IsInjective
  <2>2. IsInjective(t)
    <3>. SUFFICES ASSUME NEW k \in 1..n, NEW l \in 1..n, t[k] = t[l] PROVE k = l
      BY <1>1, Zenon DEF IsInjective
    <3>1. m + k \in DOMAIN c /\ m + l \in DOMAIN c /\ c[m + k] = c[m + l]
      BY <1>1, <1>2, <1>4, Zenon
    <3>2. m + k = m + l
      BY <3>1, <1>8, Zenon DEF IsInjective
    <3>. QED BY <3>2, <1>6, Zenon
  <2>3. \A k \in 1..m, l \in 1..n : s[k] # t[l]
    BY <1>1, <1>2, <1>4, <1>5, <1>8, ZenonT(40) DEF IsInjective
  <2>4. Range(s) \cap Range(t) = {}
    BY <2>3, <1>1, Zenon DEF Range
  <2>. QED BY <2>1, <2>2, <2>4, Zenon
<1>9. ASSUME IsInjective(s), IsInjective(t), Range(s) \cap Range(t) = {}
      PROVE  IsInjective(c)
  <2>1. \A k \in 1..m, l \in 1..n : s[k] # t[l]
    BY <1>1, <1>9, Zenon DEF Range
  <2>. SUFFICES ASSUME NEW a \in 1..(m + n), NEW b \in 1..(m + n), c[a] = c[b]
                PROVE  a = b
    BY <1>1, Zenon DEF IsInjective
  <2>2. CASE a \in 1..m /\ b \in 1..m
    BY <2>2, <1>1, <1>2, <1>9, Zenon DEF IsInjective
  <2>3. CASE a \notin 1..m /\ b \notin 1..m
    <3>1. PICK k \in 1..n, l \in 1..n : a = m + k /\ b = m + l
      BY <2>3, <1>3, Zenon
    <3>2. t[k] = t[l]
      BY <3>1, <1>2, Zenon
    <3>3. k = l
      BY <3>2, <1>1, <1>9, Zenon DEF IsInjective
    <3>. QED BY <3>1, <3>3, Zenon
  <2>4. CASE a \in 1..m /\ b \notin 1..m
    BY <2>4, <2>1, <1>2, <1>3
  <2>5. CASE a \notin 1..m /\ b \in 1..m
    BY <2>5, <2>1, <1>2, <1>3
  <2>. QED BY <2>2, <2>3, <2>4, <2>5, Zenon
<1>. QED BY <1>7, <1>8, <1>9, Zenon DEF c

\* add_tail_nr_list of an id that is not in the list adds it, once.
LEMMA AddTailAdds ==
  ASSUME NEW S, NEW s \in Seq(S), NEW p \in S, p \notin Range(s), IsInjective(s)
  PROVE  /\ AddTail(s, p) \in Seq(S) /\ IsInjective(AddTail(s, p))
         /\ Range(AddTail(s, p)) = Range(s) \cup {p}
<1>. DEFINE n == Len(s)
<1>1. n \in Nat /\ DOMAIN s = 1..n /\ (s # <<>> => n # 0)
  BY LenProperties, EmptySeq, Zenon
<1>2. s # <<>> => s[Len(s)] # p
  BY <1>1 DEF Range
<1>3. AddTail(s, p) = s \o <<p>> /\ s \o <<p>> \in Seq(S)
  BY <1>2, AppendIsConcat, AppendProperties DEF AddTail
<1>4. <<p>> \in Seq(S) /\ Range(<<p>>) = {p} /\ IsInjective(<<p>>)
  BY DEF Range, IsInjective
<1>5. /\ Range(s \o <<p>>) = Range(s) \cup Range(<<p>>)
      /\ IsInjective(s \o <<p>>) <=>
           IsInjective(s) /\ IsInjective(<<p>>) /\ Range(s) \cap Range(<<p>>) = {}
  BY <1>4, ConcatParts, Zenon
<1>6. Range(s) \cap {p} = {}
  OBVIOUS
<1>. QED BY <1>3, <1>4, <1>5, <1>6, Zenon

\* add_tail_nr_list to a list with no other id leaves that id, once.
LEMMA AddTailAgain ==
  ASSUME NEW S, NEW s \in Seq(S), NEW p \in S, \A q \in Range(s) : q = p,
         IsInjective(s)
  PROVE  /\ AddTail(s, p) \in Seq(S) /\ IsInjective(AddTail(s, p))
         /\ Range(AddTail(s, p)) = {p}
<1>1. CASE p \notin Range(s)
  <2>1. Range(s) = {}
    BY <1>1, Zenon
  <2>. QED BY <1>1, <2>1, AddTailAdds
<1>2. CASE p \in Range(s)
  <2>1. s # <<>>
    BY <1>2, EmptyList, Zenon
  <2>2. Len(s) \in DOMAIN s
    BY <2>1, LenProperties, EmptySeq
  <2>3. s[Len(s)] = p
    BY <2>2, Zenon DEF Range
  <2>4. AddTail(s, p) = s
    BY <2>1, <2>3, Zenon DEF AddTail
  <2>. QED BY <1>2, <2>4, Zenon
<1>. QED BY <1>1, <1>2, Zenon

\* The list of the ids from a up to b.
LEMMA Interval ==
  ASSUME NEW a \in Nat, NEW b \in Nat, a <= b,
         NEW s, s = [n \in 1..(b - a) |-> a + n - 1]
  PROVE  /\ s \in Seq(a..(b - 1)) /\ IsInjective(s) /\ Range(s) = a..(b - 1)
<1>1. b - a \in Nat /\ \A n \in 1..(b - a) : a + n - 1 \in a..(b - 1)
  OBVIOUS
<1>2. s \in [1..(b - a) -> a..(b - 1)]
  BY <1>1, Zenon
<1>3. s \in Seq(a..(b - 1))
  BY <1>1, <1>2, SeqDef
<1>4. IsInjective(s)
  BY <1>1 DEF IsInjective
<1>5. \A p \in a..(b - 1) : p - a + 1 \in 1..(b - a) /\ s[p - a + 1] = p
  BY <1>1
<1>6. Range(s) = a..(b - 1)
  <2>. DEFINE I == 1..(b - a)
              J == a..(b - 1)
  <2>1. DOMAIN s = I /\ (\A n \in I : s[n] \in J) /\ \A p \in J : \E n \in I : s[n] = p
    BY <1>2, <1>5, Zenon
  <2>. HIDE DEF I, J
  <2>2. Range(s) = J
    BY <2>1, Zenon DEF Range
  <2>. QED BY <2>2, Zenon DEF J
<1>. QED BY <1>3, <1>4, <1>6, Zenon

-----------------------------------------------------------------------------
(* The lists *)

\* A step that leaves the lists alone.
LEMMA SortedQuiet ==
  ASSUME Sorted, UNCHANGED <<lists, round, is_waiting, ra, ra_pid, Msg4_ACKed>>,
         \/ pc' = pc
         \/ pc # "reset" /\ pc' \in {"unlocked", "ra", "uci"}
         \/ /\ pc # "reset" /\ pc' = "ue"
            /\ ~(ra = "WAIT_Msg4_ACK" /\ ~is_waiting[ra_pid])
  PROVE  Sorted'
<1>0. ProcTypes /\ Apart /\ Marked /\ Access
  BY Zenon DEF Sorted
<1>1. /\ available' = available /\ feedback' = feedback /\ retrans' = retrans /\ len' = len
      /\ round' = round /\ is_waiting' = is_waiting /\ ra' = ra /\ ra_pid' = ra_pid
      /\ Msg4_ACKed' = Msg4_ACKed
  BY Zenon DEF lists
<1>2. ProcTypes'
  BY <1>0, <1>1, Zenon DEF ProcTypes
<1>3. Apart'
  BY <1>0, <1>1, Zenon DEF Apart, Known
<1>4. Marked'
  BY <1>0, <1>1, Zenon DEF Marked, Known
<1>5. Access'
  BY <1>0, <1>1 DEF Access, Known
<1>. QED BY <1>2, <1>3, <1>4, <1>5, Zenon DEF Sorted

\* A process goes on the air, from the list whose other elements stay.
LEMMA TransmitLists ==
  ASSUME Sorted, NEW p \in Pids, NEW t, p \notin Range(feedback), Transmit(p, t)
  PROVE  /\ feedback' \in Seq(Pids) /\ IsInjective(feedback')
         /\ Range(feedback') = Range(feedback) \cup {p}
         /\ len' = len /\ Known' = Known /\ round' = round
         /\ is_waiting' \in [Pids -> BOOLEAN]
         /\ \A q \in Pids : is_waiting'[q] <=> q = p \/ is_waiting[q]
<1>1. /\ feedback' = AddTail(feedback, p) /\ len' = len /\ round' = round
      /\ is_waiting' = [is_waiting EXCEPT ![p] = TRUE]
  BY Zenon DEF Transmit
<1>2. Known' = Known
  BY <1>1, Zenon DEF Known
<1>3. /\ feedback' \in Seq(Pids) /\ IsInjective(feedback')
      /\ Range(feedback') = Range(feedback) \cup {p}
  BY <1>1, AddTailAdds DEF Sorted, ProcTypes, Apart
<1>4. /\ is_waiting' \in [Pids -> BOOLEAN]
      /\ \A q \in Pids : is_waiting'[q] <=> q = p \/ is_waiting[q]
  BY <1>1, Zenon DEF Sorted, ProcTypes
<1>. QED BY <1>1, <1>2, <1>3, <1>4, Zenon

\* nr_generate_Msg4 finds a process, which is not waiting.
LEMMA SortedMsg4 ==
  ASSUME Sorted, GenerateMsg4 PROVE Sorted' /\ assert' = FALSE
<1>0. ProcTypes /\ Apart /\ Marked /\ Access
  BY Zenon DEF Sorted
<1>. DEFINE p == IF retrans # <<>> THEN Head(retrans) ELSE Head(available)
<1>1. /\ pc = "ra" /\ ra = "Msg4" /\ Range(feedback) = {} /\ ~Msg4_ACKed
      /\ \A q \in Range(retrans) : q = ra_pid /\ q \notin Range(available)
  BY <1>0, Zenon DEF GenerateMsg4, Access, Apart
<1>2. 0 \in Known
  BY <1>0, Constants DEF ProcTypes, Known
<1>3. ~(retrans = <<>> /\ available = <<>>)
  BY <1>0, <1>1, <1>2, EmptyList, Zenon DEF Apart
<1>4. PICK t \in Times :
        /\ assert' = is_waiting[p]
        /\ available' = IF retrans # <<>> THEN available ELSE Tail(available)
        /\ Transmit(p, t)
        /\ ra' = "WAIT_Msg4_ACK" /\ ra_pid' = p /\ pc' = "ue"
        /\ retrans' = retrans /\ Msg4_ACKed' = Msg4_ACKed
  BY <1>3, Zenon DEF GenerateMsg4
<1>5. /\ p \in Pids /\ p \notin Range(feedback)
      /\ available' \in Seq(Pids) /\ IsInjective(available')
      /\ Range(available') = Range(available) \ {p}
      /\ \A q \in Range(retrans) : q = p
      /\ p \in Range(available) \cup Range(retrans)
  <2>1. CASE retrans # <<>>
    <3>1. p \in Pids /\ p \in Range(retrans)
      BY <1>0, <2>1, TailRemoves, Zenon DEF ProcTypes, Apart
    <3>2. available' = available
      BY <1>4, <2>1, Zenon
    <3>. HIDE DEF p
    <3>. QED BY <1>0, <1>1, <3>1, <3>2, Zenon DEF ProcTypes, Apart
  <2>2. CASE retrans = <<>>
    <3>1. available # <<>> /\ p = Head(available) /\ available' = Tail(available)
      BY <1>3, <1>4, <2>2, Zenon
    <3>2. /\ p \in Pids /\ p \in Range(available)
          /\ available' \in Seq(Pids) /\ IsInjective(available')
          /\ Range(available') = Range(available) \ {p}
      BY <1>0, <3>1, TailRemoves, Zenon DEF ProcTypes, Apart
    <3>. HIDE DEF p
    <3>. QED BY <1>1, <2>2, <3>2, EmptyList, Zenon
  <2>. QED BY <2>1, <2>2, Zenon
<1>. HIDE DEF p
<1>6. /\ feedback' \in Seq(Pids) /\ IsInjective(feedback')
      /\ Range(feedback') = {p}
      /\ len' = len /\ Known' = Known /\ round' = round
      /\ is_waiting' \in [Pids -> BOOLEAN]
      /\ \A q \in Pids : is_waiting'[q] <=> q = p \/ is_waiting[q]
  BY <1>1, <1>4, <1>5, TransmitLists, Zenon
<1>7. ~is_waiting[p]
  BY <1>0, <1>1, <1>5, Zenon DEF Marked
<1>8. assert' = FALSE
  BY <1>0, <1>4, <1>5, <1>7, Zenon DEF ProcTypes
<1>9. ProcTypes'
  BY <1>0, <1>4, <1>5, <1>6, Zenon DEF ProcTypes
<1>10. Apart'
  BY <1>0, <1>1, <1>4, <1>5, <1>6, ZenonT(40) DEF Apart
<1>11. Marked'
  BY <1>0, <1>1, <1>4, <1>5, <1>6, Zenon DEF Marked
<1>12. Access'
  <2>1. p \in Known'
    BY <1>0, <1>5, <1>6, Zenon DEF Apart
  <2>. QED BY <1>1, <1>4, <1>5, <1>6, <2>1, Zenon DEF Access
<1>. QED BY <1>8, <1>9, <1>10, <1>11, <1>12, Zenon DEF Sorted

\* A list with at most one id is empty once that id is removed.
LEMMA RemoveOnly ==
  ASSUME NEW S, NEW s \in Seq(S), NEW p \in Range(s), \A q \in Range(s) : q = p,
         IsInjective(s)
  PROVE  RemoveId(s, p) = <<>>
<1>1. Len(s) \in Nat /\ DOMAIN s = 1..Len(s) /\ Len(s) # 0
  BY LenProperties, EmptyList
<1>2. \A k \in 1..Len(s) : s[k] = p
  BY <1>1, Zenon DEF Range
<1>3. Len(s) = 1
  <2>1. 1 \in 1..Len(s) /\ Len(s) \in 1..Len(s)
    BY <1>1
  <2>. QED BY <1>1, <1>2, <2>1, Zenon DEF IsInjective
<1>4. 1..(Len(s) - 1) = {}
  BY <1>3
<1>. QED BY <1>4 DEF RemoveId

\* nr_check_Msg4_Ack takes the process out of retrans when the random access ends.
LEMMA SortedCheck ==
  ASSUME Sorted, assert = FALSE, CheckMsg4Ack PROVE Sorted' /\ assert' = FALSE
<1>0. ProcTypes /\ Apart /\ Marked /\ Access
  BY Zenon DEF Sorted
<1>1. /\ pc = "ra" /\ ra = "WAIT_Msg4_ACK" /\ ~is_waiting[ra_pid] /\ pc' = "ue"
      /\ available' = available /\ feedback' = feedback /\ len' = len
      /\ round' = round /\ is_waiting' = is_waiting /\ ra_pid' = ra_pid
      /\ Msg4_ACKed' = Msg4_ACKed
  BY Zenon DEF CheckMsg4Ack, procs
<1>2. /\ Range(feedback) = {} /\ \A q \in Range(retrans) : q = ra_pid
      /\ ra_pid \in Pids /\ ra_pid \in Known /\ Known' = Known
      /\ Msg4_ACKed => round[ra_pid] = 0
  BY <1>0, <1>1, Zenon DEF Access, Marked, ProcTypes, Known
<1>3. CASE round[ra_pid] = 0
  <2>1. /\ ra' = "idle"
        /\ assert' = (retrans # <<>> /\ ra_pid \notin Range(retrans))
        /\ retrans' = IF ra_pid \in Range(retrans) THEN RemoveId(retrans, ra_pid) ELSE retrans
    BY <1>3, Zenon DEF CheckMsg4Ack
  <2>2. retrans' = <<>>
    BY <1>0, <1>2, <2>1, RemoveOnly, EmptyList, Zenon DEF ProcTypes, Apart
  <2>3. retrans # <<>> => ra_pid \in Range(retrans)
    BY <1>0, <1>2, EmptyList, Zenon DEF ProcTypes
  <2>4. assert' = FALSE
    BY <2>1, <2>3, ZenonT(40)
  <2>5. ra_pid \in Range(available)
    BY <1>0, <1>1, <1>2, <1>3 DEF Apart, Marked
  <2>6. retrans' \in Seq(Pids) /\ IsInjective(retrans') /\ Range(retrans') = {}
    BY <2>2, EmptyList, Zenon
  <2>7. ProcTypes'
    BY <1>0, <1>1, <2>1, <2>6, Zenon DEF ProcTypes
  <2>8. Apart'
    BY <1>0, <1>1, <1>2, <2>5, <2>6, Zenon DEF Apart
  <2>9. Marked'
    BY <1>0, <1>1, <1>2, <2>6, Zenon DEF Marked
  <2>10. Access'
    BY <1>1, <2>1, <2>6, Zenon DEF Access
  <2>. QED BY <2>4, <2>7, <2>8, <2>9, <2>10, Zenon DEF Sorted
<1>4. CASE round[ra_pid] # 0
  <2>1. ra' = "Msg4" /\ retrans' = retrans /\ assert' = assert
    BY <1>4, Zenon DEF CheckMsg4Ack
  <2>2. ra_pid \notin Range(available)
    BY <1>0, <1>1, <1>2, <1>4, Zenon DEF Marked
  <2>3. ProcTypes'
    BY <1>0, <1>1, <2>1, Zenon DEF ProcTypes
  <2>4. Apart'
    BY <1>0, <1>1, <1>2, <2>1, <2>2, Zenon DEF Apart
  <2>5. Marked'
    BY <1>0, <1>1, <1>2, <2>1, ZenonT(40) DEF Marked
  <2>6. Access'
    BY <1>1, <1>2, <1>4, <2>1 DEF Access
  <2>. QED BY <2>1, <2>3, <2>4, <2>5, <2>6, Zenon DEF Sorted
<1>. QED BY <1>3, <1>4, Zenon

\* A process of retrans is sent again, from retrans.
LEMMA SortedRetx ==
  ASSUME Sorted, ScheduleRetx PROVE Sorted' /\ assert' = FALSE
<1>0. ProcTypes /\ Apart /\ Marked /\ Access
  BY DEF Sorted
<1>. DEFINE p == Head(retrans)
<1>1. /\ ra = "idle" /\ pc = "ue" /\ Msg4_ACKed /\ retrans # <<>>
      /\ \A q \in Range(retrans) : q \notin Range(available) /\ q \notin Range(feedback)
  BY ScheduledIdle, Zenon DEF ScheduleRetx
<1>2. /\ p \in Pids /\ p \in Range(retrans) /\ Tail(retrans) \in Seq(Pids)
      /\ IsInjective(Tail(retrans)) /\ Range(Tail(retrans)) = Range(retrans) \ {p}
  BY <1>0, <1>1, TailRemoves, Zenon DEF ProcTypes, Apart
<1>3. PICK t \in Times :
        /\ assert' = \/ is_waiting[p] \/ round[p] >= RoundMax
                     \/ round[p] = 0 /\ p \notin Range(available)
        /\ IF round[p] = 0 /\ p \in Range(available)
           THEN available' = RemoveId(available, p) /\ UNCHANGED retrans
           ELSE retrans' = Tail(retrans) /\ UNCHANGED available
        /\ Transmit(p, t)
  BY Zenon DEF ScheduleRetx
<1>4. pc' = "unlocked" /\ ra' = ra /\ ra_pid' = ra_pid /\ Msg4_ACKed' = Msg4_ACKed
  BY Zenon DEF ScheduleRetx, access
<1>. HIDE DEF p
<1>5. /\ p \notin Range(available) /\ p \notin Range(feedback) /\ round[p] > 0
      /\ ~is_waiting[p] /\ round[p] < RoundMax /\ round[p] \in Nat
  BY <1>0, <1>1, <1>2, Constants, SMTT(20) DEF Marked, ProcTypes
<1>6. retrans' = Tail(retrans) /\ available' = available
  BY <1>3, <1>5, Zenon
<1>7. assert' = FALSE
  <2>1. ~(round[p] >= RoundMax) /\ round[p] # 0
    BY <1>5, Constants, SMTT(20)
  <2>. QED BY <1>3, <1>5, <2>1, Zenon
<1>8. /\ feedback' \in Seq(Pids) /\ IsInjective(feedback')
      /\ Range(feedback') = Range(feedback) \cup {p}
      /\ len' = len /\ Known' = Known /\ round' = round
      /\ is_waiting' \in [Pids -> BOOLEAN]
      /\ \A q \in Pids : is_waiting'[q] <=> q = p \/ is_waiting[q]
  BY <1>2, <1>3, <1>5, TransmitLists, Zenon
<1>9. ProcTypes'
  BY <1>0, <1>2, <1>4, <1>6, <1>8, Zenon DEF ProcTypes
<1>10. Apart'
  BY <1>0, <1>1, <1>2, <1>4, <1>5, <1>6, <1>8, ZenonT(40) DEF Apart
<1>11. Marked'
  BY <1>0, <1>1, <1>2, <1>4, <1>6, <1>8, Zenon DEF Marked
<1>12. Access'
  BY <1>1, <1>4, Zenon DEF Access
<1>. QED BY <1>7, <1>9, <1>10, <1>11, <1>12 DEF Sorted

\* A free process is sent.
LEMMA SortedNew ==
  ASSUME Sorted, ScheduleNew PROVE Sorted' /\ assert' = FALSE
<1>0. ProcTypes /\ Apart /\ Marked /\ Access
  BY DEF Sorted
<1>. DEFINE p == Head(available)
<1>1. /\ ra = "idle" /\ pc = "ue" /\ Msg4_ACKed /\ available # <<>>
      /\ \A q \in Range(retrans) : q \notin Range(available) /\ q \notin Range(feedback)
  BY ScheduledIdle, Zenon DEF ScheduleNew
<1>2. /\ p \in Pids /\ p \in Range(available) /\ Tail(available) \in Seq(Pids)
      /\ IsInjective(Tail(available)) /\ Range(Tail(available)) = Range(available) \ {p}
  BY <1>0, <1>1, TailRemoves, Zenon DEF ProcTypes, Apart
<1>3. PICK t \in Times :
        /\ assert' = (is_waiting[p] \/ round[p] >= RoundMax)
        /\ available' = Tail(available) /\ retrans' = retrans
        /\ Transmit(p, t)
  BY Zenon DEF ScheduleNew
<1>4. pc' = "unlocked" /\ ra' = ra /\ ra_pid' = ra_pid /\ Msg4_ACKed' = Msg4_ACKed
  BY Zenon DEF ScheduleNew, access
<1>. HIDE DEF p
<1>5. p \notin Range(feedback) /\ round[p] = 0 /\ ~is_waiting[p]
  BY <1>0, <1>1, <1>2, Zenon DEF Marked, Apart
<1>7. assert' = FALSE
  <2>1. ~(round[p] >= RoundMax)
    BY <1>5, Constants, SMTT(20)
  <2>. QED BY <1>3, <1>5, <2>1, Zenon
<1>8. /\ feedback' \in Seq(Pids) /\ IsInjective(feedback')
      /\ Range(feedback') = Range(feedback) \cup {p}
      /\ len' = len /\ Known' = Known /\ round' = round
      /\ is_waiting' \in [Pids -> BOOLEAN]
      /\ \A q \in Pids : is_waiting'[q] <=> q = p \/ is_waiting[q]
  BY <1>2, <1>3, <1>5, TransmitLists, Zenon
<1>9. ProcTypes'
  BY <1>0, <1>2, <1>3, <1>4, <1>8, Zenon DEF ProcTypes
<1>10. Apart'
  BY <1>0, <1>1, <1>2, <1>3, <1>4, <1>5, <1>8, ZenonT(40) DEF Apart
<1>11. Marked'
  BY <1>0, <1>1, <1>2, <1>3, <1>4, <1>8, Zenon DEF Marked
<1>12. Access'
  BY <1>1, <1>4, Zenon DEF Access
<1>. QED BY <1>7, <1>9, <1>10, <1>11, <1>12 DEF Sorted

\* handle_dl_harq moves the head of feedback to available or to retrans.
LEMMA SortedHandle ==
  ASSUME Sorted, pc = "uci", feedback # <<>>, NEW p, p = Head(feedback),
         NEW success \in BOOLEAN, HandleDlHarq(p, success),
         UNCHANGED <<ra, ra_pid, pc>>, Msg4_ACKed' \in BOOLEAN,
         ~success => Msg4_ACKed' = Msg4_ACKed
  PROVE  Sorted'
<1>0. ProcTypes /\ Apart /\ Marked /\ Access
  BY Zenon DEF Sorted
<1>1. /\ feedback' = Tail(feedback) /\ len' = len
      /\ is_waiting' = [is_waiting EXCEPT ![p] = FALSE]
  BY Zenon DEF HandleDlHarq
<1>2. /\ p \in Pids /\ p \in Range(feedback)
      /\ feedback' \in Seq(Pids) /\ IsInjective(feedback')
      /\ Range(feedback') = Range(feedback) \ {p}
  BY <1>0, <1>1, TailRemoves, Zenon DEF ProcTypes, Apart
<1>3. /\ is_waiting' \in [Pids -> BOOLEAN] /\ Known' = Known
      /\ \A q \in Pids : is_waiting'[q] <=> q # p /\ is_waiting[q]
  BY <1>0, <1>1, <1>2, Zenon DEF ProcTypes, Known
<1>4. p \notin Range(available) /\ is_waiting[p]
  BY <1>0, <1>2, Zenon DEF Apart, Marked
<1>5. /\ ra = "Msg4" => FALSE
      /\ ra = "WAIT_Msg4_ACK" => /\ p = ra_pid /\ ~Msg4_ACKed
                                 /\ \A q \in Range(retrans) : q = p
      /\ p \in Range(retrans) => ra = "WAIT_Msg4_ACK"
      /\ ra # "idle" => ra = "WAIT_Msg4_ACK"
  BY <1>0, <1>2, <1>4, Zenon DEF Access, Apart, ProcTypes
<1>6. CASE success \/ round[p] >= RoundMax - 1
  <2>1. /\ available' = AddTail(available, p) /\ retrans' = retrans
        /\ round' = [round EXCEPT ![p] = 0]
    BY <1>6, Zenon DEF HandleDlHarq
  <2>2. /\ available' \in Seq(Pids) /\ IsInjective(available')
        /\ Range(available') = Range(available) \cup {p}
    BY <1>0, <1>2, <1>4, <2>1, AddTailAdds DEF ProcTypes, Apart
  <2>3. /\ round' \in [Pids -> 0..(RoundMax - 1)] /\ round'[p] = 0
        /\ \A q \in Pids : q # p => round'[q] = round[q]
    BY <1>0, <1>2, <2>1, Constants, Zenon DEF ProcTypes
  <2>4. ProcTypes'
    BY <1>0, <1>1, <1>2, <1>3, <2>1, <2>2, <2>3, ZenonT(40) DEF ProcTypes
  <2>5. Apart'
    BY <1>0, <1>2, <1>3, <1>4, <1>5, <2>1, <2>2 DEF Apart
  <2>6. Marked'
    BY <1>0, <1>2, <1>3, <1>4, <2>1, <2>2, <2>3, ZenonT(40) DEF Marked
  <2>7. Access'
    BY <1>0, <1>2, <1>3, <1>5, <2>1, <2>3 DEF Access
  <2>. QED BY <2>4, <2>5, <2>6, <2>7, Zenon DEF Sorted
<1>7. CASE ~(success \/ round[p] >= RoundMax - 1)
  <2>1. /\ retrans' = AddTail(retrans, p) /\ available' = available
        /\ round' = [round EXCEPT ![p] = @ + 1] /\ Msg4_ACKed' = Msg4_ACKed
    BY <1>7, Zenon DEF HandleDlHarq
  <2>2. /\ retrans' \in Seq(Pids) /\ IsInjective(retrans')
        /\ Range(retrans') = Range(retrans) \cup {p}
    <3>1. CASE p \in Range(retrans)
      <4>1. \A q \in Range(retrans) : q = p
        BY <1>5, <3>1, Zenon
      <4>2. /\ retrans' \in Seq(Pids) /\ IsInjective(retrans') /\ Range(retrans') = {p}
        <5>1. retrans \in Seq(Pids) /\ IsInjective(retrans) /\ p \in Pids
          BY <1>0, <1>2, Zenon DEF ProcTypes, Apart
        <5>2. /\ AddTail(retrans, p) \in Seq(Pids) /\ IsInjective(AddTail(retrans, p))
              /\ Range(AddTail(retrans, p)) = {p}
          BY <4>1, <5>1, AddTailAgain, ZenonT(40)
        <5>. QED BY <2>1, <5>2, Zenon
      <4>. QED BY <3>1, <4>1, <4>2, Zenon
    <3>2. CASE p \notin Range(retrans)
      BY <1>0, <1>2, <2>1, <3>2, AddTailAdds, SMTT(20) DEF ProcTypes, Apart
    <3>. QED BY <3>1, <3>2, Zenon
  <2>3. round[p] \in Nat /\ round[p] + 1 \in 0..(RoundMax - 1) /\ round[p] + 1 > 0
    BY <1>0, <1>2, <1>7, Constants, SMTT(20) DEF ProcTypes
  <2>4. /\ round' \in [Pids -> 0..(RoundMax - 1)] /\ round'[p] > 0
        /\ \A q \in Pids : q # p => round'[q] = round[q]
    BY <1>0, <1>2, <2>1, <2>3, Zenon DEF ProcTypes
  <2>5. ProcTypes'
    BY <1>0, <1>1, <1>2, <1>3, <2>1, <2>2, <2>4, Zenon DEF ProcTypes
  <2>6. Apart'
    BY <1>0, <1>2, <1>3, <1>4, <1>5, <2>1, <2>2, ZenonT(40) DEF Apart
  <2>7. Marked'
    <3>1. p \in Known
      BY <1>0, <1>2, Zenon DEF Apart
    <3>. SUFFICES ASSUME NEW q \in Pids
                  PROVE  /\ is_waiting'[q] <=> q \in Range(feedback')
                         /\ q \in Range(available') \/ q \notin Known' => round'[q] = 0
                         /\ q \in Range(retrans') /\ q \notin Range(available') => round'[q] > 0
      BY Zenon DEF Marked
    <3>2. CASE q = p
      BY <1>2, <1>3, <1>4, <2>1, <2>2, <2>4, <3>1, <3>2, Zenon
    <3>3. CASE q # p
      BY <1>0, <1>2, <1>3, <2>1, <2>2, <2>4, <3>3, Zenon DEF Marked
    <3>. QED BY <3>2, <3>3, Zenon
  <2>8. Access'
    BY <1>0, <1>2, <1>3, <1>5, <2>1, <2>2, Zenon DEF Access
  <2>. QED BY <2>5, <2>6, <2>7, <2>8 DEF Sorted
<1>. QED BY <1>6, <1>7, Zenon

\* A random access of the connected UE: from Msg3 to the end of the reset.
LEMMA SortedMsg3 ==
  ASSUME Sorted, Msg3 PROVE Sorted'
<1>0. ProcTypes /\ Apart /\ Marked /\ Access
  BY DEF Sorted
<1>1. /\ ra = "idle" /\ pc' = "reset" /\ Msg4_ACKed' = FALSE
      /\ UNCHANGED <<len, available, feedback, retrans, round, is_waiting, ra, ra_pid>>
  BY Zenon DEF Msg3, lists, procs
<1>2. ProcTypes'
  BY <1>0, <1>1, Zenon DEF ProcTypes
<1>3. Apart'
  BY <1>0, <1>1, Zenon DEF Apart, Known
<1>4. Marked' /\ Access'
  BY <1>1, Zenon DEF Marked, Access
<1>. QED BY <1>2, <1>3, <1>4, Zenon DEF Sorted

LEMMA SortedReset ==
  ASSUME Sorted, ResetFeedback \/ ResetRetrans PROVE Sorted'
<1>0. ProcTypes /\ Apart /\ Access /\ pc = "reset" /\ ra = "idle"
  BY Zenon DEF Sorted, Access, ResetFeedback, ResetRetrans
<1>1. UNCHANGED <<len, round, is_waiting, ra, ra_pid, Msg4_ACKed, pc>> /\ Known' = Known
  BY Zenon DEF ResetFeedback, ResetRetrans, procs, access, Known
<1>2. ASSUME NEW p \in Pids, p \notin Range(available), available' = AddTail(available, p)
      PROVE  /\ available' \in Seq(Pids) /\ IsInjective(available')
             /\ Range(available') = Range(available) \cup {p}
  BY <1>0, <1>2, AddTailAdds DEF ProcTypes, Apart
<1>3. CASE ResetFeedback
  <2>. DEFINE p == Head(feedback)
  <2>1. /\ feedback # <<>> /\ feedback' = Tail(feedback) /\ retrans' = retrans
        /\ available' = AddTail(available, p)
    BY <1>3, Zenon DEF ResetFeedback
  <2>2. /\ p \in Pids /\ p \in Range(feedback)
        /\ feedback' \in Seq(Pids) /\ IsInjective(feedback')
        /\ Range(feedback') = Range(feedback) \ {p}
    BY <1>0, <2>1, TailRemoves, Zenon DEF ProcTypes, Apart
  <2>. HIDE DEF p
  <2>3. p \notin Range(available)
    BY <1>0, <2>2, Zenon DEF Apart
  <2>4. /\ available' \in Seq(Pids) /\ IsInjective(available')
        /\ Range(available') = Range(available) \cup {p}
    BY <1>2, <2>1, <2>2, <2>3, Zenon
  <2>5. ProcTypes'
    BY <1>0, <1>1, <2>1, <2>2, <2>4, Zenon DEF ProcTypes
  <2>6. Apart'
    BY <1>0, <1>1, <2>1, <2>2, <2>4, Zenon DEF Apart
  <2>7. Marked' /\ Access'
    BY <1>0, <1>1, Zenon DEF Marked, Access
  <2>. QED BY <2>5, <2>6, <2>7, Zenon DEF Sorted
<1>4. CASE ResetRetrans
  <2>. DEFINE p == Head(retrans)
  <2>1. /\ retrans # <<>> /\ retrans' = Tail(retrans) /\ feedback' = feedback
        /\ available' = AddTail(available, p)
    BY <1>4, Zenon DEF ResetRetrans
  <2>2. /\ p \in Pids /\ p \in Range(retrans)
        /\ retrans' \in Seq(Pids) /\ IsInjective(retrans')
        /\ Range(retrans') = Range(retrans) \ {p}
    BY <1>0, <2>1, TailRemoves, Zenon DEF ProcTypes, Apart
  <2>. HIDE DEF p
  <2>3. p \notin Range(available) /\ p \notin Range(feedback)
    BY <1>0, <2>2, Zenon DEF Apart
  <2>4. /\ available' \in Seq(Pids) /\ IsInjective(available')
        /\ Range(available') = Range(available) \cup {p}
    BY <1>2, <2>1, <2>2, <2>3, Zenon
  <2>5. ProcTypes'
    BY <1>0, <1>1, <2>1, <2>2, <2>4, ZenonT(40) DEF ProcTypes
  <2>6. Apart'
    BY <1>0, <1>1, <2>1, <2>2, <2>3, <2>4, SMTT(20) DEF Apart
  <2>7. Marked' /\ Access'
    BY <1>0, <1>1 DEF Marked, Access
  <2>. QED BY <2>5, <2>6, <2>7 DEF Sorted
<1>. QED BY <1>3, <1>4, Zenon

LEMMA SortedResetEnd ==
  ASSUME Sorted, ResetEnd PROVE Sorted'
<1>0. ProcTypes /\ Apart /\ Access
  BY Zenon DEF Sorted
<1>1. /\ pc = "reset" /\ feedback = <<>> /\ retrans = <<>>
      /\ round' = [p \in Pids |-> 0] /\ is_waiting' = [p \in Pids |-> FALSE]
      /\ ra' = "Msg4" /\ pc' = "unlocked"
      /\ UNCHANGED <<len, available, feedback, retrans, ra_pid, Msg4_ACKed>>
  BY Zenon DEF ResetEnd, lists
<1>2. Range(feedback) = {} /\ Range(retrans) = {} /\ ~Msg4_ACKed /\ Known' = Known
  BY <1>0, <1>1, EmptyList, Zenon DEF Access, Known
<1>3. ProcTypes'
  BY <1>0, <1>1, Constants, Zenon DEF ProcTypes
<1>4. Apart'
  BY <1>0, <1>1, <1>2, Zenon DEF Apart
<1>5. Marked'
  BY <1>1, <1>2, Zenon DEF Marked
<1>6. Access'
  BY <1>1, <1>2, Zenon DEF Access
<1>. QED BY <1>3, <1>4, <1>5, <1>6, Zenon DEF Sorted

\* create_dl_harq_list appends the new ids.
LEMMA SortedCreate ==
  ASSUME Sorted, CreateDlHarqList PROVE Sorted'
<1>0. ProcTypes /\ Apart /\ Marked /\ Access
  BY DEF Sorted
<1>. DEFINE s == [n \in 1..(NumHarq - len) |-> len + n - 1]
<1>1. /\ pc = "unlocked" /\ len < NumHarq /\ len' = NumHarq /\ available' = available \o s
      /\ UNCHANGED <<feedback, retrans, round, is_waiting, ra, ra_pid, Msg4_ACKed, pc>>
  BY Zenon DEF CreateDlHarqList, procs, access
<1>2. len \in Nat /\ NumHarq \in Nat /\ len <= NumHarq
  BY <1>0, <1>1, Constants DEF ProcTypes
<1>3. s \in Seq(len..(NumHarq - 1)) /\ IsInjective(s) /\ Range(s) = len..(NumHarq - 1)
  BY <1>2, Interval, Zenon
<1>. HIDE DEF s
<1>4. len..(NumHarq - 1) \subseteq Pids
  BY <1>2 DEF Pids
<1>5. s \in Seq(Pids)
  <2>. DEFINE J == len..(NumHarq - 1)
  <2>1. s \in Seq(J) /\ J \subseteq Pids
    BY <1>3, <1>4, Zenon
  <2>. HIDE DEF J
  <2>. QED BY <2>1, SeqDef
<1>6. /\ Known \cap (len..(NumHarq - 1)) = {}
      /\ Known' = Known \cup (len..(NumHarq - 1))
  BY <1>1, <1>2, SMTT(20) DEF Known
<1>7. /\ available' \in Seq(Pids)
      /\ Range(available') = Range(available) \cup Range(s)
      /\ IsInjective(available') <=>
           IsInjective(available) /\ IsInjective(s) /\ Range(available) \cap Range(s) = {}
  BY <1>0, <1>1, <1>5, ConcatParts, ConcatProperties DEF ProcTypes
<1>8. Range(available) \cap Range(s) = {}
  BY <1>0, <1>3, <1>6, Zenon DEF Apart
<1>9. \A p \in Range(s) : p \in Pids /\ p \notin Range(feedback) /\ p \notin Range(retrans)
  BY <1>0, <1>3, <1>4, <1>6, Zenon DEF Apart
<1>10. ProcTypes'
  BY <1>0, <1>1, <1>7, Zenon DEF ProcTypes
<1>11. Apart'
  BY <1>0, <1>1, <1>3, <1>6, <1>7, <1>8, <1>9, Zenon DEF Apart
<1>12. Access'
  BY <1>0, <1>1, <1>6, Zenon DEF Access
<1>13. Marked'
  BY <1>0, <1>1, <1>3, <1>6, <1>7, <1>9, Zenon DEF Marked
<1>. QED BY <1>10, <1>11, <1>12, <1>13 DEF Sorted

LEMMA SortedInit ==
  ASSUME Init PROVE Sorted
<1>1. /\ len = InitHarq /\ available = [n \in 1..InitHarq |-> n - 1]
      /\ feedback = <<>> /\ retrans = <<>>
      /\ round = [p \in Pids |-> 0] /\ is_waiting = [p \in Pids |-> FALSE]
      /\ ra = "Msg4" /\ ra_pid = 0 /\ Msg4_ACKed = FALSE /\ pc = "unlocked"
  BY Zenon DEF Init
<1>2. available = [n \in 1..(InitHarq - 0) |-> 0 + n - 1]
  BY <1>1, Constants
<1>3. /\ available \in Seq(0..(InitHarq - 1)) /\ IsInjective(available)
      /\ Range(available) = 0..(InitHarq - 1)
  BY <1>2, Constants, Interval
<1>4. available \in Seq(Pids)
  <2>. DEFINE J == 0..(InitHarq - 1)
  <2>1. J \subseteq Pids /\ available \in Seq(J)
    BY <1>3, Constants DEF Pids
  <2>. HIDE DEF J
  <2>. QED BY <2>1, SeqDef
<1>5. /\ Range(feedback) = {} /\ Range(retrans) = {} /\ feedback \in Seq(Pids)
      /\ retrans \in Seq(Pids) /\ IsInjective(feedback) /\ IsInjective(retrans)
  BY <1>1, EmptyList, Zenon
<1>6. ProcTypes
  BY <1>1, <1>4, <1>5, Constants, Zenon DEF ProcTypes
<1>7. Apart
  BY <1>1, <1>3, <1>5, Zenon DEF Apart, Known
<1>8. Marked
  BY <1>1, <1>5, Zenon DEF Marked
<1>9. Access
  BY <1>1, <1>5, Zenon DEF Access
<1>. QED BY <1>6, <1>7, <1>8, <1>9, Zenon DEF Sorted

\* The steps of the slot scheduler, of the UCI handlers and of the others keep the
\* lists sorted, and none of them asserts.
LEMMA SortedStep ==
  ASSUME Sorted, assert = FALSE, [Next]_vars PROVE Sorted' /\ assert' = FALSE
<1>1. CASE GenerateMsg4
  BY <1>1, SortedMsg4, Zenon
<1>2. CASE CheckMsg4Ack
  BY <1>2, SortedCheck, Zenon
<1>3. CASE ScheduleRetx
  BY <1>3, SortedRetx
<1>4. CASE ScheduleNew
  BY <1>4, SortedNew
<1>5. CASE UciMissed
  <2>1. /\ pc = "uci" /\ feedback # <<>> /\ HandleDlHarq(Head(feedback), FALSE)
        /\ assert' = assert /\ UNCHANGED <<ra, ra_pid, pc, Msg4_ACKed>>
    BY <1>5, Zenon DEF UciMissed, BitLeft, access
  <2>2. Msg4_ACKed' \in BOOLEAN
    BY <2>1, Zenon DEF Sorted, ProcTypes
  <2>3. Sorted'
    BY <2>1, <2>2, SortedHandle, Zenon
  <2>. QED BY <2>1, <2>3, Zenon
<1>6. CASE UciBit
  <2>1. PICK ack \in BOOLEAN, short \in BOOLEAN :
          /\ HandleDlHarq(Head(feedback), ack)
          /\ Msg4_ACKed' = (Msg4_ACKed \/ (ack /\ short))
    BY <1>6, Zenon DEF UciBit
  <2>2. /\ pc = "uci" /\ feedback # <<>> /\ assert' = ~is_waiting[Head(feedback)]
        /\ UNCHANGED <<ra, ra_pid, pc>>
    BY <1>6, Zenon DEF UciBit, BitLeft
  <2>3. Msg4_ACKed' \in BOOLEAN /\ (~ack => Msg4_ACKed' = Msg4_ACKed)
    BY <2>1, Zenon DEF Sorted, ProcTypes
  <2>4. Sorted'
    BY <2>1, <2>2, <2>3, SortedHandle, Zenon
  <2>5. Head(feedback) \in Pids /\ Head(feedback) \in Range(feedback)
    BY <2>2, TailRemoves, Zenon DEF Sorted, ProcTypes, Apart
  <2>6. is_waiting[Head(feedback)] = TRUE
    BY <2>2, <2>5, Zenon DEF Sorted, ProcTypes, Marked
  <2>. QED BY <2>2, <2>4, <2>6, Zenon
<1>7. CASE Msg3
  BY <1>7, SortedMsg3, Zenon DEF Msg3
<1>8. CASE ResetFeedback \/ ResetRetrans
  BY <1>8, SortedReset, Zenon DEF ResetFeedback, ResetRetrans
<1>9. CASE ResetEnd
  BY <1>9, SortedResetEnd, Zenon DEF ResetEnd
<1>10. CASE CreateDlHarqList
  BY <1>10, SortedCreate, Zenon DEF CreateDlHarqList
<1>11. CASE \/ SlotStart \/ RaWait \/ ScheduleNone \/ UciStart \/ UciEnd \/ UciLost
            \/ UlFailure \/ UNCHANGED vars
  <2>1. /\ UNCHANGED <<lists, round, is_waiting, ra, ra_pid, Msg4_ACKed>> /\ assert' = assert
        /\ \/ pc' = pc
           \/ pc # "reset" /\ pc' \in {"unlocked", "ra", "uci"}
           \/ /\ pc # "reset" /\ pc' = "ue"
              /\ ~(ra = "WAIT_Msg4_ACK" /\ ~is_waiting[ra_pid])
    BY <1>11, Zenon DEF SlotStart, RaWait, ScheduleNone, UciStart, UciEnd, UciLost,
                        UlFailure, vars, procs, access
  <2>. QED BY <2>1, SortedQuiet, Zenon
<1>. QED BY <1>1, <1>2, <1>3, <1>4, <1>5, <1>6, <1>7, <1>8, <1>9, <1>10, <1>11, ZenonT(40)
         DEF Next, Scheduler, Uci, Reset

-----------------------------------------------------------------------------
(* The other types *)

LEMMA RestTransmit ==
  ASSUME RestTypes, NEW p \in Pids, NEW t \in Times, Transmit(p, t),
         ul_failure' = ul_failure, ras' = ras
  PROVE  RestTypes'
<1>1. /\ at' = [at EXCEPT ![p] = t] /\ pucch' = [pucch EXCEPT ![t] = Append(@, p)]
      /\ UNCHANGED <<ul, phy, lost, uci, bit, credited, now>>
  BY Zenon DEF Transmit, rx
<1>2. at' \in [Pids -> Times]
  BY <1>1, Zenon DEF RestTypes
<1>3. Append(pucch[t], p) \in Seq(Pids)
  BY AppendProperties, Zenon DEF RestTypes
<1>4. pucch' \in [Times -> Seq(Pids)]
  BY <1>1, <1>3, Zenon DEF RestTypes
<1>. QED BY <1>1, <1>2, <1>4, Zenon DEF RestTypes

\* What the two handlers of a HARQ bit have in common.
LEMMA Handled ==
  ASSUME Sorted, UciMissed \/ UciBit
  PROVE  /\ Head(feedback) \in Pids /\ is_waiting[Head(feedback)]
         /\ pc = "uci" /\ pc' = "uci" /\ feedback # <<>>
         /\ \E ack \in BOOLEAN : HandleDlHarq(Head(feedback), ack)
         /\ UNCHANGED <<ul_failure, ras, now, air, uci>>
<1>1. pc = "uci" /\ feedback # <<>> /\ UNCHANGED <<ul_failure, ras, now, air, uci, pc>>
  BY Zenon DEF UciMissed, UciBit, BitLeft, access, rx
<1>2. \E ack \in BOOLEAN : HandleDlHarq(Head(feedback), ack)
  BY Zenon DEF UciMissed, UciBit
<1>3. Head(feedback) \in Pids /\ Head(feedback) \in Range(feedback)
  BY <1>1, TailRemoves, Zenon DEF Sorted, ProcTypes, Apart
<1>4. is_waiting[Head(feedback)]
  BY <1>1, <1>3, Zenon DEF Sorted, Marked
<1>. QED BY <1>1, <1>2, <1>3, <1>4, Zenon

LEMMA RestSlot ==
  ASSUME RestTypes, SlotStart PROVE RestTypes'
<1>1. /\ now' = Later(now, 1)
      /\ phy' = IF pucch[now'] = <<>> THEN phy
                ELSE Append(phy, [at |-> now', bits |-> pucch[now']])
      /\ pucch' = [pucch EXCEPT ![now'] = <<>>]
      /\ UNCHANGED <<at, ul_failure, ras, lost, uci, bit, credited>>
  BY Zenon DEF SlotStart, procs, access, rx
<1>2. PICK usable \in BOOLEAN :
        ul' = (ul \ {now'}) \cup (IF usable THEN {Later(now', K1)} ELSE {})
  BY Zenon DEF SlotStart
<1>3. now \in Nat /\ now' \in Times /\ now' \in Nat /\ K1 \in Nat
  BY <1>1, Periods DEF RestTypes
<1>4. Later(now', K1) \in Times
  BY <1>3, Periods, Zenon
<1>5. ul' \subseteq Times
  BY <1>2, <1>4, Zenon DEF RestTypes
<1>6. pucch' \in [Times -> Seq(Pids)] /\ pucch[now'] \in Seq(Pids)
  BY <1>1, <1>3, EmptyList, Zenon DEF RestTypes
<1>7. [at |-> now', bits |-> pucch[now']] \in Indications
  BY <1>3, <1>6, Zenon DEF Indications
<1>8. phy' \in Seq(Indications)
  BY <1>1, <1>7, AppendProperties, Zenon DEF RestTypes, Indications
<1>. QED BY <1>1, <1>3, <1>5, <1>6, <1>8, Zenon DEF RestTypes, Indications

LEMMA RestHandled ==
  ASSUME Sorted, RestTypes, UciMissed \/ UciBit PROVE RestTypes'
<1>. DEFINE p == Head(feedback)
<1>1. /\ p \in Pids /\ UNCHANGED <<ul_failure, ras, now, pucch, ul, phy, lost, uci>>
  BY Handled, Zenon DEF air
<1>2. at' = [at EXCEPT ![p] = 0]
  BY Handled, Zenon DEF HandleDlHarq
<1>3. at' \in [Pids -> Times]
  BY <1>1, <1>2, Periods, Zenon DEF RestTypes
<1>4. bit' \in Nat \ {0} /\ credited' \in Pids \X Pids
  <2>1. CASE UciMissed
    BY <2>1, Zenon DEF UciMissed, rx, RestTypes
  <2>2. CASE UciBit
    <3>1. bit' = bit + 1 /\ bit <= Len(uci.bits) /\ credited' = <<uci.bits[bit], p>>
      BY <2>2, Zenon DEF UciBit, BitLeft
    <3>2. bit \in Nat \ {0} /\ uci.bits \in Seq(Pids)
      BY Zenon DEF RestTypes
    <3>3. bit \in 1..Len(uci.bits)
      BY <3>1, <3>2, LenProperties
    <3>4. uci.bits[bit] \in Pids
      BY <3>2, <3>3, ElementOfSeq, Zenon
    <3>. QED BY <1>1, <3>1, <3>2, <3>4, SMTT(20)
  <2>. QED BY <2>1, <2>2, Zenon
<1>. QED BY <1>1, <1>3, <1>4, Zenon DEF RestTypes

LEMMA RestStep ==
  ASSUME Sorted, RestTypes, [Next]_vars PROVE RestTypes'
<1>1. CASE GenerateMsg4 \/ ScheduleRetx \/ ScheduleNew
  BY <1>1, Sent, RestTransmit, Zenon
<1>2. CASE UciMissed \/ UciBit
  BY <1>2, RestHandled, Zenon
<1>3. CASE SlotStart
  BY <1>3, RestSlot, Zenon
<1>4. CASE UciStart \/ UciLost
  <2>1. phy # <<>> /\ phy' = Tail(phy) /\ UNCHANGED <<at, ul_failure, ras, now, pucch, ul, credited>>
    BY <1>4, Zenon DEF UciStart, UciLost, procs, access, rx
  <2>2. Head(phy) \in Indications /\ Tail(phy) \in Seq(Indications)
    BY <2>1, HeadTailProperties, Zenon DEF RestTypes, Indications
  <2>3. lost' \in Nat /\ uci' \in Indications /\ bit' \in Nat \ {0}
    <3>1. CASE UciStart
      BY <3>1, <2>2, SMTT(20) DEF UciStart, RestTypes
    <3>2. CASE UciLost
      BY <3>2 DEF UciLost, RestTypes, rx, Indications
    <3>. QED BY <1>4, <3>1, <3>2, Zenon
  <2>. QED BY <2>1, <2>2, <2>3, Zenon DEF RestTypes, Indications
<1>5. CASE UciEnd
  <2>1. /\ bit' = 1 /\ uci' = [at |-> 0, bits |-> <<>>] /\ credited' = <<0, 0>>
        /\ UNCHANGED <<at, ul_failure, ras, now, pucch, ul, phy, lost>>
    BY <1>5, ZenonT(40) DEF UciEnd, procs, access, air
  <2>2. uci' \in [at : Times, bits : Seq(Pids)] /\ bit' \in Nat \ {0}
    BY <2>1, Periods, EmptyList
  <2>3. credited' \in Pids \X Pids
    BY <2>1, Constants, Zenon
  <2>. QED BY <2>1, <2>2, <2>3, Zenon DEF RestTypes
<1>6. CASE Msg3
  <2>1. /\ ras' = ras + 1 /\ ul_failure' = FALSE
        /\ UNCHANGED <<at, now, pucch, ul, phy, lost, uci, bit, credited>>
    BY <1>6, Zenon DEF Msg3, procs, air, rx
  <2>2. ras' \in Nat
    BY <2>1 DEF RestTypes
  <2>. QED BY <2>1, <2>2, Zenon DEF RestTypes
<1>7. CASE ResetEnd
  <2>1. /\ at' = [p \in Pids |-> 0]
        /\ UNCHANGED <<ul_failure, ras, now, pucch, ul, phy, lost, uci, bit, credited>>
    BY <1>7, Zenon DEF ResetEnd, air, rx
  <2>2. at' \in [Pids -> Times]
    BY <2>1, Periods, Zenon
  <2>. QED BY <2>1, <2>2, Zenon DEF RestTypes
<1>8. CASE CheckMsg4Ack \/ UlFailure
  <2>1. UNCHANGED <<at, ras, now, pucch, ul, phy, lost, uci, bit, credited>>
    BY <1>8, Zenon DEF CheckMsg4Ack, UlFailure, procs, air, rx
  <2>2. ul_failure' \in BOOLEAN
    BY <1>8, Zenon DEF CheckMsg4Ack, UlFailure, RestTypes
  <2>. QED BY <2>1, <2>2, Zenon DEF RestTypes
<1>9. CASE \/ RaWait \/ ScheduleNone \/ ResetFeedback \/ ResetRetrans
           \/ CreateDlHarqList \/ UNCHANGED vars
  <2>1. UNCHANGED <<at, ul_failure, ras, now, pucch, ul, phy, lost, uci, bit, credited>>
    BY <1>9, Zenon DEF RaWait, ScheduleNone, ResetFeedback, ResetRetrans, CreateDlHarqList,
                vars, procs, access, air, rx
  <2>. QED BY <2>1, ZenonT(40) DEF RestTypes
<1>. QED BY <1>1, <1>2, <1>3, <1>4, <1>5, <1>6, <1>7, <1>8, <1>9
         DEF Next, Scheduler, Uci, Reset

LEMMA RestInit ==
  ASSUME Init PROVE RestTypes
<1>1. /\ at = [p \in Pids |-> 0] /\ ul_failure = FALSE /\ ras = 0 /\ now = 0
      /\ pucch = [t \in Times |-> <<>>] /\ ul = {} /\ phy = <<>> /\ lost = 0
      /\ uci = [at |-> 0, bits |-> <<>>] /\ bit = 1 /\ credited = <<0, 0>>
  BY Zenon DEF Init
<1>2. at \in [Pids -> Times] /\ ras \in Nat /\ now \in Times /\ lost \in Nat
  BY <1>1, Periods, Zenon
<1>3. pucch \in [Times -> Seq(Pids)] /\ phy \in Seq([at : Times, bits : Seq(Pids)])
  BY <1>1, EmptyList, Zenon
<1>4. uci \in [at : Times, bits : Seq(Pids)] /\ bit \in Nat \ {0} /\ credited \in Pids \X Pids
  BY <1>1, Periods, Constants, EmptyList
<1>5. ul \subseteq Times /\ ul_failure \in BOOLEAN
  BY <1>1, Zenon
<1>. QED BY <1>2, <1>3, <1>4, <1>5, Zenon DEF RestTypes

-----------------------------------------------------------------------------
(* The new-data indicator *)

\* The indicator the UE saw last is the one of a block that waits or is due again,
\* or that a reset has cut off, and not the one of any other new block.
NdiInv ==
  \A p \in Pids : /\ sent[p] = ndi[p] <=> is_waiting[p] \/ round[p] > 0 \/ p \in cut
                  /\ is_waiting[p] \/ round[p] > 0 => p \notin cut

LEMMA NdiTransmit ==
  ASSUME ProcTypes, NdiTypes, NdiInv, NEW p \in Pids, NEW t, Transmit(p, t)
  PROVE  NdiTypes' /\ NdiInv'
<1>1. /\ is_waiting' = [is_waiting EXCEPT ![p] = TRUE] /\ sent' = [sent EXCEPT ![p] = ndi[p]]
      /\ round' = round /\ ndi' = ndi /\ cut' = cut \ {p}
  BY Zenon DEF Transmit
<1>2. ndi[p] \in 0..2
  BY DEF NdiTypes
<1>3. NdiTypes'
  BY <1>1, <1>2, Zenon DEF NdiTypes
<1>4. \A q \in Pids : q # p =>
        is_waiting'[q] = is_waiting[q] /\ sent'[q] = sent[q] /\ (q \in cut' <=> q \in cut)
  BY <1>1, Zenon DEF ProcTypes, NdiTypes
<1>5. is_waiting'[p] = TRUE /\ sent'[p] = ndi[p] /\ p \notin cut'
  BY <1>1, ZenonT(40) DEF ProcTypes, NdiTypes
<1>6. NdiInv'
  BY <1>1, <1>4, <1>5, Zenon DEF NdiInv
<1>. QED BY <1>3, <1>6, Zenon

LEMMA NdiHandled ==
  ASSUME ProcTypes, NdiTypes, NdiInv, NEW p \in Pids, is_waiting[p],
         NEW ack \in BOOLEAN, HandleDlHarq(p, ack)
  PROVE  NdiTypes' /\ NdiInv'
<1>1. /\ is_waiting' = [is_waiting EXCEPT ![p] = FALSE] /\ sent' = sent /\ sent[p] = ndi[p]
      /\ cut' = cut /\ p \notin cut
  BY Zenon DEF HandleDlHarq, NdiInv
<1>2. is_waiting'[p] = FALSE /\ \A q \in Pids : q # p => is_waiting'[q] = is_waiting[q]
  BY <1>1, Zenon DEF ProcTypes
<1>3. ndi[p] \in 0..1 /\ round[p] \in Nat
  BY DEF NdiTypes, ProcTypes
<1>4. CASE ack \/ round[p] >= RoundMax - 1
  <2>1. round' = [round EXCEPT ![p] = 0] /\ ndi' = [ndi EXCEPT ![p] = 1 - ndi[p]]
    BY <1>4, Zenon DEF HandleDlHarq
  <2>2. 1 - ndi[p] \in 0..1 /\ 1 - ndi[p] # ndi[p]
    BY <1>3
  <2>3. NdiTypes'
    BY <1>1, <2>1, <2>2, Zenon DEF NdiTypes
  <2>4. /\ round'[p] = 0 /\ ndi'[p] = 1 - ndi[p]
        /\ \A q \in Pids : q # p => round'[q] = round[q] /\ ndi'[q] = ndi[q]
    BY <2>1, Zenon DEF ProcTypes, NdiTypes
  <2>6. sent'[p] # ndi'[p]
    BY <1>1, <1>3, <2>2, <2>4, ZenonT(40)
  <2>7. ~(round'[p] > 0)
    BY <2>4
  <2>5. NdiInv'
    BY <1>1, <1>2, <2>4, <2>6, <2>7, Zenon DEF NdiInv
  <2>. QED BY <2>3, <2>5, Zenon
<1>5. CASE ~(ack \/ round[p] >= RoundMax - 1)
  <2>1. round' = [round EXCEPT ![p] = round[p] + 1] /\ ndi' = ndi
    BY <1>5, Zenon DEF HandleDlHarq
  <2>2. NdiTypes'
    BY <1>1, <2>1, Zenon DEF NdiTypes
  <2>3. round'[p] > 0 /\ \A q \in Pids : q # p => round'[q] = round[q]
    BY <1>3, <2>1 DEF ProcTypes
  <2>5. NdiInv'
    BY <1>1, <1>2, <2>1, <2>3, Zenon DEF NdiInv
  <2>. QED BY <2>2, <2>5, Zenon
<1>. QED BY <1>4, <1>5, Zenon

LEMMA NdiStep ==
  ASSUME Sorted, NdiTypes, NdiInv, [Next]_vars PROVE NdiTypes' /\ NdiInv'
<1>0. ProcTypes
  BY Zenon DEF Sorted
<1>1. CASE GenerateMsg4 \/ ScheduleRetx \/ ScheduleNew
  <2>1. PICK p \in Pids, t \in Times : Transmit(p, t)
    BY <1>1, Sent, Zenon
  <2>. QED BY <1>0, <2>1, NdiTransmit, Zenon
<1>2. CASE UciMissed \/ UciBit
  <2>1. PICK ack \in BOOLEAN : HandleDlHarq(Head(feedback), ack)
    BY <1>2, Handled, Zenon
  <2>2. Head(feedback) \in Pids /\ is_waiting[Head(feedback)]
    BY <1>2, Handled, Zenon
  <2>. QED BY <1>0, <2>1, <2>2, NdiHandled, Zenon
<1>4. CASE ResetEnd
  <2>1. /\ round' = [p \in Pids |-> 0] /\ is_waiting' = [p \in Pids |-> FALSE]
        /\ sent' = sent /\ ndi' = ndi
        /\ cut' = cut \cup {p \in Pids : is_waiting[p] \/ round[p] > 0}
    BY <1>4, Zenon DEF ResetEnd
  <2>2. NdiTypes'
    BY <2>1, Zenon DEF NdiTypes
  <2>3. ~(0 > 0)
    OBVIOUS
  <2>4. \A p \in Pids : ~is_waiting'[p] /\ ~(round'[p] > 0)
    BY <2>1, <2>3, Zenon
  <2>5. \A p \in Pids : p \in cut' <=> is_waiting[p] \/ round[p] > 0 \/ p \in cut
    BY <2>1, Zenon
  <2>. QED BY <2>1, <2>2, <2>4, <2>5, Zenon DEF NdiInv
<1>5. CASE \/ SlotStart \/ CheckMsg4Ack \/ RaWait \/ ScheduleNone \/ UciStart \/ UciEnd
           \/ UciLost \/ UlFailure \/ CreateDlHarqList \/ Msg3 \/ ResetFeedback \/ ResetRetrans
           \/ UNCHANGED vars
  <2>1. UNCHANGED procs
    BY <1>5, ZenonT(40) DEF SlotStart, CheckMsg4Ack, RaWait, ScheduleNone, UciStart, UciEnd,
                       UciLost, UlFailure, CreateDlHarqList, Msg3, ResetFeedback, ResetRetrans, vars
  <2>. QED BY <2>1, Zenon DEF procs, NdiTypes, NdiInv
<1>. QED BY <1>1, <1>2, <1>4, <1>5, Zenon DEF Next, Scheduler, Uci, Reset

LEMMA NdiInit ==
  ASSUME Init PROVE NdiTypes /\ NdiInv
<1>1. \A p \in Pids : sent[p] # ndi[p] /\ ~is_waiting[p] /\ ~(round[p] > 0)
  BY DEF Init, Dtx
<1>2. NdiTypes
  BY DEF Init, NdiTypes, Dtx
<1>3. cut = {}
  BY Zenon DEF Init
<1>. QED BY <1>1, <1>2, <1>3, Zenon DEF NdiInv

-----------------------------------------------------------------------------
(* Theorems *)

Inv == Sorted /\ assert = FALSE /\ RestTypes /\ NdiTypes /\ NdiInv

LEMMA InvInit == Init => Inv
<1>1. Init => assert = FALSE
  BY Zenon DEF Init
<1>. QED BY <1>1, SortedInit, RestInit, NdiInit, Zenon DEF Inv

LEMMA InvStep == Inv /\ [Next]_vars => Inv'
BY SortedStep, RestStep, NdiStep, Zenon DEF Inv

\* The three lists partition the processes, only the process of a Msg4 under way
\* being on two of them, and a process is waited for exactly while it is on
\* dl feedback; through handle_dl_harq, Msg4 and reset_dl_harq_list alike.
THEOREM ListsPartition == Spec => []ListsAgree
<1>1. Inv => ListsAgree
  <2>. SUFFICES ASSUME Inv PROVE ListsAgree
    OBVIOUS
  <2>0. Sorted /\ ProcTypes /\ Apart /\ Marked /\ RestTypes /\ NdiTypes
    BY Zenon DEF Inv, Sorted
  <2>1. round \in [Pids -> Nat] /\ bit \in Nat
    BY <2>0, Constants DEF ProcTypes, RestTypes
  <2>2. assert \in BOOLEAN
    BY Zenon DEF Inv
  <2>3. TypeOK
    BY <2>0, <2>1, <2>2, Zenon DEF TypeOK, ProcTypes, RestTypes, NdiTypes
  <2>4. NoneLost /\ OneList
    BY <2>0, Zenon DEF Apart, NoneLost, OneList
  <2>5. WaitingIffFeedback
    BY <2>0, Zenon DEF Marked, WaitingIffFeedback
  <2>. QED BY <2>3, <2>4, <2>5, Zenon DEF ListsAgree
<1>. QED BY <1>1, InvInit, InvStep, PTL DEF Spec

\* None of the assertions on HARQ processes fires, whatever is lost and however
\* often the UE makes a random access.
THEOREM AssertionsHold == Spec => []NoAssert
<1>1. Inv => NoAssert
  BY Zenon DEF Inv, NoAssert
<1>. QED BY <1>1, InvInit, InvStep, PTL DEF Spec

\* A transmission carries the NDI the UE has seen last exactly if it is a
\* retransmission or the first one of a process that reset_dl_harq_list cut off.
THEOREM NdiTellsNewData == Spec => NdiTells
<1>. DEFINE Tells == \A p \in Pids : is_waiting'[p] /\ ~is_waiting[p] =>
                       (sent[p] = ndi[p] <=> round[p] > 0 \/ p \in cut)
<1>1. Inv /\ [Next]_vars => [Tells]_vars
  <2>1. Inv => Tells
    BY Zenon DEF Inv, NdiInv
  <2>. QED BY <2>1, Zenon
<1>. QED BY <1>1, InvInit, InvStep, PTL DEF Spec, NdiTells

\* A HARQ bit names no process: handle_dl_harq applies it to the head of the
\* feedback list. As long as no indication is lost and no random access resets the
\* lists, the head is the process that the UE sent the bit for.
THEOREM VerdictIsRight == Spec => []VerdictMatches
<1>. DEFINE All == Inv /\ PucchInv /\ OrderInv
<1>1. Init => All
  BY InvInit, OrderInit, Zenon
<1>2. All /\ [Next]_vars => All'
  <2>. SUFFICES ASSUME All, [Next]_vars PROVE All'
    OBVIOUS
  <2>1. Sorted /\ RestTypes
    BY Zenon DEF Inv
  <2>. QED BY <2>1, InvStep, PucchStep, OrderStep, Zenon
<1>3. All => VerdictMatches
  BY Zenon DEF OrderInv, VerdictMatches
<1>. HIDE DEF All
<1>. QED BY <1>1, <1>2, <1>3, PTL DEF Spec
=============================================================================
