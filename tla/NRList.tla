------------------------------- MODULE NRList -------------------------------
(***************************************************************************)
(* NR_list_t, the singly linked list of ids in one array that holds HARQ   *)
(* processes: head, tail and next[].  It implements IdList.                *)
(***************************************************************************)
EXTENDS Integers, Sequences, FiniteSets

CONSTANTS MaxLen     \* the largest capacity a list is resized to

ASSUME ListAssumption == MaxLen \in Nat \ {0}

VARIABLES head, tail, next, len,
          fatal,      \* an AssertFatal has ended the program
          call        \* the last call and its argument

vars == <<head, tail, next, len, fatal, call>>

None == -1
Ids == 0..(len - 1)

\* The ids met on the walk from head; a cycle would show as more than len ids.
WalkFrom(h, nx, n) ==
  LET id[k \in 1..(n + 1)] ==
        IF k = 1 THEN h ELSE IF id[k - 1] = None THEN None ELSE nx[id[k - 1]]
  IN  [k \in 1..Cardinality({m \in 1..(n + 1) : id[m] # None}) |-> id[k]]

Walked == WalkFrom(head, next, len)

Met(id) == \E k \in 1..Len(Walked) : Walked[k] = id

\* The id before id on the walk, None for the first.
Before(id) ==
  LET k == CHOOSE m \in 1..Len(Walked) : Walked[m] = id
  IN  IF k = 1 THEN None ELSE Walked[k - 1]

\* create_nr_list
Init ==
  /\ len \in 1..MaxLen
  /\ head = None /\ tail = None /\ next = [id \in 0..(len - 1) |-> None]
  /\ fatal = FALSE /\ call = <<"create", len>>

\* add_nr_list: *cur, the link at the end of the walk, becomes id.
Add(id) ==
  IF Met(id) THEN fatal' = TRUE /\ UNCHANGED <<head, tail, next, len>>
  ELSE /\ IF head = None
          THEN head' = id /\ UNCHANGED next
          ELSE next' = [next EXCEPT ![Walked[Len(Walked)]] = id] /\ UNCHANGED head
       /\ tail' = IF next'[id] < 0 THEN id ELSE tail
       /\ UNCHANGED <<len, fatal>>

\* Faulty variant: the id at the front is removed, whichever was asked for.
RemoveFirstId(id) ==
  IF ~Met(id) THEN fatal' = TRUE /\ UNCHANGED <<head, tail, next, len>>
  ELSE /\ head' = next[head] /\ next' = [next EXCEPT ![head] = None]
       /\ tail' = IF head' < 0 THEN None ELSE tail
       /\ UNCHANGED <<len, fatal>>

\* remove_nr_list; prev ends one link behind the one that is changed, so that
\* *prev is the new head, or the id before the removed one.
Remove(id) ==
  IF ~Met(id) THEN fatal' = TRUE /\ UNCHANGED <<head, tail, next, len>>
  ELSE LET before == Before(id) IN
       /\ IF before = None
          THEN head' = next[id] /\ next' = [next EXCEPT ![id] = None]
          ELSE head' = head /\ next' = [next EXCEPT ![before] = next[id], ![id] = None]
       /\ LET prev == IF before = None THEN head' ELSE before
          IN  tail' = IF prev >= 0 /\ next'[prev] >= 0 THEN tail ELSE prev
       /\ UNCHANGED <<len, fatal>>

\* add_tail_nr_list; the callers add an id that is new, or the tail itself.
AddTail(id) ==
  /\ Met(id) => id = Walked[Len(Walked)]
  /\ IF tail < 0
     THEN head' = id /\ next' = [next EXCEPT ![id] = None]
     ELSE head' = head /\ next' = [next EXCEPT ![tail] = id, ![id] = None]
  /\ tail' = id
  /\ UNCHANGED <<len, fatal>>

AddFront(id) ==
  /\ ~Met(id)
  /\ head' = id /\ next' = [next EXCEPT ![id] = head]
  /\ tail' = IF tail < 0 THEN id ELSE tail
  /\ UNCHANGED <<len, fatal>>

\* Faulty variant: an emptied list keeps its tail.
RemoveFrontKeepsTail ==
  IF head < 0 THEN fatal' = TRUE /\ UNCHANGED <<head, tail, next, len>>
  ELSE /\ head' = next[head] /\ next' = [next EXCEPT ![head] = None]
       /\ UNCHANGED <<tail, len, fatal>>

RemoveFront ==
  IF head < 0 THEN fatal' = TRUE /\ UNCHANGED <<head, tail, next, len>>
  ELSE /\ head' = next[head] /\ next' = [next EXCEPT ![head] = None]
       /\ tail' = IF head' < 0 THEN None ELSE tail
       /\ UNCHANGED <<len, fatal>>

\* resize_nr_list to a larger length.
Resize(n) ==
  /\ n > len /\ len' = n
  /\ next' = [id \in 0..(n - 1) |-> IF id < len THEN next[id] ELSE None]
  /\ UNCHANGED <<head, tail, fatal>>

Next ==
  /\ ~fatal
  /\ \/ \E id \in Ids : \/ Add(id) /\ call' = <<"add", id>>
                        \/ AddTail(id) /\ call' = <<"add_tail", id>>
                        \/ AddFront(id) /\ call' = <<"add_front", id>>
                        \/ Remove(id) /\ call' = <<"remove", id>>
     \/ RemoveFront /\ call' = <<"remove_front", 0>>
     \/ \E n \in 1..MaxLen : Resize(n) /\ call' = <<"resize", n>>

Spec == Init /\ [][Next]_vars

\* The links stay within the array, whatever was added and removed.
TypeOK ==
  /\ len \in 1..MaxLen /\ head \in Ids \cup {None} /\ tail \in Ids \cup {None}
  /\ next \in [Ids -> Ids \cup {None}] /\ fatal \in BOOLEAN /\ call[2] \in 0..MaxLen

\* tail is where the walk from head ends and every id off the list has no link,
\* which add_nr_list and add_tail_nr_list rely on.
TailAndLinks ==
  /\ TypeOK
  /\ tail = IF head = None THEN None ELSE Walked[Len(Walked)]
  /\ \A id \in Ids : ~Met(id) => next[id] = None

\* The linked list is the sequence of the ids on its walk.
Sequence == INSTANCE IdList WITH list <- Walked, cap <- len

\* Every call changes that sequence as IdList promises.
ListImplementsSequence == Sequence!Spec
=============================================================================
