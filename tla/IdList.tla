------------------------------- MODULE IdList -------------------------------
(***************************************************************************)
(* What an NR_list_t promises its callers: a sequence of distinct ids      *)
(* below a capacity that only grows.  The calls are those the callers make *)
(* (an id is added when it is not in the list; add_tail_nr_list also when  *)
(* it is the last one, which a Msg4 sent again does), and the calls whose  *)
(* assertion ends the program leave fatal set.                             *)
(***************************************************************************)
EXTENDS Integers, Sequences

CONSTANTS MaxLen     \* the largest capacity a list is resized to

VARIABLES list, cap, fatal,
          call        \* the last call and its argument

vars == <<list, cap, fatal, call>>

Ids == 0..(cap - 1)
Held == {list[k] : k \in 1..Len(list)}
Without(s, id) ==
  LET p == CHOOSE k \in 1..Len(s) : s[k] = id
  IN  IF \E k \in 1..Len(s) : s[k] = id
      THEN [k \in 1..(Len(s) - 1) |-> IF k < p THEN s[k] ELSE s[k + 1]]
      ELSE s

Init == list = <<>> /\ cap \in 1..MaxLen /\ fatal = FALSE /\ call = <<"create", cap>>

\* add_nr_list asserts that the id is new.
Add(id) ==
  /\ list' = IF id \in Held THEN list ELSE Append(list, id)
  /\ fatal' = (id \in Held) /\ UNCHANGED cap

AddTail(id) ==
  /\ id \in Held => id = list[Len(list)]
  /\ list' = IF id \in Held THEN list ELSE Append(list, id)
  /\ UNCHANGED <<cap, fatal>>

AddFront(id) ==
  /\ id \notin Held /\ list' = <<id>> \o list /\ UNCHANGED <<cap, fatal>>

\* remove_nr_list asserts that the id is there, remove_front_nr_list that one is.
Remove(id) ==
  /\ list' = Without(list, id) /\ fatal' = (id \notin Held) /\ UNCHANGED cap
RemoveFront ==
  /\ list' = IF list = <<>> THEN list ELSE Tail(list)
  /\ fatal' = (list = <<>>) /\ UNCHANGED cap

Resize(n) == n > cap /\ cap' = n /\ UNCHANGED <<list, fatal>>

Next ==
  /\ ~fatal
  /\ \/ \E id \in Ids : \/ Add(id) /\ call' = <<"add", id>>
                        \/ AddTail(id) /\ call' = <<"add_tail", id>>
                        \/ AddFront(id) /\ call' = <<"add_front", id>>
                        \/ Remove(id) /\ call' = <<"remove", id>>
     \/ RemoveFront /\ call' = <<"remove_front", 0>>
     \/ \E n \in 1..MaxLen : Resize(n) /\ call' = <<"resize", n>>

Spec == Init /\ [][Next]_vars
=============================================================================
