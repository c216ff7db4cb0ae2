---------------------------- MODULE ElementList -----------------------------
(***************************************************************************)
(* What the list of an aggregate setting promises: it is a sequence, which *)
(* grows at its end and loses any one element at a time.                   *)
(***************************************************************************)
EXTENDS Integers, Sequences

CONSTANT Items  \* the elements: pointers to settings

VARIABLE list

Init == list = <<>>

Add(e) == list' = Append(list, e)

(* The element with the index idx, counted from 0, goes.                   *)
ListRemove(idx) ==
  list' = [i \in 1 .. Len(list) - 1 |-> IF i <= idx THEN list[i] ELSE list[i + 1]]

Next == \/ \E e \in Items : Add(e)
        \/ \E idx \in 0 .. Len(list) - 1 : ListRemove(idx)

Spec == Init /\ [][Next]_list
=============================================================================
