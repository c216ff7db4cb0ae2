------------------------------- MODULE Memory -------------------------------
(***************************************************************************)
(* Memory that the C library reallocates: an array is a function on the    *)
(* indices from 0, and one of size 0 stands for the null pointer.          *)
(***************************************************************************)
EXTENDS Integers, Sequences

CONSTANT Garbage  \* what a slot holds that was never written

NoArray == [i \in 0 .. -1 |-> Garbage]

(* libconfig_realloc(): what fits is kept.                                 *)
Reallocated(array, size) ==
  [i \in 0 .. size - 1 |-> IF i \in DOMAIN array THEN array[i] ELSE Garbage]

(* The items written from the index at; those outside the array are lost.  *)
Written(array, at, items) ==
  [i \in DOMAIN array |-> IF at <= i /\ i < at + Len(items) THEN items[i - at + 1] ELSE array[i]]
=============================================================================
