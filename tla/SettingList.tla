---------------------------- MODULE SettingList -----------------------------
(***************************************************************************)
(* The storage of a list of settings (config_list_t): an array that is     *)
(* reallocated by chunks when an element is added and never when one is    *)
(* removed.  The program keeps no capacity: it reallocates whenever the    *)
(* length is a multiple of CHUNK_SIZE, which after removals may make the   *)
(* array smaller.                                                          *)
(***************************************************************************)
EXTENDS Memory

CONSTANTS
  Items,      \* the elements: pointers to settings
  ChunkSize,  \* CHUNK_SIZE
  MaxLength   \* bound on the length of the list

ASSUME ListAssumption ==
  /\ Garbage \notin Items
  /\ ChunkSize \in Nat \ {0}
  /\ MaxLength \in Nat

VARIABLES
  size,    \* the slots allocated
  slots,   \* list->elements
  length   \* list->length

vars == <<size, slots, length>>

Init == size = 0 /\ slots = NoArray /\ length = 0

(* libconfig_realloc(): what fits is kept.                                 *)
Resized(n) == [i \in 0 .. n - 1 |-> IF i < size THEN slots[i] ELSE Garbage]

(* As if the array grew one element too late.                              *)
AddLate(e) ==
  /\ length < MaxLength
  /\ LET n == IF length % (ChunkSize + 1) = 0 THEN length + ChunkSize ELSE size
     IN size' = n /\ slots' = [Resized(n) EXCEPT ![length] = e]
  /\ length' = length + 1

(* __config_list_add(): a write outside the array is lost.                 *)
Add(e) ==
  /\ length < MaxLength
  /\ LET n == IF length % ChunkSize = 0 THEN length + ChunkSize ELSE size
     IN size' = n /\ slots' = [Resized(n) EXCEPT ![length] = e]
  /\ length' = length + 1

(* As if one element too few were moved.                                   *)
RemoveShort(idx) ==
  /\ slots' = [i \in 0 .. size - 1 |->
                 IF idx <= i /\ i < length - 2 THEN slots[i + 1] ELSE slots[i]]
  /\ length' = length - 1
  /\ UNCHANGED size

(* __config_list_remove(): the elements behind idx move up.                *)
ListRemove(idx) ==
  /\ slots' = [i \in 0 .. size - 1 |->
                 IF idx <= i /\ i < length - 1 THEN slots[i + 1] ELSE slots[i]]
  /\ length' = length - 1
  /\ UNCHANGED size

Next == \/ \E e \in Items : Add(e)
        \/ \E idx \in 0 .. length - 1 : ListRemove(idx)

Spec == Init /\ [][Next]_vars

-----------------------------------------------------------------------------
TypeOK == /\ size \in Nat
          /\ slots \in [0 .. size - 1 -> Items \cup {Garbage}]
          /\ length \in Nat

(* However the list grows and shrinks, its elements are inside the array,  *)
(* although the array is never compared with the length.                   *)
InBounds == length <= size

(* The list is a sequence of settings: no slot without an element is ever  *)
(* part of it, nothing is lost when the array is reallocated or shifted.   *)
Elements == [i \in 1 .. length |-> slots[i - 1]]

Abstract == INSTANCE ElementList WITH list <- Elements

ImplementsSequence == Abstract!Spec
=============================================================================
