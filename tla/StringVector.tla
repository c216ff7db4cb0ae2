---------------------------- MODULE StringVector -----------------------------
(***************************************************************************)
(* lib/strvec.c: the vector of the file names that a read collects, the    *)
(* null pointer that ends it when it is released to the config_t, and its  *)
(* deletion.  An array of file names has one slot more than its capacity.  *)
(***************************************************************************)
EXTENDS Memory

CONSTANTS
  FileNames,     \* the strings, by their addresses
  NULL,          \* the null pointer
  VecChunkSize,  \* CHUNK_SIZE of strvec.c
  MaxFileNames   \* bound on the length of the vector

ASSUME VectorAssumption ==
  /\ NULL \notin FileNames /\ Garbage \notin FileNames \cup {NULL}
  /\ VecChunkSize \in Nat \ {0}
  /\ MaxFileNames \in Nat

VARIABLES
  strings,      \* vec->strings
  vecEnd,       \* vec->end, as an index
  vecLength,    \* vec->length
  vecCapacity,  \* vec->capacity
  collected,    \* what was appended since the vector was released
  released      \* the vector that was released: its array and what it is to hold

vecVars == <<strings, vecEnd, vecLength, vecCapacity, collected, released>>

Nowhere == [array |-> NoArray, names |-> <<>>]

VecInit ==
  /\ strings = NoArray /\ vecEnd = 0 /\ vecLength = 0 /\ vecCapacity = 0
  /\ collected = <<>> /\ released = Nowhere

\* Mutant: the slot for the null pointer is forgotten.
SlotsWithoutEnd(capacity) == capacity
(* The slots allocated for a capacity.                                     *)
Slots(capacity) == capacity + 1

AppendName(s) ==
  LET full == vecLength = vecCapacity
      array == IF full THEN Reallocated(strings, Slots(vecCapacity + VecChunkSize)) ELSE strings
      end == IF full THEN vecLength ELSE vecEnd
  IN /\ vecLength < MaxFileNames
     /\ vecCapacity' = IF full THEN vecCapacity + VecChunkSize ELSE vecCapacity
     /\ strings' = Written(array, end, <<s>>)
     /\ vecEnd' = end + 1 /\ vecLength' = vecLength + 1
     /\ collected' = Append(collected, s)
     /\ UNCHANGED released

(* libconfig_strvec_release(), by a read that cleared the config_t first.  *)
ReleaseNames ==
  /\ released = Nowhere
  /\ released' = [array |-> Written(strings, vecEnd, <<NULL>>), names |-> collected]
  /\ strings' = NoArray /\ vecEnd' = 0 /\ vecLength' = 0 /\ vecCapacity' = 0
  /\ collected' = <<>>

(* The strings libconfig_strvec_delete() frees: up to the null pointer.     *)
Deleted(array) ==
  LET end == CHOOSE i \in DOMAIN array : array[i] = NULL /\ \A j \in 0 .. i - 1 : array[j] # NULL
  IN [i \in 1 .. end |-> array[i - 1]]

DeleteNames ==
  /\ released' = Nowhere
  /\ UNCHANGED <<strings, vecEnd, vecLength, vecCapacity, collected>>

VecNext == (\E s \in FileNames : AppendName(s)) \/ ReleaseNames \/ DeleteNames

VecSpec == VecInit /\ [][VecNext]_vecVars

-----------------------------------------------------------------------------
(* A vector that is released ends with a null pointer, inside its array,   *)
(* behind the strings that were appended and no others: deleting it frees  *)
(* each of them once and stops.                                            *)
EndsWithNull ==
  released.array # NoArray =>
    /\ Len(released.names) \in DOMAIN released.array
    /\ released.array[Len(released.names)] = NULL
    /\ Deleted(released.array) = released.names
=============================================================================
