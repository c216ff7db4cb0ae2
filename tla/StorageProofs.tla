---------------------------- MODULE StorageProofs ----------------------------
(***************************************************************************)
(* Proofs about what texts, lists and files are kept in.                   *)
(*                                                                         *)
(* SettingList, StringBuffer and StringVector, for every size of blocks and*)
(* chunks and every order of calls: a list is inside its array and         *)
(* implements a sequence, a string ends inside its buffer, and a vector    *)
(* that is released ends with the null pointer behind its strings.         *)
(*                                                                         *)
(* Locale and WriteFile, for any number of threads, objects, pieces and    *)
(* saves and every size of the buffer: the locale is overridden in the     *)
(* thread of a call and nowhere else, and a save leaves what it reports.   *)
(***************************************************************************)
EXTENDS SettingList, StringBuffer, StringVector, WriteFile, SequenceTheorems, TLAPS

-----------------------------------------------------------------------------
(* The list of elements.                                                   *)

(* The array consists of whole chunks: at a length that is no multiple of  *)
(* the chunk size there is room, because the length is not the size.       *)
WholeChunks == size % ChunkSize = 0
NoGarbage == \A i \in 0 .. length - 1 : slots[i] \in Items

IInv == TypeOK /\ InBounds /\ WholeChunks /\ NoGarbage

-----------------------------------------------------------------------------
(* Whole numbers of chunks.                                                *)

LEMMA SmallMultiple ==
  ASSUME NEW c \in Nat \ {0}, NEW m \in Int, 0 <= c * m, c * m < c
  PROVE m = 0
<1>1. CASE m >= 1
  <2>1. c * m >= c * 1 BY <1>1, SMT
  <2> QED BY <2>1, SMT
<1>2. CASE m <= -1
  <2>1. c * m <= c * (-1) BY <1>2, SMT
  <2> QED BY <2>1, SMT
<1> QED BY <1>1, <1>2

LEMMA Division ==
  ASSUME NEW c \in Nat \ {0}, NEW n \in Nat
  PROVE /\ n \div c \in Int /\ n % c \in Int
        /\ n = c * (n \div c) + (n % c)
        /\ 0 <= n % c /\ n % c < c
  BY SMT

LEMMA NextChunk ==
  ASSUME NEW n \in Nat, NEW c \in Nat \ {0}, n % c = 0
  PROVE (n + c) % c = 0
<1> DEFINE q == n \div c
           r == (n + c) \div c
           z == (n + c) % c
<1>1. q \in Int /\ n = c * q BY Division
<1>2. r \in Int /\ z \in Int /\ n + c = c * r + z /\ 0 <= z /\ z < c BY Division
<1> HIDE DEF q, r, z
<1>3. z = c * (q + 1 - r)
  <2>1. c * (q + 1 - r) = c * q + c - c * r BY <1>1, <1>2, SMT
  <2> QED BY <2>1, <1>1, <1>2, SMT
<1>4. q + 1 - r = 0 BY <1>1, <1>2, <1>3, SmallMultiple
<1>5. z = 0 BY <1>3, <1>4, <1>1, <1>2, SMT
<1> QED BY <1>5 DEF z

-----------------------------------------------------------------------------
(* The invariant.                                                          *)

LEMMA InitEstablishes == Init => IInv
<1> SUFFICES ASSUME Init PROVE IInv OBVIOUS
<1>1. 0 % ChunkSize = 0
  <2>1. 0 = ChunkSize * (0 \div ChunkSize) + (0 % ChunkSize) /\ 0 \div ChunkSize \in Int
        /\ 0 % ChunkSize \in Int /\ 0 <= 0 % ChunkSize /\ 0 % ChunkSize < ChunkSize
    BY Division, ListAssumption
  <2>2. 0 \div ChunkSize <= 0
    <3>1. CASE 0 \div ChunkSize >= 1
      <4>1. ChunkSize * (0 \div ChunkSize) >= ChunkSize * 1
        BY <3>1, <2>1, ListAssumption, SMT
      <4> QED BY <4>1, <2>1, ListAssumption
    <3> QED BY <3>1, <2>1
  <2>3. 0 <= ChunkSize * (-(0 \div ChunkSize)) /\ ChunkSize * (-(0 \div ChunkSize)) < ChunkSize
    <3>1. ChunkSize * (-(0 \div ChunkSize)) = -(ChunkSize * (0 \div ChunkSize))
      BY <2>1, ListAssumption, SMT
    <3> QED BY <3>1, <2>1, ListAssumption
  <2>4. -(0 \div ChunkSize) = 0 BY <2>1, <2>3, SmallMultiple, ListAssumption
  <2> QED BY <2>1, <2>4, ListAssumption
<1> QED BY <1>1 DEF Init, NoArray, IInv, TypeOK, InBounds, WholeChunks, NoGarbage

(* After the reallocation there is a slot for the new element, and the     *)
(* array is made of whole chunks again.                                    *)
LEMMA RoomForOne ==
  ASSUME IInv, NEW n, n = IF length % ChunkSize = 0 THEN length + ChunkSize ELSE size
  PROVE n \in Nat /\ length < n /\ n % ChunkSize = 0
<1>1. CASE length % ChunkSize = 0
  BY <1>1, NextChunk, ListAssumption DEF IInv, TypeOK
<1>2. CASE length % ChunkSize # 0
  BY <1>2 DEF IInv, TypeOK, InBounds, WholeChunks
<1> QED BY <1>1, <1>2

(* What Add leaves in the array.                                           *)
LEMMA AddWrites ==
  ASSUME IInv, NEW e \in Items, Add(e)
  PROVE /\ length' = length + 1
        /\ size' \in Nat /\ length' <= size' /\ size' % ChunkSize = 0
        /\ slots' \in [0 .. size' - 1 -> Items \cup {Garbage}]
        /\ slots'[length] = e
        /\ \A i \in 0 .. length - 1 : slots'[i] = slots[i]
<1> DEFINE n == IF length % ChunkSize = 0 THEN length + ChunkSize ELSE size
<1>1. n \in Nat /\ length < n /\ n % ChunkSize = 0 BY RoomForOne
<1>2. size' = n /\ slots' = [Resized(n) EXCEPT ![length] = e] /\ length' = length + 1
  BY DEF Add
<1> HIDE DEF n
<1>3. Resized(n) \in [0 .. n - 1 -> Items \cup {Garbage}]
  BY <1>1 DEF Resized, IInv, TypeOK
<1>4. \A i \in 0 .. length - 1 : Resized(n)[i] = slots[i]
  BY <1>1 DEF Resized, IInv, TypeOK, InBounds
<1> QED BY <1>1, <1>2, <1>3, <1>4 DEF IInv, TypeOK

LEMMA NextKeeps == IInv /\ [Next]_vars => IInv'
<1> SUFFICES ASSUME IInv, [Next]_vars PROVE IInv' OBVIOUS
<1>1. ASSUME NEW e \in Items, Add(e) PROVE IInv'
  BY <1>1, AddWrites DEF IInv, TypeOK, InBounds, WholeChunks, NoGarbage
<1>2. ASSUME NEW idx \in 0 .. length - 1, ListRemove(idx) PROVE IInv'
  BY <1>2 DEF ListRemove, IInv, TypeOK, InBounds, WholeChunks, NoGarbage
<1>3. CASE UNCHANGED vars
  BY <1>3 DEF vars, IInv, TypeOK, InBounds, WholeChunks, NoGarbage
<1> QED BY <1>1, <1>2, <1>3 DEF Next

LEMMA Invariance == Spec => []IInv
  BY InitEstablishes, NextKeeps, PTL DEF Spec

(* No element is ever written or read outside the array, although the code *)
(* keeps no capacity to compare the length with (__config_list_add).       *)
THEOREM ListStaysInBounds == Spec => []InBounds
<1>1. IInv => InBounds BY DEF IInv
<1> QED BY <1>1, Invariance, PTL

-----------------------------------------------------------------------------
(* The list implements a sequence.                                         *)

LEMMA ElementsIsSequence ==
  ASSUME IInv
  PROVE Elements \in Seq(Items) /\ Len(Elements) = length
  BY DEF IInv, TypeOK, NoGarbage, Elements

LEMMA AddAppends ==
  ASSUME IInv, NEW e \in Items, Add(e)
  PROVE Abstract!Add(e)
<1>1. Elements' = [i \in 1 .. length + 1 |-> slots'[i - 1]]
  BY AddWrites DEF Elements
<1>2. \A i \in 1 .. length : slots'[i - 1] = Elements[i]
  BY AddWrites DEF Elements, IInv, TypeOK
<1>3. slots'[(length + 1) - 1] = e
  BY AddWrites DEF IInv, TypeOK
<1>4. /\ Append(Elements, e) \in Seq(Items)
      /\ Len(Append(Elements, e)) = length + 1
      /\ \A i \in 1 .. length : Append(Elements, e)[i] = Elements[i]
      /\ Append(Elements, e)[length + 1] = e
  <2> HIDE DEF Elements
  <2> QED BY ElementsIsSequence, AppendProperties
<1>5. \A i \in 1 .. length + 1 : slots'[i - 1] = Append(Elements, e)[i]
  BY <1>2, <1>3, <1>4 DEF IInv, TypeOK
<1>6. Append(Elements, e) = [i \in 1 .. length + 1 |-> Append(Elements, e)[i]]
  <2> DEFINE s == Append(Elements, e)
  <2>1. s \in [1 .. Len(s) -> Items] BY <1>4, LenProperties
  <2>2. s \in [1 .. length + 1 -> Items] BY <2>1, <1>4
  <2> HIDE DEF s
  <2>3. s = [i \in 1 .. length + 1 |-> s[i]] BY <2>2
  <2> QED BY <2>3 DEF s
<1> QED BY <1>1, <1>5, <1>6 DEF Abstract!Add

LEMMA RemoveRemoves ==
  ASSUME IInv, NEW idx \in 0 .. length - 1, ListRemove(idx)
  PROVE Abstract!ListRemove(idx)
<1>1. Elements' = [i \in 1 .. length - 1 |-> slots'[i - 1]]
  BY DEF ListRemove, Elements
<1>2. \A i \in 1 .. length - 1 :
        slots'[i - 1] = IF i <= idx THEN Elements[i] ELSE Elements[i + 1]
  BY DEF ListRemove, Elements, IInv, TypeOK, InBounds
<1> QED BY <1>1, <1>2, ElementsIsSequence DEF Abstract!ListRemove

(* Whatever is added and removed, the array with its length behaves like   *)
(* the sequence of settings that the rest of the library takes it for.     *)
THEOREM ListIsSequence == Spec => ImplementsSequence
<1>1. Init => Abstract!Init
  BY DEF Init, Abstract!Init, Elements
<1>2. IInv /\ [Next]_vars => [Abstract!Next]_Elements
  <2> SUFFICES ASSUME IInv, [Next]_vars PROVE [Abstract!Next]_Elements OBVIOUS
  <2>1. ASSUME NEW e \in Items, Add(e) PROVE Abstract!Next
    BY <2>1, AddAppends DEF Abstract!Next
  <2>2. ASSUME NEW idx \in 0 .. length - 1, ListRemove(idx) PROVE Abstract!Next
    BY <2>2, RemoveRemoves, ElementsIsSequence DEF Abstract!Next
  <2>3. CASE UNCHANGED vars
    BY <2>3 DEF vars, Elements
  <2> QED BY <2>1, <2>2, <2>3 DEF Next
<1> QED BY <1>1, <1>2, Invariance, PTL DEF Spec, ImplementsSequence, Abstract!Spec

-----------------------------------------------------------------------------
(* Blocks.                                                                 *)

LEMMA InRange ==
  ASSUME NEW i \in Nat, NEW n \in Nat, i < n
  PROVE i \in 0 .. n - 1
  OBVIOUS

(* Blocks cover what they are asked to cover.                              *)
LEMMA BlocksCover ==
  ASSUME NEW n \in Nat
  PROVE InBlocks(n) \in Nat /\ n <= InBlocks(n)
<1> DEFINE m == n + BlockSize - 1
           q == m \div BlockSize
           r == m % BlockSize
<1>1. BlockSize \in Nat \ {0} /\ m \in Nat BY BufferAssumption
<1>2. q \in Int /\ r \in Int /\ m = BlockSize * q + r /\ r < BlockSize
  BY <1>1, Division
<1>3. InBlocks(n) = BlockSize * q
  <2>1. InBlocks(n) = q * BlockSize BY DEF InBlocks
  <2> QED BY <2>1, <1>1, <1>2, SMT
<1>4. BlockSize * q \in Int BY <1>1, <1>2, SMT
<1> HIDE DEF q, r
<1> QED BY <1>1, <1>2, <1>3, <1>4, SMT

-----------------------------------------------------------------------------
(* The string buffer.                                                      *)

BufInv == BufTypeOK /\ HoldsTheText

LEMMA BufInitEstablishes == BufInit => BufInv
  BY DEF BufInit, BufInv, BufTypeOK, HoldsTheText, NoArray

LEMMA PutPreserves ==
  ASSUME BufInv, NEW chars \in Seq(Chars), Put(chars, Len(chars))
  PROVE BufInv'
<1> DEFINE len == Len(chars)
<1>1. /\ bufLength \in Nat /\ bufCapacity \in Nat /\ len \in Nat
      /\ text \in Seq(Chars) /\ bufLength = Len(text)
      /\ string \in [0 .. bufCapacity - 1 -> Chars \cup {Garbage}]
  BY DEF BufInv, BufTypeOK, HoldsTheText
<1>2. NUL \in Chars BY BufferAssumption
<1>3. bufCapacity' \in Nat /\ bufLength + len < bufCapacity'
  <2>1. Needed(len) \in Nat /\ Needed(len) = bufLength + len + 1 BY <1>1 DEF Needed
  <2>2. InBlocks(Needed(len)) \in Nat /\ Needed(len) <= InBlocks(Needed(len))
    BY <2>1, BlocksCover
  <2> QED BY <2>1, <2>2, <1>1 DEF Put
<1>4. bufLength' = bufLength + len /\ text' = text \o chars
  BY DEF Put
<1>5. /\ text' \in Seq(Chars) /\ Len(text') = bufLength + len
      /\ \A i \in 1 .. bufLength + len :
           text'[i] = IF i <= bufLength THEN text[i] ELSE chars[i - bufLength]
  BY <1>1, <1>4
<1> DEFINE items == Append(chars, NUL)
           memory == Reallocated(string, bufCapacity')
<1>6. items \in Seq(Chars) /\ Len(items) = len + 1 /\ items[len + 1] = NUL
      /\ \A i \in 1 .. len : items[i] = chars[i]
  BY <1>1, <1>2
<1>7. /\ memory \in [0 .. bufCapacity' - 1 -> Chars \cup {Garbage}]
      /\ \A i \in 0 .. bufCapacity' - 1 : i < bufCapacity => memory[i] = string[i]
  <2>1. DOMAIN string = 0 .. bufCapacity - 1 BY <1>1
  <2>2. memory = [i \in 0 .. bufCapacity' - 1 |->
                    IF i \in 0 .. bufCapacity - 1 THEN string[i] ELSE Garbage]
    BY <2>1 DEF Reallocated
  <2>3. \A i \in 0 .. bufCapacity - 1 : string[i] \in Chars \cup {Garbage} BY <1>1
  <2> HIDE DEF memory
  <2>4. \A i \in 0 .. bufCapacity' - 1 : i < bufCapacity => i \in 0 .. bufCapacity - 1
    BY <1>1, <1>3
  <2>5. \A i \in 0 .. bufCapacity' - 1 : memory[i] \in Chars \cup {Garbage} BY <2>2, <2>3
  <2> QED BY <2>2, <2>4, <2>5, <1>1, <1>3
<1>8. string' = [i \in 0 .. bufCapacity' - 1 |->
                   IF bufLength <= i /\ i < bufLength + (len + 1)
                   THEN items[i - bufLength + 1] ELSE memory[i]]
  <2>1. string' = Written(memory, bufLength, items) BY DEF Put
  <2>2. DOMAIN memory = 0 .. bufCapacity' - 1 BY <1>7
  <2> QED BY <2>1, <2>2, <1>6 DEF Written
<1> HIDE DEF items, memory, len
<1>9. string' \in [0 .. bufCapacity' - 1 -> Chars \cup {Garbage}]
  <2>1. ASSUME NEW i \in 0 .. bufCapacity' - 1, bufLength <= i, i < bufLength + (len + 1)
        PROVE items[i - bufLength + 1] \in Chars
    <3>1. i - bufLength + 1 \in 1 .. Len(items) BY <2>1, <1>1, <1>3, <1>6
    <3> QED BY <3>1, <1>6
  <2> QED BY <2>1, <1>7, <1>8
<1>10. string'[bufLength'] = NUL
  BY <1>1, <1>3, <1>4, <1>6, <1>8
<1>11. ASSUME NEW i \in Nat, i < bufLength + len PROVE string'[i] = text'[i + 1]
  <2>1. i \in 0 .. bufCapacity' - 1 /\ i + 1 \in 1 .. bufLength + len
    <3>1. bufLength \in Nat /\ len \in Nat /\ bufCapacity' \in Nat
          /\ bufLength + len < bufCapacity' /\ i \in Nat /\ i < bufLength + len
      BY <1>1, <1>3, <1>11
    <3>2. i \in 0 .. bufCapacity' - 1
      <4>1. i \in Nat /\ bufCapacity' \in Nat /\ i < bufCapacity' BY <3>1
      <4> QED BY <4>1, InRange
    <3>3. i + 1 \in 1 .. bufLength + len BY <3>1
    <3> QED BY <3>2, <3>3
  <2>2. CASE i < bufLength
    <3>1. bufCapacity # 0 BY <2>2, <1>1 DEF BufInv, HoldsTheText
    <3>2. i < bufCapacity /\ string[i] = text[i + 1]
      BY <3>1, <2>1, <2>2, <1>1 DEF BufInv, HoldsTheText
    <3>3. string'[i] = string[i] BY <2>1, <2>2, <3>2, <1>1, <1>7, <1>8
    <3> QED BY <2>1, <2>2, <3>2, <3>3, <1>1, <1>5
  <2>3. CASE i >= bufLength
    <3>1. string'[i] = items[i - bufLength + 1] BY <2>1, <2>3, <1>1, <1>8
    <3>2. i - bufLength + 1 \in 1 .. len BY <2>1, <2>3, <1>1
    <3>3. items[i - bufLength + 1] = chars[i - bufLength + 1] BY <3>2, <1>6
    <3>4. text'[i + 1] = chars[i + 1 - bufLength] BY <2>1, <2>3, <1>1, <1>5
    <3>5. i + 1 - bufLength = i - bufLength + 1 BY <1>1
    <3> QED BY <3>1, <3>3, <3>4, <3>5
  <2> QED BY <2>1, <2>2, <2>3, <1>1
<1>12. bufLength' \in Nat /\ \A i \in 0 .. bufLength' - 1 : i \in Nat /\ i < bufLength + len
  BY <1>1, <1>4
<1>13. BufTypeOK' BY <1>3, <1>5, <1>9, <1>12 DEF BufTypeOK
<1>14. bufCapacity' # 0 /\ bufLength' < bufCapacity' BY <1>1, <1>3, <1>4
<1>15. HoldsTheText' BY <1>4, <1>5, <1>10, <1>11, <1>12, <1>14 DEF HoldsTheText
<1> QED BY <1>13, <1>15 DEF BufInv

LEMMA BufNextPreserves == BufInv /\ [BufNext]_bufVars => BufInv'
<1> SUFFICES ASSUME BufInv, [BufNext]_bufVars PROVE BufInv' OBVIOUS
<1>1. ASSUME NEW s \in Pieces, AppendString(s) PROVE BufInv'
  <2>1. s \in Seq(Chars) BY BufferAssumption
  <2> QED BY <2>1, <1>1, PutPreserves DEF AppendString
<1>2. ASSUME NEW c \in Chars, AppendChar(c) PROVE BufInv'
  <2>1. <<c>> \in Seq(Chars) /\ Len(<<c>>) = 1 OBVIOUS
  <2> QED BY <2>1, <1>2, PutPreserves DEF AppendChar
<1>3. CASE ReleaseString
  BY <1>3 DEF ReleaseString, BufInv, BufTypeOK, HoldsTheText, NoArray
<1>4. CASE UNCHANGED bufVars
  BY <1>4 DEF bufVars, BufInv, BufTypeOK, HoldsTheText
<1> QED BY <1>1, <1>2, <1>3, <1>4 DEF BufNext

(* A buffer that is allocated holds what was appended and, inside its      *)
(* capacity, the NUL behind it.                                            *)
THEOREM StringsEnd == BufSpec => []HoldsTheText
<1>1. BufInv => HoldsTheText BY DEF BufInv
<1> QED BY <1>1, BufInitEstablishes, BufNextPreserves, PTL DEF BufSpec

-----------------------------------------------------------------------------
(* The vector of file names.                                               *)

(* As long as nothing was appended there is no array and no end.           *)
Collecting ==
  /\ vecLength \in Nat /\ vecCapacity \in Nat
  /\ vecEnd = vecLength /\ vecLength <= vecCapacity
  /\ collected \in Seq(FileNames) /\ Len(collected) = vecLength
  /\ IF vecCapacity = 0 THEN strings = NoArray
     ELSE strings \in [0 .. vecCapacity -> FileNames \cup {Garbage}]
  /\ \A i \in 0 .. vecLength - 1 : strings[i] = collected[i + 1]

(* The array begins with the names and the null pointer.                   *)
Ended(array, names) ==
  /\ names \in Seq(FileNames)
  /\ Len(names) \in DOMAIN array /\ array[Len(names)] = NULL
  /\ \A i \in 0 .. Len(names) - 1 : array[i] = names[i + 1]

VecInv ==
  /\ Collecting
  /\ \E m \in Int : DOMAIN released.array = 0 .. m
  /\ released.array # NoArray => Ended(released.array, released.names)

LEMMA EndIsFound ==
  ASSUME NEW array, NEW names, NEW m \in Int, DOMAIN array = 0 .. m, Ended(array, names)
  PROVE Deleted(array) = names
<1> DEFINE n == Len(names)
           IsEnd(i) == array[i] = NULL /\ \A j \in 0 .. i - 1 : array[j] # NULL
<1>1. names \in Seq(FileNames) /\ n \in Nat /\ n \in 0 .. m BY DEF Ended
<1>2. ASSUME NEW j \in 0 .. n - 1 PROVE array[j] = names[j + 1] /\ array[j] # NULL
  <2>1. j + 1 \in 1 .. n BY <1>1, <1>2
  <2>2. names[j + 1] \in FileNames BY <1>1, <2>1
  <2> QED BY <2>2, VectorAssumption DEF Ended
<1>3. IsEnd(n) BY <1>2 DEF Ended
<1>4. ASSUME NEW i \in 0 .. m, IsEnd(i) PROVE i = n
  <2>1. CASE i < n
    <3>1. i \in 0 .. n - 1 BY <2>1, <1>1
    <3> QED BY <3>1, <1>2, <1>4
  <2>2. CASE n < i
    <3>1. n \in 0 .. i - 1 BY <2>2, <1>1
    <3> QED BY <3>1, <1>3, <1>4
  <2> QED BY <2>1, <2>2, <1>1
<1>5. (CHOOSE i \in DOMAIN array : IsEnd(i)) = n
  <2> HIDE DEF IsEnd
  <2> QED BY <1>1, <1>3, <1>4
<1>6. Deleted(array) = [i \in 1 .. n |-> array[i - 1]]
  <2> DEFINE end == CHOOSE i \in DOMAIN array : IsEnd(i)
  <2>1. Deleted(array) = [i \in 1 .. end |-> array[i - 1]] BY DEF Deleted
  <2> QED BY <2>1, <1>5
<1>7. ASSUME NEW i \in 1 .. n PROVE array[i - 1] = names[i]
  <2>1. i - 1 \in 0 .. n - 1 /\ (i - 1) + 1 = i BY <1>7, <1>1
  <2> QED BY <2>1, <1>2
<1>8. names = [i \in 1 .. n |-> names[i]] BY <1>1
<1> QED BY <1>6, <1>7, <1>8

LEMMA VecInitEstablishes == VecInit => VecInv
  BY DEF VecInit, VecInv, Collecting, NoArray, Nowhere

LEMMA AppendCollects ==
  ASSUME VecInv, NEW s \in FileNames, AppendName(s)
  PROVE VecInv'
<1> DEFINE full == vecLength = vecCapacity
           array == IF full THEN Reallocated(strings, Slots(vecCapacity + VecChunkSize))
                    ELSE strings
<1>1. /\ vecLength \in Nat /\ vecCapacity \in Nat /\ vecLength <= vecCapacity
      /\ vecEnd = vecLength
      /\ collected \in Seq(FileNames) /\ Len(collected) = vecLength
      /\ VecChunkSize \in Nat \ {0}
  BY VectorAssumption DEF VecInv, Collecting
<1>2. /\ vecCapacity' = IF full THEN vecCapacity + VecChunkSize ELSE vecCapacity
      /\ strings' = Written(array, vecLength, <<s>>)
      /\ vecEnd' = vecLength + 1 /\ vecLength' = vecLength + 1
      /\ collected' = Append(collected, s)
      /\ released' = released
  BY <1>1 DEF AppendName
<1>3. vecCapacity' \in Nat /\ vecLength < vecCapacity' BY <1>1, <1>2
<1>4. /\ array \in [0 .. vecCapacity' -> FileNames \cup {Garbage}]
      /\ \A i \in 0 .. vecLength - 1 : array[i] = strings[i]
  <2>1. CASE ~full
    <3>1. vecCapacity # 0 /\ vecCapacity' = vecCapacity BY <2>1, <1>1, <1>2
    <3> QED BY <3>1, <2>1 DEF VecInv, Collecting
  <2>2. CASE full
    <3>1. array = [i \in 0 .. vecCapacity' |->
                     IF i \in DOMAIN strings THEN strings[i] ELSE Garbage]
      <4>1. Slots(vecCapacity + VecChunkSize) - 1 = vecCapacity'
        BY <2>2, <1>1, <1>2 DEF Slots
      <4> QED BY <4>1, <2>2 DEF Reallocated
    <3>2. \A i \in DOMAIN strings : strings[i] \in FileNames \cup {Garbage}
      BY DEF VecInv, Collecting, NoArray
    <3>3. \A i \in 0 .. vecLength - 1 : i \in DOMAIN strings /\ i \in 0 .. vecCapacity'
      <4>1. vecCapacity # 0 => DOMAIN strings = 0 .. vecCapacity BY DEF VecInv, Collecting
      <4> QED BY <4>1, <1>1, <1>3
    <3> HIDE DEF array
    <3> QED BY <3>1, <3>2, <3>3
  <2> QED BY <2>1, <2>2
<1> HIDE DEF array
<1>5. strings' = [i \in 0 .. vecCapacity' |-> IF i = vecLength THEN s ELSE array[i]]
  <2>1. DOMAIN array = 0 .. vecCapacity' BY <1>4
  <2>2. Len(<<s>>) = 1 /\ <<s>>[1] = s OBVIOUS
  <2>3. ASSUME NEW i \in 0 .. vecCapacity'
        PROVE (IF vecLength <= i /\ i < vecLength + Len(<<s>>) THEN <<s>>[i - vecLength + 1]
               ELSE array[i]) = (IF i = vecLength THEN s ELSE array[i])
    BY <2>2, <1>1, <1>3
  <2> QED BY <2>1, <2>3, <1>2 DEF Written
<1>6. strings' \in [0 .. vecCapacity' -> FileNames \cup {Garbage}] BY <1>4, <1>5
<1>7. collected' \in Seq(FileNames) /\ Len(collected') = vecLength + 1 BY <1>1, <1>2
<1>8. ASSUME NEW i \in 0 .. vecLength PROVE strings'[i] = collected'[i + 1]
  <2>1. i \in 0 .. vecCapacity' BY <1>1, <1>3
  <2>2. CASE i = vecLength
    <3>1. strings'[i] = s BY <2>1, <2>2, <1>5
    <3>2. collected'[Len(collected) + 1] = s BY <1>1, <1>2
    <3> QED BY <2>2, <3>1, <3>2, <1>1
  <2>3. CASE i # vecLength
    <3>1. i \in 0 .. vecLength - 1 /\ i + 1 \in 1 .. vecLength BY <2>3, <1>1
    <3>2. strings'[i] = strings[i] BY <3>1, <2>1, <2>3, <1>4, <1>5
    <3>3. collected'[i + 1] = collected[i + 1] BY <3>1, <1>1, <1>2
    <3> QED BY <3>1, <3>2, <3>3 DEF VecInv, Collecting
  <2> QED BY <2>2, <2>3
<1>9. Collecting'
  <2>1. vecLength' - 1 = vecLength BY <1>1, <1>2
  <2>2. vecCapacity' # 0 BY <1>1, <1>3
  <2>3. vecLength' \in Nat /\ vecLength' <= vecCapacity' BY <1>1, <1>2, <1>3
  <2> QED BY <2>1, <2>2, <2>3, <1>2, <1>3, <1>6, <1>7, <1>8 DEF Collecting
<1> QED BY <1>2, <1>9 DEF VecInv

LEMMA ReleaseEnds ==
  ASSUME VecInv, ReleaseNames
  PROVE VecInv'
<1> DEFINE array == Written(strings, vecEnd, <<NULL>>)
<1>1. released' = [array |-> array, names |-> collected] BY DEF ReleaseNames
<1>2. /\ vecLength \in Nat /\ vecCapacity \in Nat /\ vecLength <= vecCapacity
      /\ vecEnd = vecLength
      /\ collected \in Seq(FileNames) /\ Len(collected) = vecLength
  BY DEF VecInv, Collecting
<1>3. DOMAIN array = DOMAIN strings BY DEF Written
<1>4. \E m \in Int : DOMAIN strings = 0 .. m BY <1>2 DEF VecInv, Collecting, NoArray
<1>0. Collecting' BY DEF ReleaseNames, Collecting, NoArray
<1>5. CASE vecCapacity = 0
  <2>1. array = NoArray BY <1>5, <1>3 DEF VecInv, Collecting, NoArray, Written
  <2>2. released'.array = NoArray /\ DOMAIN NoArray = 0 .. -1 /\ -1 \in Int
    BY <2>1, <1>1 DEF NoArray
  <2> QED BY <2>2, <1>0 DEF VecInv
<1>6. CASE vecCapacity # 0
  <2>1. DOMAIN strings = 0 .. vecCapacity BY <1>6 DEF VecInv, Collecting
  <2>2. ASSUME NEW i \in 0 .. vecCapacity
        PROVE array[i] = IF i = vecLength THEN NULL ELSE strings[i]
    BY <2>1, <1>2 DEF Written
  <2>3. vecLength \in 0 .. vecCapacity BY <1>2
  <2>4. \A i \in 0 .. vecLength - 1 : i \in 0 .. vecCapacity /\ i # vecLength BY <1>2
  <2>5. \A i \in 0 .. vecLength - 1 : array[i] = collected[i + 1]
    BY <2>2, <2>4 DEF VecInv, Collecting
  <2>6. Ended(array, collected) BY <2>1, <2>2, <2>3, <2>5, <1>2, <1>3 DEF Ended
  <2> HIDE DEF array
  <2> QED BY <2>6, <1>1, <1>3, <1>4, <1>0 DEF VecInv
<1> QED BY <1>5, <1>6

LEMMA VecNextPreserves == VecInv /\ [VecNext]_vecVars => VecInv'
<1> SUFFICES ASSUME VecInv, [VecNext]_vecVars PROVE VecInv' OBVIOUS
<1>1. ASSUME NEW s \in FileNames, AppendName(s) PROVE VecInv' BY <1>1, AppendCollects
<1>2. CASE ReleaseNames BY <1>2, ReleaseEnds
<1>3. CASE DeleteNames
  <2>1. Collecting' BY <1>3 DEF DeleteNames, VecInv, Collecting
  <2>2. released'.array = NoArray /\ DOMAIN NoArray = 0 .. -1 /\ -1 \in Int
    BY <1>3 DEF DeleteNames, Nowhere, NoArray
  <2> QED BY <2>1, <2>2 DEF VecInv
<1>4. CASE UNCHANGED vecVars BY <1>4 DEF vecVars, VecInv, Collecting
<1> QED BY <1>1, <1>2, <1>3, <1>4 DEF VecNext

(* What a read releases ends with the null pointer behind the file names   *)
(* it collected, so that deleting it frees each and stops.                 *)
THEOREM VectorsEnd == VecSpec => []EndsWithNull
<1>1. VecInv => EndsWithNull BY EndIsFound DEF VecInv, Ended, EndsWithNull
<1> QED BY <1>1, VecInitEstablishes, VecNextPreserves, PTL DEF VecSpec


-----------------------------------------------------------------------------
(* The locale.                                                             *)

LocaleTypeOK ==
  /\ process \in Radices
  /\ locale \in [Threads -> Objects \cup {GLOBAL}]
  /\ radix \in [Objects -> Radices \cup {FREED}]
  /\ own \subseteq Objects
  /\ nesting \in [Threads -> {0, 1}]

(* A thread outside the library has the locale of the process or one that  *)
(* the program made.                                                       *)
OthersAreOwn == \A t \in Threads : nesting[t] = 0 => locale[t] \in own \cup {GLOBAL}

LocaleInv == LocaleTypeOK /\ OthersAreOwn /\ LocaleIsOverridden

LEMMA LocaleInitEstablishes ==
  ASSUME LocaleInit
  PROVE LocaleInv
  BY LocaleAssumption
     DEF LocaleInit, LocaleInv, LocaleTypeOK, OthersAreOwn, LocaleIsOverridden, Radices, FREED

(* An object that did not exist is nobody's.                               *)
LEMMA NewIsNobodys ==
  ASSUME LocaleInv, NEW o \in Objects, radix[o] = FREED
  PROVE o \notin own /\ \A t \in Threads : locale[t] # o
  BY LocaleAssumption
     DEF LocaleInv, LocaleTypeOK, OthersAreOwn, LocaleIsOverridden, Radices, FREED

LEMMA OverridePreserves ==
  ASSUME LocaleInv, MaxNesting = 1, NEW t \in Threads, Override(t)
  PROVE LocaleInv'
<1>1. PICK o \in Objects :
        /\ radix[o] = FREED
        /\ radix' = [radix EXCEPT ![o] = "point"]
        /\ locale' = [locale EXCEPT ![t] = o]
  BY DEF Override, NewLocale
<1>2. /\ nesting' = [nesting EXCEPT ![t] = @ + 1] /\ nesting[t] < 1
      /\ process' = process /\ own' = own
  BY DEF Override
<1>3. o \notin own /\ \A u \in Threads : locale[u] # o BY <1>1, NewIsNobodys
<1>4. nesting[t] = 0 /\ nesting' = [nesting EXCEPT ![t] = 1]
  <2>1. nesting[t] \in {0, 1} BY DEF LocaleInv, LocaleTypeOK
  <2>2. nesting[t] = 0 BY <2>1, <1>2
  <2> QED BY <2>2, <1>2
<1>5. LocaleTypeOK'
  BY <1>1, <1>2, <1>4 DEF LocaleInv, LocaleTypeOK, Radices
<1>6. OthersAreOwn'
  BY <1>1, <1>2, <1>4 DEF LocaleInv, LocaleTypeOK, OthersAreOwn
<1>7. ASSUME NEW u \in Threads, nesting'[u] > 0
      PROVE /\ RadixOf(u)' = "point"
            /\ locale'[u] \in Objects \ own'
            /\ \A v \in Threads \ {u} : locale'[v] # locale'[u]
  <2>1. CASE u = t
    BY <2>1, <1>1, <1>2, <1>3, LocaleAssumption DEF LocaleInv, LocaleTypeOK, RadixOf
  <2>2. CASE u # t
    BY <2>2, <1>1, <1>2, <1>3, <1>4, <1>7
       DEF LocaleInv, LocaleTypeOK, LocaleIsOverridden, RadixOf
  <2> QED BY <2>1, <2>2
<1>8. {x \in Objects : radix'[x] # FREED} =
        own' \cup {locale'[u] : u \in {v \in Threads : nesting'[v] > 0}}
  <2>1. {x \in Objects : radix'[x] # FREED} = {x \in Objects : radix[x] # FREED} \cup {o}
    BY <1>1 DEF LocaleInv, LocaleTypeOK, FREED
  <2>2. {v \in Threads : nesting'[v] > 0} = {v \in Threads : nesting[v] > 0} \cup {t}
    BY <1>4 DEF LocaleInv, LocaleTypeOK
  <2>3. \A v \in Threads : nesting[v] > 0 => locale'[v] = locale[v]
    BY <1>1, <1>4 DEF LocaleInv, LocaleTypeOK
  <2>4. {locale'[u] : u \in {v \in Threads : nesting'[v] > 0}} =
          {locale[u] : u \in {v \in Threads : nesting[v] > 0}} \cup {o}
    BY <2>2, <2>3, <1>1 DEF LocaleInv, LocaleTypeOK
  <2> QED BY <2>1, <2>4, <1>2 DEF LocaleInv, LocaleIsOverridden
<1> QED BY <1>5, <1>6, <1>7, <1>8 DEF LocaleInv, LocaleIsOverridden

LEMMA RestorePreserves ==
  ASSUME LocaleInv, NEW t \in Threads, Restore(t)
  PROVE LocaleInv'
<1>1. /\ locale' = [locale EXCEPT ![t] = GLOBAL]
      /\ radix' = [o \in Objects |-> IF o = locale[t] THEN FREED ELSE radix[o]]
      /\ nesting' = [nesting EXCEPT ![t] = @ - 1] /\ nesting[t] > 0
      /\ process' = process /\ own' = own
  BY DEF Restore
<1>2. nesting[t] = 1 /\ nesting' = [nesting EXCEPT ![t] = 0]
  <2>1. nesting[t] \in {0, 1} BY DEF LocaleInv, LocaleTypeOK
  <2>2. nesting[t] = 1 BY <2>1, <1>1
  <2> QED BY <2>2, <1>1
<1>3. /\ locale[t] \in Objects \ own
      /\ \A u \in Threads \ {t} : locale[u] # locale[t]
  BY <1>2 DEF LocaleInv, LocaleIsOverridden
<1>4. LocaleTypeOK'
  BY <1>1, <1>2 DEF LocaleInv, LocaleTypeOK, FREED
<1>5. OthersAreOwn'
  BY <1>1, <1>2 DEF LocaleInv, LocaleTypeOK, OthersAreOwn
<1>6. ASSUME NEW u \in Threads, nesting'[u] > 0
      PROVE /\ RadixOf(u)' = "point"
            /\ locale'[u] \in Objects \ own'
            /\ \A v \in Threads \ {u} : locale'[v] # locale'[u]
  <2>1. u # t /\ nesting[u] > 0 BY <1>2, <1>6 DEF LocaleInv, LocaleTypeOK
  <2> QED BY <2>1, <1>1, <1>3, LocaleAssumption
             DEF LocaleInv, LocaleTypeOK, LocaleIsOverridden, RadixOf
<1>7. {x \in Objects : radix'[x] # FREED} =
        own' \cup {locale'[u] : u \in {v \in Threads : nesting'[v] > 0}}
  <2>1. {x \in Objects : radix'[x] # FREED} = {x \in Objects : radix[x] # FREED} \ {locale[t]}
    BY <1>1 DEF LocaleInv, LocaleTypeOK
  <2>2. {v \in Threads : nesting'[v] > 0} = {v \in Threads : nesting[v] > 0} \ {t}
    BY <1>2 DEF LocaleInv, LocaleTypeOK
  <2>3. \A v \in Threads \ {t} : locale'[v] = locale[v]
    BY <1>1 DEF LocaleInv, LocaleTypeOK
  <2>4. {locale'[u] : u \in {v \in Threads : nesting'[v] > 0}} =
          {locale[u] : u \in {v \in Threads : nesting[v] > 0}} \ {locale[t]}
    BY <2>2, <2>3, <1>3
  <2> QED BY <2>1, <2>4, <1>1, <1>3 DEF LocaleInv, LocaleIsOverridden
<1> QED BY <1>4, <1>5, <1>6, <1>7 DEF LocaleInv, LocaleIsOverridden

LEMMA SetLocalePreserves ==
  ASSUME LocaleInv, NEW t \in Threads, NEW r \in Radices, SetLocale(t, r)
  PROVE LocaleInv'
<1>1. process' = r /\ UNCHANGED <<locale, radix, own, nesting>> BY DEF SetLocale
<1>2. LocaleTypeOK' /\ OthersAreOwn'
  BY <1>1 DEF LocaleInv, LocaleTypeOK, OthersAreOwn
<1>3. \A u \in Threads : nesting[u] > 0 => RadixOf(u)' = RadixOf(u)
  BY <1>1, LocaleAssumption DEF LocaleInv, LocaleIsOverridden, RadixOf
<1> QED BY <1>1, <1>2, <1>3 DEF LocaleInv, LocaleIsOverridden

LEMMA UseOwnPreserves ==
  ASSUME LocaleInv, NEW t \in Threads, NEW r \in Radices, UseOwnLocale(t, r)
  PROVE LocaleInv'
<1>1. PICK o \in Objects :
        /\ radix[o] = FREED
        /\ radix' = [radix EXCEPT ![o] = r]
        /\ locale' = [locale EXCEPT ![t] = o]
  BY DEF UseOwnLocale, NewLocale
<1>2. /\ nesting[t] = 0 /\ own' = own \cup {o}
      /\ process' = process /\ nesting' = nesting
  BY <1>1 DEF UseOwnLocale, LocaleInv, LocaleTypeOK
<1>3. o \notin own /\ \A u \in Threads : locale[u] # o BY <1>1, NewIsNobodys
<1>4. LocaleTypeOK' BY <1>1, <1>2 DEF LocaleInv, LocaleTypeOK
<1>5. OthersAreOwn' BY <1>1, <1>2 DEF LocaleInv, LocaleTypeOK, OthersAreOwn
<1>6. ASSUME NEW u \in Threads, nesting'[u] > 0
      PROVE /\ RadixOf(u)' = "point"
            /\ locale'[u] \in Objects \ own'
            /\ \A v \in Threads \ {u} : locale'[v] # locale'[u]
  <2>1. u # t /\ nesting[u] > 0 BY <1>2, <1>6
  <2> QED BY <2>1, <1>1, <1>2, <1>3, LocaleAssumption
             DEF LocaleInv, LocaleTypeOK, LocaleIsOverridden, RadixOf
<1>7. {x \in Objects : radix'[x] # FREED} =
        own' \cup {locale'[u] : u \in {v \in Threads : nesting'[v] > 0}}
  <2>1. {x \in Objects : radix'[x] # FREED} = {x \in Objects : radix[x] # FREED} \cup {o}
    BY <1>1 DEF LocaleInv, LocaleTypeOK, FREED, Radices
  <2>2. \A u \in {v \in Threads : nesting[v] > 0} : locale'[u] = locale[u]
    BY <1>1, <1>2 DEF LocaleInv, LocaleTypeOK
  <2>3. {locale'[u] : u \in {v \in Threads : nesting'[v] > 0}} =
          {locale[u] : u \in {v \in Threads : nesting[v] > 0}}
    BY <2>2, <1>2
  <2> QED BY <2>1, <2>3, <1>2 DEF LocaleInv, LocaleIsOverridden
<1> QED BY <1>4, <1>5, <1>6, <1>7 DEF LocaleInv, LocaleIsOverridden

LEMMA FreeOwnPreserves ==
  ASSUME LocaleInv, NEW o \in Objects, FreeOwnLocale(o)
  PROVE LocaleInv'
<1>1. /\ o \in own /\ \A t \in Threads : locale[t] # o
      /\ radix' = [radix EXCEPT ![o] = FREED]
      /\ own' = own \ {o}
      /\ UNCHANGED <<process, locale, nesting>>
  BY DEF FreeOwnLocale
<1>2. LocaleTypeOK' /\ OthersAreOwn'
  BY <1>1 DEF LocaleInv, LocaleTypeOK, OthersAreOwn
<1>3. \A u \in Threads : nesting[u] > 0 => RadixOf(u)' = RadixOf(u)
  BY <1>1 DEF LocaleInv, LocaleTypeOK, LocaleIsOverridden, RadixOf
<1>4. {x \in Objects : radix'[x] # FREED} = {x \in Objects : radix[x] # FREED} \ {o}
  BY <1>1 DEF LocaleInv, LocaleTypeOK
<1> QED BY <1>1, <1>2, <1>3, <1>4 DEF LocaleInv, LocaleIsOverridden

LEMMA LocaleStepPreserves ==
  ASSUME LocaleInv, MaxNesting = 1, LocaleStep
  PROVE LocaleInv'
  BY OverridePreserves, RestorePreserves, SetLocalePreserves, UseOwnPreserves,
     FreeOwnPreserves
     DEF LocaleStep

LEMMA LocaleUnchanged ==
  ASSUME LocaleInv, UNCHANGED localeVars
  PROVE LocaleInv'
  BY DEF LocaleInv, LocaleTypeOK, OthersAreOwn, LocaleIsOverridden, RadixOf, localeVars

(* A crash leaves the locale of the process to the next run of the program.*)
LEMMA CrashPreserves ==
  ASSUME LocaleInv, Crash
  PROVE LocaleInv'
  BY LocaleAssumption
     DEF Crash, LocaleInv, LocaleTypeOK, OthersAreOwn, LocaleIsOverridden, Radices, FREED

(* Within each read and write, the thread of the call has a locale object  *)
(* with a point of its own, whatever the program does in other threads;    *)
(* and no object is leaked or freed twice (__config_locale_override and    *)
(* __config_locale_restore), if include functions do not call the library. *)
THEOREM LocaleOverridden ==
  ASSUME MaxNesting = 1
  PROVE WriteSpec => []LocaleIsOverridden
<1>1. WriteInit => LocaleInv BY LocaleInitEstablishes DEF WriteInit
<1>2. LocaleInv /\ [WriteNext]_writeVars => LocaleInv'
  <2> SUFFICES ASSUME LocaleInv, [WriteNext]_writeVars PROVE LocaleInv' OBVIOUS
  <2>1. CASE BeginWrite
    BY <2>1, OverridePreserves, WriteAssumption DEF BeginWrite
  <2>2. CASE EndWrite
    BY <2>2, RestorePreserves, WriteAssumption DEF EndWrite
  <2>3. CASE OthersStep BY <2>3, LocaleStepPreserves DEF OthersStep
  <2>4. CASE Crash BY <2>4, CrashPreserves
  <2>5. CASE OpenFails \/ Open \/ PutPiece \/ Sync \/ Succeed \/ WriteBack
    BY <2>5, LocaleUnchanged
       DEF OpenFails, Open, PutPiece, Sync, Succeed, WriteBack, localeVars
  <2>6. CASE UNCHANGED writeVars BY <2>6, LocaleUnchanged DEF writeVars
  <2> QED BY <2>1, <2>2, <2>3, <2>4, <2>5, <2>6 DEF WriteNext, Save
<1>3. LocaleInv => LocaleIsOverridden BY DEF LocaleInv
<1> QED BY <1>1, <1>2, <1>3, PTL DEF WriteSpec

-----------------------------------------------------------------------------
(* The file.                                                               *)

Text == Seq(Nat \X Nat)

FileTypeOK ==
  /\ pc \in {"idle", "opened", "writing", "sync", "close"}
  /\ next \in 1 .. PieceCount + 1
  /\ save \in [number : Nat, fsync : BOOLEAN]
  /\ file \in Text /\ disk \in Text
  /\ IF pc = "idle" THEN stream = CLOSED ELSE stream \in Text /\ Len(stream) <= BufSize
  /\ lost \in BOOLEAN

(* Where a call is: nothing is written before it begins, and it ends when  *)
(* everything is.                                                          *)
Progress ==
  /\ pc = "opened" => next = 1 /\ stream = <<>> /\ file = <<>>
  /\ pc \in {"sync", "close"} => next = PieceCount + 1

(* The pieces from the first on are in the file, and go on in the stream.  *)
HoldsThePieces ==
  /\ Len(file) + Len(stream) = next - 1
  /\ \A i \in 1 .. Len(file) : file[i] = <<save.number, i>>
  /\ \A i \in 1 .. Len(stream) : stream[i] = <<save.number, Len(file) + i>>

NothingIsLost == pc # "idle" /\ ~lost => HoldsThePieces

(* What fsync() put on the disk stays a part of the file.                  *)
StaysOnDisk ==
  save.fsync /\ ~lost /\ (pc = "close" \/ (pc = "idle" /\ error = "NONE")) =>
    /\ Len(disk) <= Len(file) /\ Len(disk) + BufSize >= PieceCount
    /\ \A i \in 1 .. Len(disk) : disk[i] = file[i]

Whole == error = "NONE" /\ ~lost /\ save.number > 0 =>
           /\ Len(file) = PieceCount
           /\ \A i \in 1 .. PieceCount : file[i] = <<save.number, i>>

Numbered == save.number = 0 => ~save.fsync

FileInv ==
  /\ FileTypeOK /\ Progress /\ NothingIsLost /\ StaysOnDisk
  /\ pc = "idle" => Whole
  /\ Numbered

LEMMA FileInitEstablishes ==
  ASSUME WriteInit
  PROVE FileInv
<1>1. /\ pc = "idle" /\ stream = CLOSED /\ next = 1
      /\ file = <<>> /\ disk = <<>> /\ lost = FALSE /\ error = "NONE"
      /\ save = [number |-> 0, fsync |-> FALSE]
  BY DEF WriteInit
<1>2. FileTypeOK
  <2>1. save \in [number : Nat, fsync : BOOLEAN] BY <1>1
  <2>2. 1 \in 1 .. PieceCount + 1 BY WriteAssumption
  <2>3. <<>> \in Text BY DEF Text
  <2> QED BY <1>1, <2>1, <2>2, <2>3 DEF FileTypeOK
<1>3. save.number = 0 /\ save.fsync = FALSE BY <1>1
<1> QED BY <1>1, <1>2, <1>3
           DEF FileInv, Progress, NothingIsLost, StaysOnDisk, Whole, Numbered

(* What a sequence becomes when another is written after it.               *)
LEMMA Appended ==
  ASSUME NEW s \in Text, NEW t \in Text
  PROVE /\ s \o t \in Text /\ Len(s \o t) = Len(s) + Len(t)
        /\ \A i \in 1 .. Len(s) : (s \o t)[i] = s[i]
        /\ \A i \in 1 .. Len(t) : (s \o t)[Len(s) + i] = t[i]
  BY SMTT(30) DEF Text

LEMMA Cut ==
  ASSUME NEW s \in Text, NEW n \in 0 .. Len(s)
  PROVE /\ SubSeq(s, 1, n) \in Text /\ Len(SubSeq(s, 1, n)) = n
        /\ \A i \in 1 .. n : SubSeq(s, 1, n)[i] = s[i]
  BY DEF Text

(* A flush writes the stream behind the file, or something is lost.        *)
LEMMA Flushed ==
  ASSUME file \in Text, stream \in Text, Flush(stream), lost \in BOOLEAN
  PROVE /\ file' \in Text /\ lost' \in BOOLEAN
        /\ ~lost' => ~lost /\ file' = file \o stream
<1>1. CASE file' = file \o stream /\ UNCHANGED lost
  BY <1>1, Appended
<1>2. CASE /\ \E n \in 0 .. Len(stream) - 1 : file' = file \o SubSeq(stream, 1, n)
           /\ lost' = TRUE
  <2>1. PICK n \in 0 .. Len(stream) - 1 : file' = file \o SubSeq(stream, 1, n)
    BY <1>2
  <2>2. SubSeq(stream, 1, n) \in Text
    <3>1. Len(stream) \in Nat BY DEF Text
    <3>2. n \in 0 .. Len(stream) BY <3>1
    <3> QED BY <3>2, Cut
  <2> QED BY <1>2, <2>1, <2>2, Appended
<1> QED BY <1>1, <1>2 DEF Flush

LEMMA OpenPreserves ==
  ASSUME FileInv, Open
  PROVE FileInv'
<1>1. /\ file' = <<>> /\ stream' = <<>> /\ next' = 1 /\ lost' = FALSE
      /\ pc' = "opened" /\ disk' = disk
  BY DEF Open
<1>2. save' \in [number : Nat, fsync : BOOLEAN] /\ save'.number > 0
  BY DEF Open, FileInv, FileTypeOK
<1>3. FileTypeOK'
  <2>1. 1 \in 1 .. PieceCount + 1 /\ 0 <= BufSize BY WriteAssumption
  <2>2. <<>> \in Text /\ Len(<<>>) = 0 BY DEF Text
  <2> QED BY <1>1, <1>2, <2>1, <2>2 DEF FileInv, FileTypeOK
<1>4. NothingIsLost' BY <1>1 DEF NothingIsLost, HoldsThePieces
<1> QED BY <1>1, <1>2, <1>3, <1>4 DEF FileInv, Progress, StaysOnDisk, Numbered

(* config_write() begins and ends: only pc changes.                        *)
LEMMA ConfigWritePreserves ==
  ASSUME FileInv, BeginWrite \/ EndWrite
  PROVE FileInv'
<1>1. UNCHANGED <<stream, next, file, disk, save, lost, error>>
  BY DEF BeginWrite, EndWrite
<1>2. CASE BeginWrite
  BY <1>1, <1>2
     DEF BeginWrite, FileInv, FileTypeOK, Progress, NothingIsLost, HoldsThePieces,
         StaysOnDisk, Numbered
<1>3. CASE EndWrite
  <2>1. /\ pc = "writing" /\ next > PieceCount
        /\ pc' = IF save.fsync THEN "sync" ELSE "close"
    BY <1>3 DEF EndWrite
  <2>2. next' = PieceCount + 1 BY <2>1, <1>1, WriteAssumption DEF FileInv, FileTypeOK
  <2>3. FileTypeOK' /\ Progress' /\ NothingIsLost' /\ StaysOnDisk'
    BY <1>1, <2>1, <2>2
       DEF FileInv, FileTypeOK, Progress, NothingIsLost, HoldsThePieces, StaysOnDisk
  <2> QED BY <1>1, <2>1, <2>3 DEF FileInv, Numbered
<1> QED BY <1>2, <1>3

LEMMA PutPiecePreserves ==
  ASSUME FileInv, PutPiece
  PROVE FileInv'
<1> DEFINE piece == <<save.number, next>>
<1>1. /\ pc = "writing" /\ next <= PieceCount /\ next' = next + 1
      /\ pc' = pc /\ disk' = disk /\ save' = save /\ error' = error
  BY DEF PutPiece
<1>2. next \in Nat /\ next' \in 1 .. PieceCount + 1 /\ piece \in Nat \X Nat
  BY <1>1, WriteAssumption DEF FileInv, FileTypeOK
<1>3. file \in Text /\ stream \in Text /\ Len(stream) <= BufSize /\ lost \in BOOLEAN
  BY <1>1 DEF FileInv, FileTypeOK
<1>4. CASE /\ Len(stream) < BufSize /\ stream' = Append(stream, piece)
           /\ UNCHANGED <<file, lost>>
  <2>1. stream' \in Text /\ Len(stream') = Len(stream) + 1 /\ Len(stream') <= BufSize
    BY <1>2, <1>3, <1>4, WriteAssumption DEF Text
  <2>2. NothingIsLost'
    <3> SUFFICES ASSUME ~lost PROVE HoldsThePieces' BY <1>4 DEF NothingIsLost
    <3>1. HoldsThePieces BY <1>1 DEF FileInv, NothingIsLost
    <3>2. \A i \in 1 .. Len(stream') : stream'[i] = <<save.number, Len(file) + i>>
      <4>1. Len(file) + Len(stream) + 1 = next BY <1>2, <1>3, <3>1 DEF HoldsThePieces, Text
      <4>2. \A i \in 1 .. Len(stream) : stream'[i] = <<save.number, Len(file) + i>>
        BY <1>2, <1>3, <1>4, <3>1 DEF HoldsThePieces, Text
      <4>3. stream'[Len(stream) + 1] = piece BY <1>2, <1>3, <1>4 DEF Text
      <4>4. piece = <<save.number, Len(file) + (Len(stream) + 1)>>
        BY <1>3, <4>1 DEF Text
      <4>5. Len(stream) \in Nat BY <1>3 DEF Text
      <4>6. \A i \in 1 .. Len(stream') : i \in 1 .. Len(stream) \/ i = Len(stream) + 1
        BY <2>1, <4>5
      <4> QED BY <4>2, <4>3, <4>4, <4>6
    <3>3. save' = save /\ file' = file BY <1>1, <1>4
    <3>4. Len(file) + Len(stream') = next' - 1
      BY <1>1, <1>2, <1>3, <2>1, <3>1 DEF HoldsThePieces, Text
    <3>5. \A i \in 1 .. Len(file) : file[i] = <<save.number, i>>
      BY <3>1 DEF HoldsThePieces
    <3> HIDE DEF piece
    <3> QED BY ONLY <3>2, <3>3, <3>4, <3>5, Zenon DEF HoldsThePieces
  <2> QED BY <1>1, <1>2, <1>3, <1>4, <2>1, <2>2
             DEF FileInv, FileTypeOK, Progress, StaysOnDisk, Numbered
<1>5. CASE Len(stream) >= BufSize /\ Flush(stream) /\ stream' = <<piece>>
  <2>1. /\ file' \in Text /\ lost' \in BOOLEAN
        /\ ~lost' => ~lost /\ file' = file \o stream
    BY <1>3, <1>5, Flushed
  <2>2. stream' \in Text /\ Len(stream') = 1 /\ stream'[1] = piece
    BY <1>2, <1>5 DEF Text
  <2>3. NothingIsLost'
    <3> SUFFICES ASSUME ~lost' PROVE HoldsThePieces' BY DEF NothingIsLost
    <3>1. HoldsThePieces BY <1>1, <2>1 DEF FileInv, NothingIsLost
    <3>2. /\ Len(file') = next - 1
          /\ \A i \in 1 .. Len(file') : file'[i] = <<save.number, i>>
      <4>1. Len(file') = Len(file) + Len(stream) BY <1>3, <2>1, Appended
      <4>2. Len(file) \in Nat /\ Len(stream) \in Nat BY <1>3 DEF Text
      <4>3. ASSUME NEW i \in 1 .. Len(file'), i > Len(file)
            PROVE file'[i] = <<save.number, i>>
        <5>1. i - Len(file) \in 1 .. Len(stream) /\ Len(file) + (i - Len(file)) = i
          BY <4>1, <4>2, <4>3
        <5>2. file'[Len(file) + (i - Len(file))] = stream[i - Len(file)]
          BY <1>3, <2>1, <5>1, Appended
        <5> QED BY <3>1, <5>1, <5>2 DEF HoldsThePieces
      <4>4. \A i \in 1 .. Len(file) : file'[i] = file[i] BY <1>3, <2>1, Appended
      <4> QED BY <3>1, <4>1, <4>2, <4>3, <4>4 DEF HoldsThePieces
    <3> QED BY <1>1, <1>2, <2>2, <3>2 DEF HoldsThePieces
  <2> QED BY <1>1, <1>2, <1>3, <2>1, <2>2, <2>3, WriteAssumption
             DEF FileInv, FileTypeOK, Progress, StaysOnDisk, Numbered
<1>6. \/ Len(stream) < BufSize \/ Len(stream) >= BufSize
  BY <1>3, WriteAssumption DEF Text
<1> QED BY <1>4, <1>5, <1>6 DEF PutPiece

(* The end of a call: what is lost is lost, and else the file is whole.    *)
LEMMA ClosePreserves ==
  ASSUME FileInv, NEW result \in {"NONE", "FILE_IO"}, Close(result),
         pc \in {"sync", "close"}, pc = "close" \/ result # "NONE"
  PROVE FileInv'
<1>1. /\ Flush(stream) /\ stream' = CLOSED /\ pc' = "idle" /\ error' = result
      /\ UNCHANGED <<next, disk, save>>
  BY DEF Close
<1>2. /\ file \in Text /\ disk \in Text /\ stream \in Text /\ lost \in BOOLEAN
      /\ next = PieceCount + 1
  BY DEF FileInv, FileTypeOK, Progress
<1>3. /\ file' \in Text /\ lost' \in BOOLEAN
      /\ ~lost' => ~lost /\ file' = file \o stream
  BY <1>1, <1>2, Flushed
<1>4. FileTypeOK' BY <1>1, <1>2, <1>3 DEF FileInv, FileTypeOK
<1>5. Whole'
  <2> SUFFICES ASSUME ~lost'
               PROVE /\ Len(file') = PieceCount
                     /\ \A i \in 1 .. PieceCount : file'[i] = <<save.number, i>>
    BY <1>1 DEF Whole
  <2>1. HoldsThePieces BY <1>3 DEF FileInv, NothingIsLost
  <2>2. /\ Len(file) \in Nat /\ Len(stream) \in Nat
        /\ Len(file') = Len(file) + Len(stream)
    BY <1>2, <1>3, Appended DEF Text
  <2>3. Len(file') = PieceCount BY <1>2, <2>1, <2>2, WriteAssumption DEF HoldsThePieces
  <2>4. ASSUME NEW i \in 1 .. PieceCount, i > Len(file)
        PROVE file'[i] = <<save.number, i>>
    <3>1. i - Len(file) \in 1 .. Len(stream) /\ Len(file) + (i - Len(file)) = i
      BY <2>2, <2>3, <2>4, WriteAssumption
    <3>2. file'[Len(file) + (i - Len(file))] = stream[i - Len(file)]
      BY <1>2, <1>3, <3>1, Appended
    <3> QED BY <2>1, <3>1, <3>2 DEF HoldsThePieces
  <2>5. \A i \in 1 .. Len(file) : file'[i] = file[i] BY <1>2, <1>3, Appended
  <2>6. \A i \in 1 .. PieceCount : i \in 1 .. Len(file) \/ i > Len(file)
    BY <2>2, WriteAssumption
  <2> QED BY <2>1, <2>3, <2>4, <2>5, <2>6 DEF HoldsThePieces
<1>6. StaysOnDisk'
  <2> SUFFICES ASSUME save.fsync, ~lost', result = "NONE"
               PROVE /\ Len(disk) <= Len(file') /\ Len(disk) + BufSize >= PieceCount
                     /\ \A i \in 1 .. Len(disk) : disk[i] = file'[i]
    BY <1>1 DEF StaysOnDisk
  <2>1. /\ Len(disk) <= Len(file) /\ Len(disk) + BufSize >= PieceCount
        /\ \A i \in 1 .. Len(disk) : disk[i] = file[i]
    BY <1>3 DEF FileInv, StaysOnDisk
  <2>2. /\ Len(file') = Len(file) + Len(stream)
        /\ \A i \in 1 .. Len(file) : file'[i] = file[i]
    BY <1>2, <1>3, Appended
  <2>3. Len(disk) \in Nat /\ Len(file) \in Nat /\ Len(stream) \in Nat
    BY <1>2 DEF Text
  <2> QED BY <2>1, <2>2, <2>3
<1> QED BY <1>1, <1>4, <1>5, <1>6 DEF FileInv, Progress, NothingIsLost, Numbered

LEMMA SyncPreserves ==
  ASSUME FileInv, Sync
  PROVE FileInv'
<1>1. pc = "sync" BY DEF Sync
<1>2. CASE Synced /\ UNCHANGED <<stream, next, file, save, lost, error>>
  <2>1. disk' = file /\ pc' = "close" BY <1>2 DEF Synced
  <2>2. /\ file \in Text /\ stream \in Text /\ Len(stream) <= BufSize
        /\ next = PieceCount + 1
    BY <1>1 DEF FileInv, FileTypeOK, Progress
  <2>3. FileTypeOK' /\ Progress' /\ NothingIsLost'
    BY <1>1, <1>2, <2>1
       DEF FileInv, FileTypeOK, Progress, NothingIsLost, HoldsThePieces
  <2>4. ASSUME ~lost PROVE Len(file) + BufSize >= PieceCount
    <3>1. Len(file) + Len(stream) = next - 1
      BY <1>1, <2>4 DEF FileInv, NothingIsLost, HoldsThePieces
    <3> QED BY <2>2, <3>1, WriteAssumption DEF Text
  <2>5. StaysOnDisk'
    BY <1>2, <2>1, <2>2, <2>4 DEF StaysOnDisk, Text
  <2> QED BY <1>2, <2>1, <2>3, <2>5 DEF FileInv, Numbered
<1>3. CASE Close("FILE_IO") BY <1>1, <1>3, ClosePreserves
<1> QED BY <1>2, <1>3 DEF Sync

(* Nothing that is on the disk for good is taken back.                     *)
LEMMA WriteBackPreserves ==
  ASSUME FileInv, WriteBack
  PROVE FileInv'
<1>1. PICK n \in 0 .. Len(file) :
        /\ IsPrefix(disk, file) => Len(disk) <= n
        /\ disk' = SubSeq(file, 1, n)
  BY DEF WriteBack
<1>2. UNCHANGED <<pc, stream, next, file, save, lost, error>> BY DEF WriteBack
<1>3. file \in Text /\ disk \in Text BY DEF FileInv, FileTypeOK
<1>4. /\ disk' \in Text /\ Len(disk') = n
      /\ \A i \in 1 .. n : disk'[i] = file[i]
  BY <1>1, <1>3, Cut
<1>5. FileTypeOK' BY <1>2, <1>4 DEF FileInv, FileTypeOK
<1>6. StaysOnDisk'
  <2> SUFFICES ASSUME save.fsync, ~lost, pc = "close" \/ (pc = "idle" /\ error = "NONE")
               PROVE Len(disk') <= Len(file) /\ Len(disk') + BufSize >= PieceCount
    BY <1>2, <1>4 DEF StaysOnDisk
  <2>1. /\ Len(disk) <= Len(file) /\ Len(disk) + BufSize >= PieceCount
        /\ \A i \in 1 .. Len(disk) : disk[i] = file[i]
    BY DEF FileInv, StaysOnDisk
  <2>2. IsPrefix(disk, file) BY <1>3, <2>1 DEF IsPrefix, Text
  <2>3. Len(disk) \in Nat /\ Len(file) \in Nat BY <1>3 DEF Text
  <2> QED BY <1>1, <1>4, <2>1, <2>2, <2>3, WriteAssumption
<1> QED BY <1>2, <1>5, <1>6
           DEF FileInv, Progress, NothingIsLost, HoldsThePieces, Whole, Numbered

LEMMA CrashLeavesTheFile ==
  ASSUME FileInv, Crash
  PROVE FileInv'
<1>1. /\ file' = disk /\ pc' = "idle" /\ stream' = CLOSED /\ error' = "UNKNOWN"
      /\ UNCHANGED <<next, disk, save, lost>>
  BY DEF Crash
<1> QED BY <1>1
           DEF FileInv, FileTypeOK, Progress, NothingIsLost, StaysOnDisk, Whole, Numbered

LEMMA FileStepPreserves ==
  ASSUME FileInv, [WriteNext]_writeVars
  PROVE FileInv'
<1>1. CASE OpenFails
  BY <1>1 DEF OpenFails, FileInv, FileTypeOK, Progress, NothingIsLost, StaysOnDisk, Whole,
              Numbered
<1>2. CASE Open BY <1>2, OpenPreserves
<1>3. CASE BeginWrite \/ EndWrite BY <1>3, ConfigWritePreserves
<1>4. CASE PutPiece BY <1>4, PutPiecePreserves
<1>5. CASE Sync BY <1>5, SyncPreserves
<1>6. CASE Succeed BY <1>6, ClosePreserves DEF Succeed
<1>7. CASE WriteBack BY <1>7, WriteBackPreserves
<1>8. CASE Crash BY <1>8, CrashLeavesTheFile
<1>9. CASE OthersStep \/ UNCHANGED writeVars
  BY <1>9 DEF OthersStep, writeVars, fileVars, FileInv, FileTypeOK, Progress,
              NothingIsLost, HoldsThePieces, StaysOnDisk, Whole, Numbered
<1> QED BY <1>1, <1>2, <1>3, <1>4, <1>5, <1>6, <1>7, <1>8, <1>9 DEF WriteNext, Save

LEMMA IsContents ==
  ASSUME NEW k \in Nat, NEW s \in Text,
         Len(s) = PieceCount, \A i \in 1 .. PieceCount : s[i] = <<k, i>>
  PROVE s = Contents(k)
<1>1. s = [i \in 1 .. Len(s) |-> s[i]] BY DEF Text
<1> QED BY <1>1 DEF Contents

LEMMA FileInvHolds == WriteSpec => []FileInv
  BY FileInitEstablishes, FileStepPreserves, PTL DEF WriteSpec

(* A call of config_write_file() that returned CONFIG_TRUE leaves the whole*)
(* configuration and nothing else in a closed file, if every write of the  *)
(* stream succeeded; for every length of the text and size of the buffer.  *)
THEOREM SaveIsReported == WriteSpec => []SavedAsReported
<1>1. FileInv => SavedAsReported
  <2> SUFFICES ASSUME FileInv, pc = "idle"
               PROVE /\ stream = CLOSED
                     /\ error = "NONE" /\ ~lost /\ save.number > 0
                          => file = Contents(save.number)
    BY DEF SavedAsReported
  <2>1. stream = CLOSED /\ file \in Text /\ save.number \in Nat BY DEF FileInv, FileTypeOK
  <2>2. ASSUME error = "NONE", ~lost, save.number > 0
        PROVE file = Contents(save.number)
    BY <2>1, <2>2, IsContents DEF FileInv, Whole
  <2> QED BY <2>1, <2>2
<1> QED BY <1>1, FileInvHolds, PTL

(* What a crash takes of a configuration saved with CONFIG_OPTION_FSYNC is *)
(* at most what the buffer of the stream held when fsync() was called.     *)
THEOREM SyncKeepsAllButTheTail == WriteSpec => []SyncedButTheTail
<1>1. FileInv => SyncedButTheTail
  <2> SUFFICES ASSUME FileInv, pc = "idle", error = "NONE", ~lost, save.fsync
               PROVE IsPrefix(disk, Contents(save.number)) /\ Len(disk) + BufSize >= PieceCount
    BY DEF SyncedButTheTail
  <2>1. save.number \in Nat /\ save.number > 0 /\ file \in Text /\ disk \in Text
    BY DEF FileInv, FileTypeOK, Numbered
  <2>2. /\ Len(disk) <= Len(file) /\ Len(disk) + BufSize >= PieceCount
        /\ \A i \in 1 .. Len(disk) : disk[i] = file[i]
    BY DEF FileInv, StaysOnDisk
  <2>3. file = Contents(save.number)
    BY <2>1, IsContents DEF FileInv, Whole
  <2>4. IsPrefix(disk, file) BY <2>1, <2>2 DEF IsPrefix, Text
  <2> QED BY <2>2, <2>3, <2>4
<1> QED BY <1>1, FileInvHolds, PTL
=============================================================================
