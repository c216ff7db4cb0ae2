-------------------------- MODULE ConfigReadProofs --------------------------
(***************************************************************************)
(* Proofs about ConfigRead, for all files, texts, include functions and    *)
(* depths of the include stack, and any number of calls: what a read takes *)
(* it releases exactly once, what is scanned is the file that settings and *)
(* errors are attributed to, a read that fails reports its error, and one  *)
(* that succeeds has read the whole text.                                  *)
(***************************************************************************)
EXTENDS ConfigRead, Lemmas, SequenceTheorems, TLAPS

FrameType == [files : Seq(Nat), pos : Nat, stream : OrNull(Nat), parent : Nat]
BufferType == [file : Files, name : OrNull(Nat), next : Nat, stream : OrNull(Nat),
               deleted : Nat]
NameType == [file : Files, freed : Nat]

HeapTypeOK ==
  /\ pc \in {"idle", "scan", "failed"}
  /\ streams \in Seq(Nat) /\ buffers \in Seq(BufferType) /\ names \in Seq(NameType)
  /\ frames \in Seq(FrameType)
  /\ top \in [stream : OrNull(Nat), name : OrNull(Nat)]
  /\ ctxNames \in Seq(Nat) /\ filenames \in Seq(Nat)

(* Between calls there is no scan context; while one is there, the names   *)
(* of the configuration are gone.                                          *)
ContextOfARead ==
  /\ pc = "idle" => /\ frames = <<>> /\ ctxNames = <<>> /\ current = NULL
                    /\ top.stream = NULL /\ top.name = NULL
  /\ pc # "idle" => filenames = <<>>

(* Streams and buffers that are held are some that were made.              *)
StreamsAreMade ==
  /\ top.stream \in OrNull(1 .. Len(streams))
  /\ \A i \in Ids(frames) : frames[i].stream \in OrNull(1 .. Len(streams))

BuffersAreMade ==
  /\ pc # "idle" => current \in 1 .. Len(buffers)
  /\ \A i \in Ids(frames) : frames[i].parent \in 1 .. Len(buffers)

(* The vector that owns the names, and what points to them.                *)
Owner == IF pc = "idle" THEN filenames ELSE ctxNames

NamesAreOwned ==
  /\ \A i \in 1 .. Len(Owner) : Owner[i] \in 1 .. Len(names)
  /\ IsInjective(Owner)
  /\ \A n \in 1 .. Len(names) : names[n].freed = IF n \in ToSet(Owner) THEN 0 ELSE 1

NamesAreKnown ==
  /\ top.name \in OrNull(ToSet(Owner))
  /\ sources \subseteq OrNull(ToSet(Owner))
  /\ \A i \in Ids(frames) :
       /\ frames[i].pos \in 1 .. Len(frames[i].files)
       /\ \A j \in 1 .. Len(frames[i].files) : frames[i].files[j] \in ToSet(Owner)

(* Level 0 is the file of the call, level i the one in frame i.            *)
NameAt(i) == IF i = 0 THEN top.name ELSE frames[i].files[frames[i].pos]
StreamAt(i) == IF i = 0 THEN top.stream ELSE frames[i].stream
BufferAt(i) == IF i = Len(frames) THEN current ELSE frames[i + 1].parent

(* The buffer of each level scans the file of that level.                  *)
LevelsAgree ==
  pc = "scan" =>
    \A i \in 0 .. Len(frames) : /\ buffers[BufferAt(i)].name = NameAt(i)
                                /\ buffers[BufferAt(i)].stream = StreamAt(i)

StreamInv == StreamsAreMade /\ StreamsClosedOnce
BufferInv == BuffersAreMade /\ BuffersDeletedOnce
NameInv == NamesAreOwned /\ NamesAreKnown

ReadInv == HeapTypeOK /\ ContextOfARead /\ StreamInv /\ BufferInv /\ NameInv /\ LevelsAgree

-----------------------------------------------------------------------------
(* The operations on the heap.                                             *)

LEMMA NullIsNoNumber == NULL \notin Nat
  BY ReadAssumption

LEMMA Closed ==
  ASSUME NEW S, NEW ss \in Seq(Nat)
  PROVE /\ Close(S, ss) \in Seq(Nat) /\ Len(Close(S, ss)) = Len(ss)
        /\ \A s \in 1 .. Len(ss) : Close(S, ss)[s] = IF s \in S THEN ss[s] + 1 ELSE ss[s]
  BY DEF Close

LEMMA Updated ==
  ASSUME NEW b \in BufferType
  PROVE /\ [b EXCEPT !.deleted = @ + 1] \in BufferType
        /\ [b EXCEPT !.deleted = @ + 1].name = b.name
        /\ [b EXCEPT !.deleted = @ + 1].stream = b.stream
        /\ [b EXCEPT !.deleted = @ + 1].deleted = b.deleted + 1
        /\ [b EXCEPT !.next = @ + 1] \in BufferType
        /\ [b EXCEPT !.next = @ + 1].name = b.name
        /\ [b EXCEPT !.next = @ + 1].stream = b.stream
        /\ [b EXCEPT !.next = @ + 1].deleted = b.deleted
<1>1. b.deleted + 1 \in Nat /\ b.next + 1 \in Nat BY DEF BufferType
<1> DEFINE d == b.deleted + 1
           n == b.next + 1
<1>2. d \in Nat /\ n \in Nat BY <1>1
<1> HIDE DEF d, n
<1>3. /\ [b EXCEPT !.deleted = d] \in BufferType
      /\ [b EXCEPT !.deleted = d].name = b.name
      /\ [b EXCEPT !.deleted = d].stream = b.stream
      /\ [b EXCEPT !.deleted = d].deleted = d
      /\ [b EXCEPT !.next = n] \in BufferType
      /\ [b EXCEPT !.next = n].name = b.name
      /\ [b EXCEPT !.next = n].stream = b.stream
      /\ [b EXCEPT !.next = n].deleted = b.deleted
  BY <1>2 DEF BufferType
<1> QED BY <1>3 DEF d, n

LEMMA FreedOne ==
  ASSUME NEW r \in NameType
  PROVE /\ [r EXCEPT !.freed = @ + 1] \in NameType
        /\ [r EXCEPT !.freed = @ + 1].freed = r.freed + 1
<1> DEFINE k == r.freed + 1
<1>1. k \in Nat BY DEF NameType
<1> HIDE DEF k
<1>2. [r EXCEPT !.freed = k] \in NameType /\ [r EXCEPT !.freed = k].freed = k
  BY <1>1 DEF NameType
<1> QED BY <1>2 DEF k

(* A sequence whose elements change, one by one.                           *)
LEMMA Mapped ==
  ASSUME NEW S, NEW s \in Seq(S), NEW t, t = [i \in DOMAIN s |-> t[i]],
         \A i \in 1 .. Len(s) : t[i] \in S
  PROVE t \in Seq(S) /\ Len(t) = Len(s)
<1>1. DOMAIN s = 1 .. Len(s) /\ Len(s) \in Nat BY LenProperties
<1>2. t \in [1 .. Len(s) -> S] BY <1>1
<1> QED BY <1>1, <1>2, SeqDef

LEMMA Deleted ==
  ASSUME NEW B, buffers \in Seq(BufferType)
  PROVE /\ Delete(B) \in Seq(BufferType) /\ Len(Delete(B)) = Len(buffers)
        /\ \A b \in 1 .. Len(buffers) :
             /\ Delete(B)[b].name = buffers[b].name
             /\ Delete(B)[b].stream = buffers[b].stream
             /\ Delete(B)[b].deleted =
                  IF b \in B THEN buffers[b].deleted + 1 ELSE buffers[b].deleted
<1>1. DOMAIN buffers = 1 .. Len(buffers) /\ DOMAIN Delete(B) = 1 .. Len(buffers)
  BY LenProperties DEF Delete
<1>2. ASSUME NEW b \in 1 .. Len(buffers)
      PROVE /\ Delete(B)[b] \in BufferType
            /\ Delete(B)[b].name = buffers[b].name
            /\ Delete(B)[b].stream = buffers[b].stream
            /\ Delete(B)[b].deleted =
                 IF b \in B THEN buffers[b].deleted + 1 ELSE buffers[b].deleted
  <2>1. buffers[b] \in BufferType BY ElementOfSeq
  <2>2. CASE b \in B
    <3>1. Delete(B)[b] = [buffers[b] EXCEPT !.deleted = @ + 1]
      BY <1>1, <2>2, Zenon DEF Delete
    <3> QED BY <2>1, <2>2, <3>1, Updated
  <2>3. CASE b \notin B
    <3>1. Delete(B)[b] = buffers[b] BY <1>1, <2>3, Zenon DEF Delete
    <3> QED BY <2>1, <2>3, <3>1
  <2> QED BY <2>2, <2>3
<1>3. Delete(B) = [b \in DOMAIN buffers |-> Delete(B)[b]] BY Zenon DEF Delete
<1> QED BY <1>2, <1>3, Mapped

LEMMA Freed ==
  ASSUME NEW N, names \in Seq(NameType)
  PROVE /\ Free(N) \in Seq(NameType) /\ Len(Free(N)) = Len(names)
        /\ \A n \in 1 .. Len(names) :
             Free(N)[n].freed = IF n \in N THEN names[n].freed + 1 ELSE names[n].freed
<1>1. DOMAIN names = 1 .. Len(names) /\ DOMAIN Free(N) = 1 .. Len(names)
  BY LenProperties DEF Free
<1>2. ASSUME NEW n \in 1 .. Len(names)
      PROVE /\ Free(N)[n] \in NameType
            /\ Free(N)[n].freed =
                 IF n \in N THEN names[n].freed + 1 ELSE names[n].freed
  <2>1. names[n] \in NameType BY ElementOfSeq
  <2>2. CASE n \in N
    <3>1. Free(N)[n] = [names[n] EXCEPT !.freed = @ + 1]
      BY <1>1, <2>2, Zenon DEF Free
    <3> QED BY <2>1, <2>2, <3>1, FreedOne
  <2>3. CASE n \notin N
    <3>1. Free(N)[n] = names[n] BY <1>1, <2>3, Zenon DEF Free
    <3> QED BY <2>1, <2>3, <3>1
  <2> QED BY <2>2, <2>3
<1>3. Free(N) = [n \in DOMAIN names |-> Free(N)[n]] BY Zenon DEF Free
<1> QED BY <1>2, <1>3, Mapped

LEMMA Advanced ==
  ASSUME buffers \in Seq(BufferType), current \in 1 .. Len(buffers)
  PROVE /\ Advance \in Seq(BufferType) /\ Len(Advance) = Len(buffers)
        /\ \A b \in 1 .. Len(buffers) :
             /\ Advance[b].name = buffers[b].name
             /\ Advance[b].stream = buffers[b].stream
             /\ Advance[b].deleted = buffers[b].deleted
<1> DEFINE c == [buffers[current] EXCEPT !.next = @ + 1]
<1>1. buffers[current] \in BufferType BY ElementOfSeq
<1>2. /\ c \in BufferType /\ c.name = buffers[current].name
      /\ c.stream = buffers[current].stream /\ c.deleted = buffers[current].deleted
  BY <1>1, Updated
<1>3. Advance = [buffers EXCEPT ![current] = c] BY Zenon DEF Advance
<1> HIDE DEF c
<1> QED BY <1>2, <1>3, ExceptSeq

LEMMA NewBuffer ==
  ASSUME NEW f \in Files, NEW nm \in OrNull(Nat), NEW s \in OrNull(Nat)
  PROVE /\ Buffer(f, nm, s) \in BufferType
        /\ Buffer(f, nm, s).name = nm /\ Buffer(f, nm, s).stream = s
        /\ Buffer(f, nm, s).deleted = 0
  BY DEF Buffer, BufferType

LEMMA Pushed ==
  ASSUME NEW S, NEW s \in Seq(S), NEW x \in S
  PROVE /\ Append(s, x) \in Seq(S) /\ Len(Append(s, x)) = Len(s) + 1
        /\ \A i \in 1 .. Len(s) : Append(s, x)[i] = s[i]
        /\ Append(s, x)[Len(s) + 1] = x
  OBVIOUS

LEMMA Popped ==
  ASSUME NEW S, NEW s \in Seq(S), s # <<>>
  PROVE /\ Front(s) \in Seq(S) /\ Len(Front(s)) = Len(s) - 1 /\ Len(s) > 0
        /\ \A i \in 1 .. Len(s) - 1 : Front(s)[i] = s[i]
<1> DEFINE n == Len(s) - 1
<1>1. Len(s) \in Nat \ {0} BY EmptySeq
<1>2. n \in Nat /\ n - 1 + 1 = n /\ 1 \in Int /\ n \in Int BY <1>1
<1>3. \A i \in 1 .. n : s[i] \in S BY <1>1, ElementOfSeq
<1> HIDE DEF n
<1>4. /\ SubSeq(s, 1, n) \in Seq(S)
      /\ Len(SubSeq(s, 1, n)) = IF 1 <= n THEN n - 1 + 1 ELSE 0
      /\ \A i \in 1 .. n - 1 + 1 : SubSeq(s, 1, n)[i] = s[1 + i - 1]
  BY <1>2, <1>3, SubSeqProperties
<1>5. Len(SubSeq(s, 1, n)) = n /\ \A i \in 1 .. n : SubSeq(s, 1, n)[i] = s[i]
  BY <1>2, <1>4
<1>6. Front(s) = SubSeq(s, 1, n) BY DEF Front, n
<1> QED BY <1>1, <1>4, <1>5, <1>6 DEF n

(* What the members of a sequence are.                                     *)
LEMMA Members ==
  ASSUME NEW S, NEW s \in Seq(S), NEW x
  PROVE x \in ToSet(s) <=> \E i \in 1 .. Len(s) : s[i] = x
  BY LenProperties DEF ToSet

(* What ReadInv says of indices.                                           *)
LEMMA Known ==
  ASSUME ReadInv
  PROVE /\ frames \in Seq(FrameType) /\ streams \in Seq(Nat)
        /\ buffers \in Seq(BufferType) /\ names \in Seq(NameType)
        /\ Len(frames) \in Nat /\ Len(streams) \in Nat /\ Len(buffers) \in Nat
        /\ Len(names) \in Nat
        /\ Ids(frames) = 1 .. Len(frames) /\ Ids(streams) = 1 .. Len(streams)
        /\ Ids(buffers) = 1 .. Len(buffers) /\ Ids(names) = 1 .. Len(names)
        /\ pc # "idle" => current \in 1 .. Len(buffers)
  BY LenProperties DEF ReadInv, HeapTypeOK, BufferInv, BuffersAreMade, Ids

LEMMA Levels ==
  ASSUME ReadInv
  PROVE /\ CurrentFilename(frames) = NameAt(Len(frames))
        /\ Len(frames) \in Nat
        /\ \A i \in 0 .. Len(frames) : NameAt(i) \in OrNull(ToSet(Owner))
<1>1. frames \in Seq(FrameType) /\ Len(frames) \in Nat
  BY DEF ReadInv, HeapTypeOK
<1>2. frames # <<>> <=> Len(frames) # 0 BY <1>1
<1>3. CurrentFilename(frames) = NameAt(Len(frames))
  BY <1>1, <1>2 DEF CurrentFilename, NameAt
<1>4. ASSUME NEW i \in 0 .. Len(frames) PROVE NameAt(i) \in OrNull(ToSet(Owner))
  <2>1. CASE i = 0 BY <2>1 DEF NameAt, ReadInv, NameInv, NamesAreKnown
  <2>2. CASE i # 0
    <3>1. i \in Ids(frames) BY <1>1, <2>2, LenProperties DEF Ids
    <3> QED BY <2>2, <3>1 DEF NameAt, ReadInv, NameInv, NamesAreKnown, OrNull
  <2> QED BY <2>1, <2>2
<1> QED BY <1>1, <1>3, <1>4

-----------------------------------------------------------------------------
(* Steps that leave the heap alone, and the calls of the program.          *)

LEMMA InitEstablishes ==
  ASSUME Init
  PROVE ReadInv
<1>1. /\ pc = "idle" /\ streams = <<>> /\ buffers = <<>> /\ current = NULL
      /\ frames = <<>> /\ names = <<>> /\ ctxNames = <<>> /\ filenames = <<>>
      /\ sources = {} /\ top = [stream |-> NULL, name |-> NULL]
  BY DEF Init
<1>2. top \in [stream : OrNull(Nat), name : OrNull(Nat)] BY <1>1 DEF OrNull
<1>3. top.stream = NULL /\ top.name = NULL BY <1>1
<1>4. HeapTypeOK /\ ContextOfARead BY <1>1, <1>2, <1>3 DEF HeapTypeOK, ContextOfARead
<1>5. StreamInv
  BY <1>1, <1>3 DEF StreamInv, StreamsAreMade, StreamsClosedOnce, OrNull, Ids
<1>6. BufferInv
  BY <1>1 DEF BufferInv, BuffersAreMade, BuffersDeletedOnce, Ids
<1>7. NameInv
  BY <1>1, <1>3
     DEF NameInv, NamesAreOwned, NamesAreKnown, Owner, OrNull, IsInjective, Ids
<1> QED BY <1>1, <1>4, <1>5, <1>6, <1>7 DEF ReadInv, LevelsAgree

(* The heap stays, and the read goes on or fails.                          *)
Quiet ==
  /\ UNCHANGED <<heap, filenames, sources>>
  /\ pc' = pc \/ (pc = "scan" /\ pc' = "failed")

LEMMA QuietPreserves ==
  ASSUME ReadInv, Quiet
  PROVE ReadInv'
<1>1. /\ UNCHANGED <<streams, buffers, current, frames, top, names, ctxNames,
                     filenames, sources>>
      /\ pc' = pc \/ (pc = "scan" /\ pc' = "failed")
  BY DEF Quiet, heap
<1>2. HeapTypeOK' /\ ContextOfARead'
  BY <1>1 DEF ReadInv, HeapTypeOK, ContextOfARead
<1>3. StreamInv'
  BY <1>1 DEF ReadInv, StreamInv, StreamsAreMade, StreamsClosedOnce, OpenStreams
<1>4. BufferInv'
  BY <1>1 DEF ReadInv, BufferInv, BuffersAreMade, BuffersDeletedOnce
<1>5. Owner' = Owner BY <1>1 DEF Owner
<1>6. NameInv'
  BY <1>1, <1>5 DEF ReadInv, NameInv, NamesAreOwned, NamesAreKnown
<1>7. LevelsAgree'
  BY <1>1 DEF ReadInv, LevelsAgree, NameAt, StreamAt, BufferAt
<1> QED BY <1>2, <1>3, <1>4, <1>6, <1>7 DEF ReadInv

(* config_clear() and config_destroy(): every name goes.                   *)
LEMMA ClearPreserves ==
  ASSUME ReadInv, ConfigClear \/ ConfigDestroy
  PROVE ReadInv'
<1>1. /\ pc = "idle" /\ names' = Free(ToSet(filenames))
      /\ filenames' = <<>> /\ sources' = {}
      /\ UNCHANGED <<pc, streams, buffers, current, frames, top, ctxNames>>
  BY DEF ConfigClear, ConfigDestroy, Call
<1>2. /\ names \in Seq(NameType) /\ filenames \in Seq(Nat)
      /\ frames = <<>> /\ top.name = NULL
  BY <1>1 DEF ReadInv, HeapTypeOK, ContextOfARead
<1>3. HeapTypeOK' /\ ContextOfARead'
  BY <1>1, <1>2, Freed DEF ReadInv, HeapTypeOK, ContextOfARead
<1>4. StreamInv' /\ BufferInv' /\ LevelsAgree'
  BY <1>1 DEF ReadInv, StreamInv, StreamsAreMade, StreamsClosedOnce, OpenStreams,
              BufferInv, BuffersAreMade, BuffersDeletedOnce, LevelsAgree
<1>5. Owner' = <<>> /\ ToSet(Owner') = {} BY <1>1 DEF Owner, ToSet
<1>6. NamesAreOwned'
  <2>1. \A n \in 1 .. Len(names) : names'[n].freed = 1
    BY <1>1, <1>2, Freed DEF ReadInv, NameInv, NamesAreOwned, Owner
  <2>2. Len(names') = Len(names) BY <1>1, <1>2, Freed
  <2> QED BY <1>5, <2>1, <2>2 DEF NamesAreOwned, IsInjective
<1>7. NamesAreKnown' BY <1>1, <1>2, <1>5 DEF NamesAreKnown, OrNull, Ids
<1> QED BY <1>3, <1>4, <1>6, <1>7 DEF ReadInv, NameInv

LEMMA StartPreserves ==
  ASSUME ReadInv, pc = "idle", NEW f \in Files, NEW stream, NEW nm,
         StartRead(f, stream, nm),
         \/ stream = NULL /\ nm = NULL
         \/ stream = 1 /\ nm = Len(names) + 1
  PROVE ReadInv'
<1>1. /\ pc' = "scan" /\ current' = 1 /\ frames' = <<>> /\ filenames' = <<>>
      /\ streams' = (IF stream = NULL THEN <<>> ELSE <<0>>)
      /\ buffers' = <<Buffer(f, nm, stream)>>
      /\ top' = [stream |-> stream, name |-> nm]
      /\ names' = (IF nm = NULL THEN Free(ToSet(filenames))
                   ELSE Append(Free(ToSet(filenames)), Name(f)))
      /\ ctxNames' = (IF nm = NULL THEN <<>> ELSE <<nm>>)
      /\ sources' = {nm}
  BY DEF StartRead
<1>2. names \in Seq(NameType) /\ Len(names) \in Nat /\ filenames \in Seq(Nat)
  BY DEF ReadInv, HeapTypeOK
<1>3. stream \in OrNull({1}) /\ nm \in OrNull({Len(names) + 1}) BY DEF OrNull
<1>4. stream \in OrNull(Nat) /\ nm \in OrNull(Nat) BY <1>2, <1>3 DEF OrNull
<1>5. nm = NULL <=> nm # Len(names) + 1 BY <1>2, <1>3, NullIsNoNumber DEF OrNull
<1>6. top'.stream = stream /\ top'.name = nm BY <1>1
<1> DEFINE freed == Free(ToSet(filenames))
<1>7. /\ freed \in Seq(NameType) /\ Len(freed) = Len(names)
      /\ \A n \in 1 .. Len(names) : freed[n].freed = 1
  BY <1>2, Freed DEF ReadInv, NameInv, NamesAreOwned, Owner
<1>8. Name(f) \in NameType /\ Name(f).freed = 0 BY DEF Name, NameType
<1> HIDE DEF freed
<1>9. /\ names' \in Seq(NameType)
      /\ nm = NULL => Len(names') = Len(names)
      /\ nm # NULL => Len(names') = Len(names) + 1 /\ names'[Len(names) + 1].freed = 0
      /\ \A n \in 1 .. Len(names) : names'[n].freed = 1
  <2>1. CASE nm = NULL BY <1>1, <1>7, <2>1 DEF freed
  <2>2. CASE nm # NULL
    <3>1. names' = Append(freed, Name(f)) BY <1>1, <2>2 DEF freed
    <3> QED BY <1>2, <1>7, <1>8, <2>2, <3>1, Pushed
  <2> QED BY <2>1, <2>2
<1>10. buffers' \in Seq(BufferType) /\ Len(buffers') = 1
  BY <1>1, <1>4, NewBuffer
<1>11. /\ buffers'[1].name = nm /\ buffers'[1].stream = stream
       /\ buffers'[1].deleted = 0
  BY <1>1, <1>4, NewBuffer
<1>12. HeapTypeOK'
  <2>1. streams' \in Seq(Nat) BY <1>1
  <2>2. top' \in [stream : OrNull(Nat), name : OrNull(Nat)] BY <1>1, <1>4
  <2>3. ctxNames' \in Seq(Nat) BY <1>1, <1>2, <1>5
  <2> QED BY <1>1, <1>9, <1>10, <2>1, <2>2, <2>3 DEF HeapTypeOK
<1>13. ContextOfARead' BY <1>1 DEF ContextOfARead
<1>14. StreamInv'
  <2>1. CASE stream = NULL
    BY <1>1, <1>6, <2>1
       DEF StreamInv, StreamsAreMade, StreamsClosedOnce, OpenStreams, OrNull, Ids
  <2>2. CASE stream # NULL
    <3>1. stream = 1 /\ streams' = <<0>> BY <1>1, <1>3, <2>2 DEF OrNull
    <3> QED BY <1>1, <1>6, <3>1
            DEF StreamInv, StreamsAreMade, StreamsClosedOnce, OpenStreams, OrNull, Ids
  <2> QED BY <2>1, <2>2
<1>15. BufferInv'
  BY <1>1, <1>10, <1>11 DEF BufferInv, BuffersAreMade, BuffersDeletedOnce, Ids
<1>16. NameInv'
  <2>1. Owner' = ctxNames' BY <1>1 DEF Owner
  <2>2. CASE nm = NULL
    <3>1. Owner' = <<>> /\ ToSet(Owner') = {} BY <1>1, <2>1, <2>2 DEF ToSet
    <3> QED BY <1>1, <1>6, <1>9, <2>2, <3>1
            DEF NameInv, NamesAreOwned, NamesAreKnown, OrNull, IsInjective, Ids
  <2>3. CASE nm # NULL
    <3>1. Owner' = <<nm>> /\ nm = Len(names) + 1 BY <1>1, <1>5, <2>1, <2>3
    <3>2. ToSet(Owner') = {nm} BY <3>1 DEF ToSet
    <3>3. Len(names') = nm /\ names'[nm].freed = 0 BY <1>9, <2>3, <3>1
    <3>4. NamesAreOwned'
      BY <1>2, <1>9, <3>1, <3>2, <3>3 DEF NamesAreOwned, IsInjective
    <3> QED BY <1>1, <1>6, <3>2, <3>4 DEF NameInv, NamesAreKnown, OrNull, Ids
  <2> QED BY <2>2, <2>3
<1>17. LevelsAgree'
  BY <1>1, <1>6, <1>11 DEF LevelsAgree, NameAt, StreamAt, BufferAt
<1> QED BY <1>12, <1>13, <1>14, <1>15, <1>16, <1>17 DEF ReadInv

-----------------------------------------------------------------------------
(* Scanning.                                                               *)

(* A line that changes nothing but the place in the buffer, and perhaps    *)
(* notes the name of the file.                                             *)
LEMMA AdvancePreserves ==
  ASSUME ReadInv, pc = "scan", buffers' = Advance,
         sources' = sources \/ sources' = sources \cup {CurrentFilename(frames)},
         UNCHANGED <<pc, streams, current, frames, top, names, ctxNames, filenames>>
  PROVE ReadInv'
<1>1. buffers \in Seq(BufferType) /\ current \in 1 .. Len(buffers)
  BY DEF ReadInv, HeapTypeOK, BufferInv, BuffersAreMade
<1>2. /\ buffers' \in Seq(BufferType) /\ Len(buffers') = Len(buffers)
      /\ \A b \in 1 .. Len(buffers) : /\ buffers'[b].name = buffers[b].name
                                      /\ buffers'[b].stream = buffers[b].stream
                                      /\ buffers'[b].deleted = buffers[b].deleted
  BY <1>1, Advanced
<1>3. HeapTypeOK' /\ ContextOfARead'
  BY <1>2 DEF ReadInv, HeapTypeOK, ContextOfARead
<1>4. StreamInv'
  BY DEF ReadInv, StreamInv, StreamsAreMade, StreamsClosedOnce, OpenStreams
<1>5. DOMAIN buffers = 1 .. Len(buffers) /\ DOMAIN buffers' = 1 .. Len(buffers)
  BY <1>1, <1>2, LenProperties
<1>6. BufferInv'
  BY <1>2, <1>5 DEF ReadInv, BufferInv, BuffersAreMade, BuffersDeletedOnce, Ids
<1>7. Owner' = Owner BY DEF Owner
<1>8. NameInv'
  <2>1. CurrentFilename(frames) \in OrNull(ToSet(Owner)) BY Levels
  <2> QED BY <1>7, <2>1 DEF ReadInv, NameInv, NamesAreOwned, NamesAreKnown
<1>9. LevelsAgree'
  <2>1. \A i \in 0 .. Len(frames) : BufferAt(i) \in 1 .. Len(buffers)
    <3>1. /\ \A i \in 1 .. Len(frames) : frames[i].parent \in 1 .. Len(buffers)
          /\ Len(frames) \in Nat
      BY Known DEF ReadInv, BufferInv, BuffersAreMade
    <3> QED BY <1>1, <3>1 DEF BufferAt
  <2> QED BY <1>2, <2>1 DEF ReadInv, LevelsAgree, NameAt, StreamAt, BufferAt
<1> QED BY <1>3, <1>4, <1>6, <1>8, <1>9 DEF ReadInv

(* The end of a read, with success or not.                                 *)
LEMMA ReleasePreserves ==
  ASSUME ReadInv, pc # "idle", frames = <<>>, Release
  PROVE ReadInv'
<1>1. /\ pc' = "idle" /\ buffers' = Delete({current}) /\ current' = NULL
      /\ streams' = Close({top.stream}, streams)
      /\ top' = [stream |-> NULL, name |-> NULL]
      /\ filenames' = ctxNames /\ ctxNames' = <<>>
      /\ UNCHANGED <<frames, names, sources>>
  BY DEF Release
<1>2. /\ streams \in Seq(Nat) /\ buffers \in Seq(BufferType)
      /\ current \in 1 .. Len(buffers)
  BY DEF ReadInv, HeapTypeOK, BufferInv, BuffersAreMade
<1>3. top'.stream = NULL /\ top'.name = NULL BY <1>1
<1>4. Len(frames') = 0 /\ Ids(frames') = {} BY <1>1 DEF Ids
<1>10. HeapTypeOK' /\ ContextOfARead'
  <2>1. top' \in [stream : OrNull(Nat), name : OrNull(Nat)] BY <1>1 DEF OrNull
  <2> QED BY <1>1, <1>2, <1>3, <2>1, Closed, Deleted
          DEF ReadInv, HeapTypeOK, ContextOfARead
<1>5. StreamInv'
  <2>1. \A s \in 1 .. Len(streams) : streams'[s] = 1
    BY <1>1, <1>2, Closed, LenProperties, NullIsNoNumber, SMTT(30)
       DEF ReadInv, StreamInv, StreamsClosedOnce, OpenStreams, OrNull, Ids
  <2>2. DOMAIN streams' = 1 .. Len(streams) BY <1>1, <1>2, Closed, LenProperties
  <2>3. OpenStreams' = {NULL} BY <1>1, <1>3 DEF OpenStreams, OrNull, Ids
  <2>4. \A s \in 1 .. Len(streams) : s # NULL BY <1>2, NullIsNoNumber
  <2>5. \A s \in Ids(streams') : streams'[s] = IF s \in OpenStreams' THEN 0 ELSE 1
    BY <2>1, <2>2, <2>3, <2>4 DEF Ids
  <2> QED BY <1>3, <1>4, <2>5 DEF StreamInv, StreamsAreMade, StreamsClosedOnce, OrNull
<1>6. BufferInv'
  <2>1. DOMAIN buffers' = 1 .. Len(buffers) /\ DOMAIN buffers = 1 .. Len(buffers)
    BY <1>1, <1>2, Deleted, LenProperties
  <2>2. \A b \in 1 .. Len(buffers) : buffers'[b].deleted = 1
    BY <1>1, <1>2, <2>1, Deleted
       DEF ReadInv, BufferInv, BuffersDeletedOnce, Ids
  <2>3. \A b \in 1 .. Len(buffers) : b # NULL BY <1>2, NullIsNoNumber
  <2>4. {frames'[i].parent : i \in Ids(frames')} = {} BY <1>4
  <2>5. \A b \in Ids(buffers') : buffers'[b].deleted = 1 /\ b # current'
    BY <1>1, <2>1, <2>2, <2>3 DEF Ids
  <2>6. BuffersAreMade' BY <1>1, <1>4 DEF BuffersAreMade
  <2>7. BuffersDeletedOnce' BY <1>4, <2>4, <2>5, Zenon DEF BuffersDeletedOnce
  <2> QED BY <2>6, <2>7 DEF BufferInv
<1>7. Owner' = Owner BY <1>1 DEF Owner
<1>8. NameInv'
  BY <1>1, <1>3, <1>7 DEF ReadInv, NameInv, NamesAreOwned, NamesAreKnown, OrNull
<1>9. LevelsAgree' BY <1>1 DEF LevelsAgree
<1> QED BY <1>10, <1>5, <1>6, <1>8, <1>9 DEF ReadInv

(* What is open, and what waits.                                           *)
LEMMA IsOpen ==
  ASSUME NEW s, s # NULL
  PROVE s \in OpenStreams <=> s = top.stream \/ \E i \in Ids(frames) : frames[i].stream = s
  BY DEF OpenStreams, OrNull

LEMMA PopPreserves ==
  ASSUME ReadInv, frames # <<>>, NEW b, PopInclude(b),
         \/ pc = "scan" /\ b = current /\ current' = Top.parent
         \/ pc = "failed" /\ b = Top.parent /\ current' = current
  PROVE ReadInv'
<1> DEFINE D == Len(frames)
<1>1. /\ frames' = Front(frames) /\ streams' = Close({frames[D].stream}, streams)
      /\ buffers' = Delete({b})
      /\ UNCHANGED <<pc, top, names, ctxNames, filenames, sources>>
  BY DEF PopInclude, Top, Depth
<1>2. \/ pc = "scan" /\ b = current /\ current' = frames[D].parent
      \/ pc = "failed" /\ b = frames[D].parent /\ current' = current
  BY DEF Top, Depth
<1>3. /\ frames' \in Seq(FrameType) /\ Len(frames') = D - 1 /\ D > 0 /\ D \in Nat
      /\ \A i \in 1 .. D - 1 : frames'[i] = frames[i]
  BY <1>1, Known, Popped
<1>4. Ids(frames') = 1 .. D - 1 /\ Ids(frames) = 1 .. D /\ D \in 1 .. D
  BY <1>3, Known, LenProperties DEF Ids
<1>14. \A i \in Ids(frames') : i \in Ids(frames) /\ frames'[i] = frames[i]
  BY <1>3, <1>4
<1>5. /\ streams' \in Seq(Nat) /\ Ids(streams') = 1 .. Len(streams)
      /\ Len(streams') = Len(streams)
      /\ \A s \in 1 .. Len(streams) :
           streams'[s] = IF s = frames[D].stream THEN streams[s] + 1 ELSE streams[s]
  BY <1>1, Known, Closed, LenProperties, SMTT(30) DEF Ids
<1>6. /\ buffers' \in Seq(BufferType) /\ Ids(buffers') = 1 .. Len(buffers)
      /\ Len(buffers') = Len(buffers)
      /\ \A c \in 1 .. Len(buffers) :
           /\ buffers'[c].name = buffers[c].name /\ buffers'[c].stream = buffers[c].stream
           /\ buffers'[c].deleted = IF c = b THEN buffers[c].deleted + 1
                                    ELSE buffers[c].deleted
  BY <1>1, Known, Deleted, LenProperties DEF Ids
<1>7. HeapTypeOK' /\ ContextOfARead'
  BY <1>1, <1>2, <1>3, <1>5, <1>6 DEF ReadInv, HeapTypeOK, ContextOfARead
<1>8. StreamInv'
  <2>1. StreamsAreMade'
    BY <1>1, <1>5, <1>14 DEF ReadInv, StreamInv, StreamsAreMade
  <2>2. ASSUME NEW s \in 1 .. Len(streams)
        PROVE streams'[s] = IF s \in OpenStreams' THEN 0 ELSE 1
    <3>1. s # NULL BY Known, NullIsNoNumber
    <3>2. /\ streams[s] = IF s \in OpenStreams THEN 0 ELSE 1
          /\ \A i, j \in 1 .. D : frames[i].stream = frames[j].stream =>
                i = j \/ frames[i].stream = NULL
          /\ frames[D].stream = top.stream => top.stream = NULL
      BY <1>4, Known DEF ReadInv, StreamInv, StreamsClosedOnce
    <3>3. s \in OpenStreams <=> s = top.stream \/ \E i \in 1 .. D : frames[i].stream = s
      BY <3>1, <1>4, IsOpen
    <3>4. s \in OpenStreams' <=>
            s = top.stream \/ \E i \in 1 .. D - 1 : frames[i].stream = s
      <4>1. OpenStreams' = OrNull({top.stream} \cup {frames'[i].stream : i \in 1 .. D - 1})
        BY <1>1, <1>4 DEF OpenStreams
      <4> QED BY <4>1, <3>1, <1>3 DEF OrNull
    <3>5. CASE s = frames[D].stream
      <4>1. s \in OpenStreams BY <3>3, <3>5, <1>4
      <4>2. s \notin OpenStreams' BY <1>3, <3>1, <3>2, <3>4, <3>5
      <4> QED BY <1>5, <3>2, <3>5, <4>1, <4>2
    <3>6. CASE s # frames[D].stream
      <4>1. s \in OpenStreams <=> s \in OpenStreams' BY <1>3, <3>3, <3>4, <3>6
      <4> QED BY <1>5, <3>2, <3>6, <4>1
    <3> QED BY <3>5, <3>6
  <2>3. StreamsClosedOnce'
    <3>1. /\ \A i, j \in Ids(frames) : frames[i].stream = frames[j].stream =>
                i = j \/ frames[i].stream = NULL
          /\ \A i \in Ids(frames) : frames[i].stream = top.stream => top.stream = NULL
      BY DEF ReadInv, StreamInv, StreamsClosedOnce
    <3>2. top' = top BY <1>1
    <3>3. \A s \in Ids(streams') : streams'[s] = IF s \in OpenStreams' THEN 0 ELSE 1
      BY <1>5, <2>2
    <3> QED BY <1>14, <3>1, <3>2, <3>3, Zenon DEF StreamsClosedOnce
  <2> QED BY <2>1, <2>3 DEF StreamInv
<1>9. /\ current \in 1 .. Len(buffers) /\ current \notin {frames[i].parent : i \in 1 .. D}
      /\ \A i \in 1 .. D : frames[i].parent \in 1 .. Len(buffers)
      /\ \A i, j \in 1 .. D : frames[i].parent = frames[j].parent => i = j
      /\ \A c \in 1 .. Len(buffers) : buffers[c].deleted =
           IF c = current \/ c \in {frames[i].parent : i \in 1 .. D} THEN 0 ELSE 1
  BY <1>2, <1>4, Known
     DEF ReadInv, BufferInv, BuffersAreMade, BuffersDeletedOnce
<1>10. BufferInv'
  <2>1. BuffersAreMade' BY <1>1, <1>2, <1>4, <1>6, <1>9, <1>14 DEF BuffersAreMade
  <2>2. {frames'[i].parent : i \in Ids(frames')} = {frames[i].parent : i \in 1 .. D - 1}
    BY <1>3, <1>4
  <2>3. current' \notin {frames[i].parent : i \in 1 .. D - 1}
    BY <1>2, <1>3, <1>9
  <2>4. \A i, j \in 1 .. D - 1 : frames'[i].parent = frames'[j].parent => i = j
    <3>1. ASSUME NEW i \in 1 .. D - 1, NEW j \in 1 .. D - 1,
                 frames'[i].parent = frames'[j].parent
          PROVE  i = j
      <4>1. i \in 1 .. D /\ j \in 1 .. D
        BY <1>3
      <4>2. frames[i].parent = frames[j].parent
        BY <1>3, <3>1
      <4> QED BY <1>9, <4>1, <4>2
    <3> QED BY <3>1
  <2>5. ASSUME NEW c \in 1 .. Len(buffers)
        PROVE buffers'[c].deleted =
                IF c = current' \/ c \in {frames[i].parent : i \in 1 .. D - 1}
                THEN 0 ELSE 1
    <3>1. c \in {frames[i].parent : i \in 1 .. D} <=>
            c \in {frames[i].parent : i \in 1 .. D - 1} \/ c = frames[D].parent
      BY <1>3
    <3>2. frames[D].parent \notin {frames[i].parent : i \in 1 .. D - 1}
      BY <1>3, <1>4, <1>9
    <3>3. frames[D].parent \in {frames[i].parent : i \in 1 .. D} BY <1>4
    <3> HIDE DEF D
    <3>4. CASE b = current /\ current' = frames[D].parent
      BY <1>6, <1>9, <3>1, <3>2, <3>3, <3>4
    <3>5. CASE b = frames[D].parent /\ current' = current
      BY <1>6, <1>9, <3>1, <3>2, <3>3, <3>5
    <3> QED BY <1>2, <3>4, <3>5
  <2>6. BuffersDeletedOnce'
    BY <1>4, <1>6, <2>2, <2>3, <2>4, <2>5, Zenon DEF BuffersDeletedOnce
  <2> QED BY <2>1, <2>6 DEF BufferInv
<1>11. Owner' = Owner BY <1>1 DEF Owner
<1>12. NameInv'
  BY <1>1, <1>11, <1>14 DEF ReadInv, NameInv, NamesAreOwned, NamesAreKnown
<1>13. LevelsAgree'
  <2> SUFFICES ASSUME pc = "scan", NEW i \in 0 .. D - 1
               PROVE /\ buffers'[BufferAt(i)'].name = NameAt(i)'
                     /\ buffers'[BufferAt(i)'].stream = StreamAt(i)'
    BY <1>1, <1>3 DEF LevelsAgree
  <2>1. i \in 0 .. D /\ (i # 0 => i \in 1 .. D - 1) /\ (i # D - 1 => i + 1 \in 1 .. D - 1)
    BY <1>3
  <2>2. NameAt(i)' = NameAt(i) /\ StreamAt(i)' = StreamAt(i)
    BY <1>1, <1>3, <2>1 DEF NameAt, StreamAt
  <2>3. BufferAt(i)' = BufferAt(i) /\ BufferAt(i) = frames[i + 1].parent
    BY <1>2, <1>3, <2>1 DEF BufferAt
  <2>4. BufferAt(i) \in 1 .. Len(buffers) BY <1>3, <1>9, <2>1, <2>3
  <2> QED BY <1>6, <2>1, <2>2, <2>3, <2>4 DEF ReadInv, LevelsAgree
<1> QED BY <1>7, <1>8, <1>10, <1>12, <1>13 DEF ReadInv

(* The next file of a list: the frame g takes the place of the top one.    *)
LEMMA Replaced ==
  ASSUME ReadInv, frames # <<>>, NEW g \in FrameType,
         frames' = [frames EXCEPT ![Depth] = g]
  PROVE /\ frames' \in Seq(FrameType) /\ Len(frames') = Len(frames)
        /\ Ids(frames') = 1 .. Len(frames) /\ Len(frames) \in 1 .. Len(frames)
        /\ frames'[Len(frames)] = g
        /\ \A i \in 1 .. Len(frames) : i # Len(frames) => frames'[i] = frames[i]
<1>1. frames \in Seq(FrameType) /\ Ids(frames) = 1 .. Len(frames) BY Known
<1>2. Depth = Len(frames) /\ Depth \in 1 .. Len(frames) BY <1>1 DEF Depth
<1>3. frames' = [frames EXCEPT ![Len(frames)] = g] BY <1>2
<1>4. /\ frames' \in Seq(FrameType) /\ Len(frames') = Len(frames)
      /\ \A i \in 1 .. Len(frames) : frames'[i] = IF i = Len(frames) THEN g ELSE frames[i]
  BY <1>1, <1>2, <1>3, ExceptSeq
<1>5. Ids(frames') = 1 .. Len(frames) BY <1>4, LenProperties DEF Ids
<1> QED BY <1>2, <1>4, <1>5

(* Its stream is closed, and the new one is open or NULL.                  *)
LEMMA StreamReplaced ==
  ASSUME ReadInv, frames # <<>>, NEW g \in FrameType, top' = top,
         frames' = [frames EXCEPT ![Depth] = g],
         \/ /\ g.stream = NULL
            /\ streams' = Close({Top.stream}, streams)
         \/ /\ g.stream = Len(streams) + 1
            /\ streams' = Append(Close({Top.stream}, streams), 0)
  PROVE StreamInv' /\ streams' \in Seq(Nat)
<1> DEFINE D == Len(frames)
           L == Len(streams)
           closed == Close({Top.stream}, streams)
<1>1. /\ Ids(frames') = 1 .. D /\ Ids(frames) = 1 .. D /\ D \in 1 .. D
      /\ frames'[D] = g /\ \A i \in 1 .. D : i # D => frames'[i] = frames[i]
  <2>1. Ids(frames) = 1 .. D BY Known
  <2> QED BY <2>1, Replaced
<1>2. Top = frames[D] BY DEF Top, Depth
<1>3. /\ closed \in Seq(Nat) /\ Len(closed) = L /\ L \in Nat
      /\ \A s \in 1 .. L :
           closed[s] = IF s = frames[D].stream THEN streams[s] + 1 ELSE streams[s]
  BY <1>2, Known, Closed
<1> HIDE DEF closed
<1>4. /\ streams' \in Seq(Nat)
      /\ \A s \in 1 .. L : streams'[s] = closed[s]
      /\ g.stream = NULL => Ids(streams') = 1 .. L /\ Len(streams') = L
      /\ g.stream # NULL =>
           /\ g.stream = L + 1 /\ Ids(streams') = 1 .. (L + 1)
           /\ Len(streams') = L + 1 /\ streams'[L + 1] = 0
  <2>1. L + 1 # NULL BY <1>3, NullIsNoNumber
  <2>2. CASE g.stream = NULL /\ streams' = closed
    BY <1>3, <2>2, LenProperties DEF Ids
  <2>3. CASE g.stream = L + 1 /\ streams' = Append(closed, 0)
    <3>1. /\ streams' \in Seq(Nat) /\ Len(streams') = L + 1
          /\ \A s \in 1 .. L : streams'[s] = closed[s]
          /\ streams'[L + 1] = 0
      BY <1>3, <2>3, Pushed
    <3> QED BY <2>1, <2>3, <3>1, LenProperties DEF Ids
  <2> QED BY <2>2, <2>3 DEF closed
<1>5. /\ \A s \in 1 .. L : streams[s] = IF s \in OpenStreams THEN 0 ELSE 1
      /\ \A i, j \in 1 .. D : frames[i].stream = frames[j].stream =>
            i = j \/ frames[i].stream = NULL
      /\ \A i \in 1 .. D : frames[i].stream = top.stream => top.stream = NULL
      /\ top.stream \in OrNull(1 .. L)
      /\ \A i \in 1 .. D : frames[i].stream \in OrNull(1 .. L)
  BY <1>1, Known DEF ReadInv, StreamInv, StreamsAreMade, StreamsClosedOnce
<1>6. OpenStreams' = OrNull({top.stream} \cup {frames'[i].stream : i \in 1 .. D})
  BY <1>1 DEF OpenStreams
<1>7. ASSUME NEW s \in 1 .. L
      PROVE streams'[s] = IF s \in OpenStreams' THEN 0 ELSE 1
  <2>1. s # NULL /\ s # g.stream
    BY <1>3, <1>4, NullIsNoNumber
  <2>2. s \in OpenStreams <=> s = top.stream \/ \E i \in 1 .. D : frames[i].stream = s
    BY <2>1, <1>1, IsOpen
  <2>3. s \in OpenStreams' <=>
          s = top.stream \/ \E i \in 1 .. D : i # D /\ frames[i].stream = s
    BY <1>1, <1>6, <2>1 DEF OrNull
  <2>4. CASE s = frames[D].stream
    <3>1. s \in OpenStreams BY <1>1, <2>2, <2>4
    <3>2. s \notin OpenStreams' BY <1>1, <1>5, <2>1, <2>3, <2>4
    <3> QED BY <1>3, <1>4, <1>5, <2>4, <3>1, <3>2
  <2>5. CASE s # frames[D].stream
    <3>1. s \in OpenStreams <=> s \in OpenStreams' BY <2>2, <2>3, <2>5
    <3> QED BY <1>3, <1>4, <1>5, <2>5, <3>1
  <2> QED BY <2>4, <2>5
<1>8. \A s \in Ids(streams') : streams'[s] = IF s \in OpenStreams' THEN 0 ELSE 1
  <2>1. CASE g.stream = NULL BY <1>4, <1>7, <2>1
  <2>2. CASE g.stream # NULL
    <3>1. L + 1 \in OpenStreams' BY <1>1, <1>4, <1>6, <2>2, SMTT(30) DEF OrNull
    <3>2. \A s \in Ids(streams') : s \in 1 .. L \/ s = L + 1 BY <1>3, <1>4, <2>2
    <3> QED BY <1>4, <1>7, <2>2, <3>1, <3>2
  <2> QED BY <2>1, <2>2
<1>9. \A i \in 1 .. D : i # D => frames[i].stream # g.stream \/ g.stream = NULL
  BY <1>3, <1>4, <1>5, NullIsNoNumber DEF OrNull
<1>10. top.stream # g.stream \/ g.stream = NULL
  BY <1>3, <1>4, <1>5, NullIsNoNumber DEF OrNull
<1>11. StreamsClosedOnce'
  <2>1. \A i, j \in 1 .. D : frames'[i].stream = frames'[j].stream =>
          i = j \/ frames'[i].stream = NULL
    BY <1>1, <1>5, <1>9
  <2>2. \A i \in 1 .. D : frames'[i].stream = top.stream => top.stream = NULL
    BY <1>1, <1>5, <1>10
  <2> QED BY <1>1, <1>8, <2>1, <2>2, Zenon DEF StreamsClosedOnce
<1>12. StreamsAreMade'
  <2>1. OrNull(1 .. L) \subseteq OrNull(1 .. Len(streams')) BY <1>3, <1>4 DEF OrNull
  <2>2. g.stream \in OrNull(1 .. Len(streams')) BY <1>3, <1>4 DEF OrNull
  <2> QED BY <1>1, <1>5, <2>1, <2>2 DEF StreamsAreMade
<1> QED BY <1>4, <1>11, <1>12 DEF StreamInv

LEMMA NextFilePreserves ==
  ASSUME ReadInv, NextFile
  PROVE ReadInv'
<1> DEFINE D == Len(frames)
           id == Top.files[Top.pos + 1]
           f == names[id].file
           s == Len(streams) + 1
           h == IF f \in present THEN s ELSE NULL
           g == [Top EXCEPT !.pos = @ + 1, !.stream = h]
<1>1. /\ pc = "scan" /\ frames # <<>> /\ Top.pos < Len(Top.files)
      /\ frames' = [frames EXCEPT ![Depth] = g]
      /\ UNCHANGED <<names, ctxNames, top, filenames, sources>>
  BY DEF NextFile, GiveUp
<1>2. \/ /\ f \in present /\ pc' = "scan"
         /\ streams' = Append(Close({Top.stream}, streams), 0)
         /\ buffers' = Append(Delete({current}), Buffer(f, id, s))
         /\ current' = Len(buffers) + 1
      \/ /\ f \notin present /\ pc' = "failed"
         /\ streams' = Close({Top.stream}, streams)
         /\ UNCHANGED <<buffers, current>>
  BY <1>1 DEF NextFile, GiveUp
<1>3. /\ D \in 1 .. D /\ Ids(frames) = 1 .. D /\ Top = frames[D] /\ Top \in FrameType
      /\ D \in Nat
  BY <1>1, Known, ElementOfSeq DEF Top, Depth
<1>4. /\ Top.pos \in Nat /\ Top.pos + 1 \in 1 .. Len(Top.files)
      /\ Top.files \in Seq(Nat) /\ Top.parent \in 1 .. Len(buffers)
      /\ \A j \in 1 .. Len(Top.files) : Top.files[j] \in ToSet(Owner)
  BY <1>1, <1>3, SMTT(30) DEF ReadInv, NameInv, NamesAreKnown, BufferInv, BuffersAreMade, FrameType
<1>5. id \in ToSet(Owner) /\ id \in 1 .. Len(names) /\ f \in Files /\ id \in Nat
  <2>1. id \in ToSet(Owner) BY <1>4
  <2>2. Owner \in Seq(Nat) BY DEF ReadInv, HeapTypeOK, Owner
  <2>3. id \in 1 .. Len(names) BY <2>1, <2>2, Members DEF ReadInv, NameInv, NamesAreOwned
  <2>4. names[id] \in NameType BY <2>3, Known, ElementOfSeq
  <2> QED BY <2>1, <2>3, <2>4, Known DEF NameType
<1>6. s \in Nat /\ h \in OrNull(Nat) BY Known DEF OrNull
<1>7. /\ g \in FrameType /\ g.files = Top.files /\ g.parent = Top.parent
      /\ g.pos = Top.pos + 1 /\ g.stream = h
  <2> DEFINE n == Top.pos + 1
  <2>1. n \in Nat BY <1>4
  <2> HIDE DEF n, h
  <2>2. /\ [Top EXCEPT !.pos = n, !.stream = h] \in FrameType
        /\ [Top EXCEPT !.pos = n, !.stream = h].files = Top.files
        /\ [Top EXCEPT !.pos = n, !.stream = h].parent = Top.parent
        /\ [Top EXCEPT !.pos = n, !.stream = h].pos = n
        /\ [Top EXCEPT !.pos = n, !.stream = h].stream = h
    BY <1>3, <1>6, <2>1 DEF FrameType
  <2> QED BY <2>2 DEF n
<1> HIDE DEF g
<1>8. /\ frames' \in Seq(FrameType) /\ Len(frames') = D /\ Ids(frames') = 1 .. D
      /\ frames'[D] = g /\ \A i \in 1 .. D : i # D => frames'[i] = frames[i]
  BY <1>1, <1>3, <1>7, Replaced
<1>9. StreamInv' /\ streams' \in Seq(Nat)
  <2>1. CASE f \in present
    BY <1>1, <1>2, <1>7, <2>1, StreamReplaced
  <2>2. CASE f \notin present
    BY <1>1, <1>2, <1>7, <2>2, StreamReplaced
  <2> QED BY <2>1, <2>2
<1> DEFINE parents == {frames[i].parent : i \in 1 .. D}
<1>10. /\ current \in 1 .. Len(buffers) /\ current \notin parents
       /\ \A i \in 1 .. D : frames[i].parent \in 1 .. Len(buffers)
       /\ \A i, j \in 1 .. D : frames[i].parent = frames[j].parent => i = j
       /\ \A b \in 1 .. Len(buffers) : buffers[b].deleted =
            IF b = current \/ b \in parents THEN 0 ELSE 1
  BY <1>1, <1>3, Known DEF ReadInv, BufferInv, BuffersAreMade, BuffersDeletedOnce
<1>11. /\ \A i \in 1 .. D : frames'[i].parent = frames[i].parent
       /\ {frames'[i].parent : i \in Ids(frames')} = parents
  BY <1>3, <1>7, <1>8
<1>12. Owner' = Owner BY <1>1, <1>2 DEF Owner
<1>13. NameInv'
  <2>1. NamesAreOwned' BY <1>1, <1>12 DEF ReadInv, NameInv, NamesAreOwned
  <2>2. ASSUME NEW i \in 1 .. D
        PROVE /\ frames'[i].pos \in 1 .. Len(frames'[i].files)
              /\ \A j \in 1 .. Len(frames'[i].files) : frames'[i].files[j] \in ToSet(Owner)
    <3>1. CASE i = D BY <1>4, <1>7, <1>8, <3>1
    <3>2. CASE i # D BY <1>3, <1>8, <3>2 DEF ReadInv, NameInv, NamesAreKnown
    <3> QED BY <3>1, <3>2
  <2>3. top.name \in OrNull(ToSet(Owner)) /\ sources \subseteq OrNull(ToSet(Owner))
    BY DEF ReadInv, NameInv, NamesAreKnown
  <2> QED BY <1>1, <1>8, <1>12, <2>1, <2>2, <2>3 DEF NameInv, NamesAreKnown
<1>14. ContextOfARead' BY <1>1, <1>2 DEF ReadInv, ContextOfARead
<1>15. CASE f \notin present
  <2>1. HeapTypeOK' BY <1>1, <1>2, <1>8, <1>9, <1>15 DEF ReadInv, HeapTypeOK
  <2>2. BufferInv'
    <3>1. BuffersAreMade' BY <1>2, <1>8, <1>10, <1>11, <1>15 DEF BuffersAreMade
    <3>2. UNCHANGED <<buffers, current>> BY <1>2, <1>15
    <3>3. Ids(buffers') = 1 .. Len(buffers) BY <3>2, Known
    <3>4. BuffersDeletedOnce'
      BY <1>8, <1>10, <1>11, <3>2, <3>3 DEF BuffersDeletedOnce
    <3> QED BY <3>1, <3>4 DEF BufferInv
  <2>3. LevelsAgree' BY <1>2, <1>15 DEF LevelsAgree
  <2> QED BY <1>9, <1>13, <1>14, <2>1, <2>2, <2>3 DEF ReadInv
<1>16. CASE f \in present
  <2> DEFINE deleted == Delete({current})
             new == Buffer(f, id, s)
             N == Len(buffers)
  <2>1. /\ new \in BufferType /\ new.name = id /\ new.stream = s /\ new.deleted = 0
    BY <1>5, <1>6, NewBuffer DEF OrNull
  <2>2. /\ deleted \in Seq(BufferType) /\ Len(deleted) = N /\ N \in Nat
        /\ \A b \in 1 .. N :
             /\ deleted[b].name = buffers[b].name /\ deleted[b].stream = buffers[b].stream
             /\ deleted[b].deleted =
                  IF b = current THEN buffers[b].deleted + 1 ELSE buffers[b].deleted
    BY Known, Deleted
  <2>3. buffers' = Append(deleted, new) /\ current' = N + 1 /\ pc' = "scan"
    BY <1>2, <1>16
  <2> HIDE DEF deleted, new
  <2>4. /\ buffers' \in Seq(BufferType) /\ Len(buffers') = N + 1
        /\ Ids(buffers') = 1 .. (N + 1)
        /\ \A b \in 1 .. N : buffers'[b] = deleted[b]
        /\ buffers'[N + 1] = new
    BY <2>1, <2>2, <2>3, Pushed, LenProperties DEF Ids
  <2>5. HeapTypeOK' BY <1>1, <1>8, <1>9, <2>3, <2>4 DEF ReadInv, HeapTypeOK
  <2>6. BufferInv'
    <3>1. BuffersAreMade'
      BY <1>8, <1>10, <1>11, <2>2, <2>3, <2>4, SMTT(30) DEF BuffersAreMade
    <3>2. N + 1 \notin parents BY <1>10, <2>2
    <3>3. ASSUME NEW b \in 1 .. (N + 1)
          PROVE buffers'[b].deleted = IF b = N + 1 \/ b \in parents THEN 0 ELSE 1
      <4>1. CASE b = N + 1 BY <2>1, <2>4, <4>1
      <4>2. CASE b # N + 1
        <5>1. b \in 1 .. N BY <2>2, <4>2
        <5> QED BY <1>10, <2>2, <2>4, <4>2, <5>1
      <4> QED BY <4>1, <4>2
    <3>4. \A i, j \in Ids(frames') : frames'[i].parent = frames'[j].parent => i = j
      BY <1>8, <1>10, <1>11
    <3>5. BuffersDeletedOnce'
      BY <1>11, <2>3, <2>4, <3>2, <3>3, <3>4, Zenon DEF BuffersDeletedOnce
    <3> QED BY <3>1, <3>5 DEF BufferInv
  <2>7. LevelsAgree'
    <3> SUFFICES ASSUME NEW i \in 0 .. D
                 PROVE /\ buffers'[BufferAt(i)'].name = NameAt(i)'
                       /\ buffers'[BufferAt(i)'].stream = StreamAt(i)'
      BY <1>8 DEF LevelsAgree
    <3>1. CASE i = D
      <4>1. BufferAt(i)' = N + 1 BY <1>8, <2>3, <3>1 DEF BufferAt
      <4>2. i # 0 /\ frames'[i] = g BY <1>3, <1>8, <3>1
      <4>3. NameAt(i)' = id BY <1>4, <1>7, <4>2 DEF NameAt
      <4>4. StreamAt(i)' = s BY <1>7, <1>16, <4>2 DEF StreamAt
      <4> QED BY <2>1, <2>4, <4>1, <4>3, <4>4
    <3>2. CASE i # D
      <4>1. i + 1 \in 1 .. D /\ (i # 0 => i \in 1 .. D) BY <1>3, <3>2
      <4>2. NameAt(i)' = NameAt(i) /\ StreamAt(i)' = StreamAt(i)
        <5>1. top' = top BY <1>1
        <5>2. i # 0 => frames'[i] = frames[i] BY <1>8, <3>2, <4>1
        <5> QED BY <5>1, <5>2, Zenon DEF NameAt, StreamAt
      <4>3. BufferAt(i)' = frames[i + 1].parent /\ BufferAt(i) = frames[i + 1].parent
        BY <1>8, <1>11, <3>2, <4>1 DEF BufferAt
      <4>4. /\ buffers[BufferAt(i)].name = NameAt(i)
            /\ buffers[BufferAt(i)].stream = StreamAt(i)
        BY <1>1 DEF ReadInv, LevelsAgree
      <4>5. frames[i + 1].parent \in 1 .. N BY <1>10, <4>1
      <4>6. /\ buffers'[frames[i + 1].parent].name = buffers[frames[i + 1].parent].name
            /\ buffers'[frames[i + 1].parent].stream = buffers[frames[i + 1].parent].stream
        BY <2>2, <2>4, <4>5, Zenon
      <4> QED BY <4>2, <4>3, <4>4, <4>6, Zenon
    <3> QED BY <3>1, <3>2
  <2> QED BY <1>9, <1>13, <1>14, <2>5, <2>6, <2>7 DEF ReadInv
<1> QED BY <1>15, <1>16

(* The files of a list: their names are owned by the scan context.         *)
LEMMA NamesGrow ==
  ASSUME ReadInv, pc = "scan", pc' # "idle", NEW fs \in Seq(Files),
         names' = names \o [i \in 1 .. Len(fs) |-> Name(fs[i])],
         ctxNames' = ctxNames \o [i \in 1 .. Len(fs) |-> Len(names) + i]
  PROVE /\ NamesAreOwned' /\ names' \in Seq(NameType) /\ ctxNames' \in Seq(Nat)
        /\ \A x \in ToSet(Owner) : x \in ToSet(Owner')
        /\ \A i \in 1 .. Len(fs) : Len(names) + i \in ToSet(Owner')
<1> DEFINE M == Len(fs)
           N == Len(names)
           C == Len(ctxNames)
           made == [i \in 1 .. M |-> Name(fs[i])]
           ids == [i \in 1 .. M |-> N + i]
<1>1. M \in Nat /\ N \in Nat /\ C \in Nat /\ ctxNames \in Seq(Nat) /\ names \in Seq(NameType)
  BY DEF ReadInv, HeapTypeOK
<1>2. /\ ids \in Seq(Nat) /\ Len(ids) = M /\ \A i \in 1 .. M : ids[i] = N + i
  BY <1>1
<1>3. /\ made \in Seq(NameType) /\ Len(made) = M
      /\ \A i \in 1 .. M : made[i].freed = 0
  <2>1. \A i \in 1 .. M : Name(fs[i]) \in NameType /\ Name(fs[i]).freed = 0
    BY ElementOfSeq DEF Name, NameType
  <2> QED BY <1>1, <2>1
<1>4. names' = names \o made /\ ctxNames' = ctxNames \o ids OBVIOUS
<1> HIDE DEF made, ids
<1>5. /\ names' \in Seq(NameType) /\ Len(names') = N + M
      /\ \A n \in 1 .. N + M : names'[n] = IF n <= N THEN names[n] ELSE made[n - N]
  <2>1. /\ names \o made \in Seq(NameType) /\ Len(names \o made) = Len(names) + Len(made)
        /\ \A n \in 1 .. Len(names) + Len(made) :
             (names \o made)[n] = IF n <= Len(names) THEN names[n] ELSE made[n - Len(names)]
    BY <1>1, <1>3, ConcatProperties, ZenonT(60)
  <2>2. names' = names \o made BY <1>4
  <2> QED BY <1>3, <2>1, <2>2, Zenon
<1>6. /\ ctxNames' \in Seq(Nat) /\ Len(ctxNames') = C + M
      /\ \A k \in 1 .. C + M : ctxNames'[k] = IF k <= C THEN ctxNames[k] ELSE ids[k - C]
  BY <1>1, <1>2, <1>4, ConcatProperties, SMTT(30)
<1>7. Owner = ctxNames /\ Owner' = ctxNames' BY DEF Owner
<1>8. /\ \A k \in 1 .. C : ctxNames[k] \in 1 .. N
      /\ \A j, k \in 1 .. C : ctxNames[j] = ctxNames[k] => j = k
      /\ \A n \in 1 .. N : names[n].freed = IF n \in ToSet(ctxNames) THEN 0 ELSE 1
  BY <1>1, <1>7, LenProperties DEF ReadInv, NameInv, NamesAreOwned, IsInjective
<1>9. \A k \in 1 .. C + M : /\ k <= C => ctxNames'[k] = ctxNames[k]
                            /\ k > C => k - C \in 1 .. M /\ ctxNames'[k] = N + (k - C)
  BY <1>1, <1>2, <1>6
<1>10. \A k \in 1 .. C : k \in 1 .. C + M /\ ctxNames'[k] = ctxNames[k] BY <1>1, <1>9
<1>11. \A i \in 1 .. M : C + i \in 1 .. C + M /\ ctxNames'[C + i] = N + i
  <2> SUFFICES ASSUME NEW i \in 1 .. M
               PROVE C + i \in 1 .. C + M /\ ctxNames'[C + i] = N + i
    OBVIOUS
  <2>1. C + i \in 1 .. C + M /\ C + i > C /\ (C + i) - C = i BY <1>1
  <2> QED BY <1>9, <2>1
<1>12. \A x : x \in ToSet(ctxNames') <=> \E k \in 1 .. C + M : ctxNames'[k] = x
  BY <1>6, Members, ZenonT(60)
<1>13. \A x : x \in ToSet(ctxNames) <=> \E k \in 1 .. C : ctxNames[k] = x
  BY <1>1, Members
<1>14. \A k \in 1 .. C + M : ctxNames'[k] \in 1 .. N + M
  BY <1>1, <1>8, <1>9
<1>15. ASSUME NEW j \in 1 .. C + M, NEW k \in 1 .. C + M, ctxNames'[j] = ctxNames'[k]
       PROVE j = k
  <2>1. CASE j <= C /\ k <= C BY <1>1, <1>8, <1>9, <1>15, <2>1
  <2>2. CASE j > C /\ k > C BY <1>1, <1>9, <1>15, <2>2
  <2>3. CASE j <= C /\ k > C
    <3>1. ctxNames'[j] \in 1 .. N BY <1>1, <1>8, <1>9, <2>3
    <3>2. ctxNames'[k] > N BY <1>1, <1>9, <2>3
    <3> QED BY <1>1, <1>15, <3>1, <3>2
  <2>4. CASE j > C /\ k <= C
    <3>1. ctxNames'[k] \in 1 .. N BY <1>1, <1>8, <1>9, <2>4
    <3>2. ctxNames'[j] > N BY <1>1, <1>9, <2>4
    <3> QED BY <1>1, <1>15, <3>1, <3>2
  <2> QED BY <1>1, <2>1, <2>2, <2>3, <2>4
<1>16. ASSUME NEW n \in 1 .. N + M
       PROVE names'[n].freed = IF n \in ToSet(ctxNames') THEN 0 ELSE 1
  <2>1. CASE n <= N
    <3>1. n \in 1 .. N /\ names'[n] = names[n] BY <1>1, <1>5, <2>1
    <3>2. n \in ToSet(ctxNames') <=> n \in ToSet(ctxNames)
      <4>1. \A k \in 1 .. C + M : ctxNames'[k] = n => k \in 1 .. C
        BY <1>1, <1>9, <2>1
      <4> QED BY <1>10, <1>12, <1>13, <4>1
    <3> QED BY <1>8, <3>1, <3>2
  <2>2. CASE n > N
    <3>1. n - N \in 1 .. M /\ N + (n - N) = n /\ ~(n <= N) BY <1>1, <2>2
    <3>3. names'[n] = made[n - N] BY <1>5, <3>1
    <3>2. n \in ToSet(ctxNames') BY <1>11, <1>12, <3>1
    <3> QED BY <1>3, <3>1, <3>2, <3>3
  <2> QED BY <1>1, <2>1, <2>2
<1>17. NamesAreOwned'
  <2>1. IsInjective(ctxNames')
    <3>1. DOMAIN ctxNames' = 1 .. C + M BY <1>6, LenProperties
    <3> QED BY <1>15, <3>1 DEF IsInjective
  <2> QED BY <1>5, <1>6, <1>7, <1>14, <1>16, <2>1 DEF NamesAreOwned
<1>18. \A x \in ToSet(ctxNames) : x \in ToSet(ctxNames') BY <1>10, <1>12, <1>13
<1>19. \A i \in 1 .. M : N + i \in ToSet(ctxNames') BY <1>11, <1>12
<1> QED BY <1>5, <1>6, <1>7, <1>17, <1>18, <1>19

(* A larger owner knows what the smaller one knew.                         *)
LEMMA StillKnown ==
  ASSUME ReadInv, UNCHANGED <<frames, top, sources>>,
         \A x \in ToSet(Owner) : x \in ToSet(Owner')
  PROVE NamesAreKnown'
<1>1. /\ top.name \in OrNull(ToSet(Owner)) /\ sources \subseteq OrNull(ToSet(Owner))
      /\ \A i \in Ids(frames) :
           /\ frames[i].pos \in 1 .. Len(frames[i].files)
           /\ \A j \in 1 .. Len(frames[i].files) : frames[i].files[j] \in ToSet(Owner)
  BY DEF ReadInv, NameInv, NamesAreKnown
<1>2. top' = top /\ sources' = sources /\ frames' = frames OBVIOUS
<1>3. \A x \in OrNull(ToSet(Owner)) : x \in OrNull(ToSet(Owner')) BY DEF OrNull
<1> QED BY <1>1, <1>2, <1>3, Zenon DEF NamesAreKnown

LEMMA IncludePreserves ==
  ASSUME ReadInv, pc = "scan", NEW fs \in Seq(Files), fs # <<>>, IncludeFiles(fs)
  PROVE ReadInv'
<1> DEFINE M == Len(fs)
           ids == [i \in 1 .. M |-> Len(names) + i]
           s == Len(streams) + 1
           B == Len(buffers)
           D == Len(frames)
           fr == [files |-> ids, pos |-> 1, stream |-> s, parent |-> current]
           new == Buffer(fs[1], ids[1], s)
<1>1. names' = names \o [i \in 1 .. M |-> Name(fs[i])] /\ ctxNames' = ctxNames \o ids
  BY DEF IncludeFiles
<1>2. \/ /\ frames' = Append(frames, fr) /\ streams' = Append(streams, 0)
         /\ buffers' = Append(Advance, new) /\ current' = B + 1
         /\ UNCHANGED <<pc, top, filenames, sources>>
      \/ /\ pc' = "failed"
         /\ UNCHANGED <<streams, buffers, frames, current, top, filenames, sources>>
  BY DEF IncludeFiles, GiveUp
<1>3. pc' # "idle" BY <1>2
<1>4. /\ NamesAreOwned' /\ names' \in Seq(NameType) /\ ctxNames' \in Seq(Nat)
      /\ \A x \in ToSet(Owner) : x \in ToSet(Owner')
      /\ \A i \in 1 .. M : Len(names) + i \in ToSet(Owner')
  BY <1>1, <1>3, NamesGrow
<1>5. top' = top /\ filenames' = filenames /\ sources' = sources BY <1>2
<1>6. ContextOfARead' BY <1>3, <1>5 DEF ReadInv, ContextOfARead
<1>7. CASE /\ pc' = "failed"
           /\ UNCHANGED <<streams, buffers, frames, current, top, filenames, sources>>
  <2>1. HeapTypeOK' BY <1>4, <1>7 DEF ReadInv, HeapTypeOK
  <2>2. StreamInv' BY <1>7 DEF ReadInv, StreamInv, StreamsAreMade, StreamsClosedOnce, OpenStreams
  <2>3. BufferInv' BY <1>7 DEF ReadInv, BufferInv, BuffersAreMade, BuffersDeletedOnce
  <2>4. NamesAreKnown' BY <1>4, <1>7, StillKnown
  <2>5. LevelsAgree' BY <1>7 DEF LevelsAgree
  <2> QED BY <1>4, <1>6, <2>1, <2>2, <2>3, <2>4, <2>5 DEF ReadInv, NameInv
<1>8. CASE /\ frames' = Append(frames, fr) /\ streams' = Append(streams, 0)
           /\ buffers' = Append(Advance, new) /\ current' = B + 1
           /\ UNCHANGED <<pc, top, filenames, sources>>
  <2>1. /\ M \in Nat \ {0} /\ 1 \in 1 .. M /\ Len(names) \in Nat /\ s \in Nat /\ s # NULL
        /\ D \in Nat /\ B \in Nat /\ current \in 1 .. B /\ current \in Nat /\ B + 1 \in Nat
    <3>1. M \in Nat \ {0} BY EmptySeq
    <3>2. Len(names) \in Nat /\ s \in Nat /\ D \in Nat /\ B \in Nat /\ current \in 1 .. B
      BY Known
    <3> QED BY <3>1, <3>2, NullIsNoNumber
  <2>2. ids \in Seq(Nat) /\ Len(ids) = M /\ \A i \in 1 .. M : ids[i] = Len(names) + i
    BY <2>1
  <2>3. fs[1] \in Files /\ ids[1] \in Nat BY <2>1, <2>2, ElementOfSeq
  <2> HIDE DEF ids, s
  <2>4. /\ fr \in FrameType /\ fr.files = ids /\ fr.pos = 1 /\ fr.stream = s
        /\ fr.parent = current
    BY <2>1, <2>2 DEF FrameType, OrNull
  <2>5. /\ new \in BufferType /\ new.name = ids[1] /\ new.stream = s /\ new.deleted = 0
    BY <2>1, <2>3, NewBuffer, SMTT(30) DEF OrNull
  <2> HIDE DEF fr, new
  <2>6. /\ frames' \in Seq(FrameType) /\ Len(frames') = D + 1 /\ Ids(frames') = 1 .. D + 1
        /\ \A i \in 1 .. D : frames'[i] = frames[i]
        /\ frames'[D + 1] = fr
    BY <1>8, <2>4, Known, Pushed, LenProperties DEF Ids
  <2>7. /\ streams' \in Seq(Nat) /\ Len(streams') = s /\ Ids(streams') = 1 .. s
        /\ \A i \in 1 .. Len(streams) : streams'[i] = streams[i]
        /\ streams'[s] = 0
    BY <1>8, Known, Pushed, LenProperties DEF Ids, s
  <2>8. /\ Advance \in Seq(BufferType) /\ Len(Advance) = B
        /\ \A b \in 1 .. B : /\ Advance[b].name = buffers[b].name
                             /\ Advance[b].stream = buffers[b].stream
                             /\ Advance[b].deleted = buffers[b].deleted
    BY <2>1, Known, Advanced
  <2>9. /\ buffers' \in Seq(BufferType) /\ Len(buffers') = B + 1 /\ Ids(buffers') = 1 .. B + 1
        /\ \A b \in 1 .. B : buffers'[b] = Advance[b]
        /\ buffers'[B + 1] = new
    <3>1. buffers' = Append(Advance, new) BY <1>8
    <3> HIDE DEF Advance
    <3> QED BY <2>5, <2>8, <3>1, Pushed, LenProperties DEF Ids
  <2>10. \A b \in 1 .. B : /\ buffers'[b].name = buffers[b].name
                          /\ buffers'[b].stream = buffers[b].stream
                          /\ buffers'[b].deleted = buffers[b].deleted
    BY <2>8, <2>9
  <2>11. Ids(frames) = 1 .. D /\ Ids(streams) = 1 .. Len(streams) /\ Ids(buffers) = 1 .. B
    BY Known
  <2>12. \A i \in 1 .. D + 1 : i \in 1 .. D \/ i = D + 1 BY <2>1
  <2>13. pc' = "scan" BY <1>8
  <2>14. HeapTypeOK' BY <1>4, <1>5, <2>6, <2>7, <2>9, <2>13 DEF ReadInv, HeapTypeOK
  <2>15. StreamInv'
    <3>1. /\ \A i \in 1 .. Len(streams) : streams[i] = IF i \in OpenStreams THEN 0 ELSE 1
          /\ \A i, j \in 1 .. D : frames[i].stream = frames[j].stream =>
                i = j \/ frames[i].stream = NULL
          /\ \A i \in 1 .. D : frames[i].stream = top.stream => top.stream = NULL
          /\ top.stream \in OrNull(1 .. Len(streams))
          /\ \A i \in 1 .. D : frames[i].stream \in OrNull(1 .. Len(streams))
      BY <2>11 DEF ReadInv, StreamInv, StreamsAreMade, StreamsClosedOnce
    <3>2. /\ \A i \in 1 .. Len(streams) : i # s /\ i \in 1 .. s
          /\ \A i \in 1 .. s : i \in 1 .. Len(streams) \/ i = s
          /\ s \in 1 .. s
      BY <2>1, Known DEF s
    <3>3. OpenStreams' = OrNull({top.stream} \cup {frames'[i].stream : i \in 1 .. D + 1})
      BY <1>5, <2>6 DEF OpenStreams
    <3>4. OpenStreams' = OpenStreams \cup {s}
      <4>1. {frames'[i].stream : i \in 1 .. D + 1} = {frames[i].stream : i \in 1 .. D} \cup {s}
        <5>1. D + 1 \in 1 .. D + 1 /\ \A i \in 1 .. D : i \in 1 .. D + 1 BY <2>1
        <5> QED BY <2>4, <2>6, <2>12, <5>1
      <4> QED BY <3>3, <4>1, <2>11 DEF OpenStreams, OrNull
    <3>5. \A i \in Ids(streams') : streams'[i] = IF i \in OpenStreams' THEN 0 ELSE 1
      BY <2>7, <3>1, <3>2, <3>4
    <3>6. \A i \in 1 .. D : frames[i].stream # s BY <2>1, <3>1, <3>2 DEF OrNull
    <3>7. top.stream # s BY <2>1, <3>1, <3>2 DEF OrNull
    <3>8. \A i, j \in 1 .. D + 1 : frames'[i].stream = frames'[j].stream =>
            i = j \/ frames'[i].stream = NULL
      BY <2>4, <2>6, <2>12, <3>1, <3>6
    <3>9. \A i \in 1 .. D + 1 : frames'[i].stream = top.stream => top.stream = NULL
      BY <2>4, <2>6, <2>12, <3>1, <3>7
    <3>10. StreamsClosedOnce' BY <1>5, <2>6, <3>5, <3>8, <3>9, Zenon DEF StreamsClosedOnce
    <3>11. \A x \in OrNull(1 .. Len(streams)) : x \in OrNull(1 .. Len(streams'))
      BY <2>7, <3>2 DEF OrNull
    <3>12. \A i \in 1 .. D + 1 : frames'[i].stream \in OrNull(1 .. Len(streams'))
      BY <2>4, <2>6, <2>7, <2>12, <3>1, <3>2, <3>11 DEF OrNull
    <3>13. StreamsAreMade' BY <1>5, <2>6, <3>1, <3>11, <3>12, Zenon DEF StreamsAreMade
    <3> QED BY <3>10, <3>13 DEF StreamInv
  <2>16. BufferInv'
    <3> DEFINE parents == {frames[i].parent : i \in 1 .. D}
    <3>1. /\ current \notin parents
          /\ \A i \in 1 .. D : frames[i].parent \in 1 .. B
          /\ \A i, j \in 1 .. D : frames[i].parent = frames[j].parent => i = j
          /\ \A b \in 1 .. B : buffers[b].deleted =
               IF b = current \/ b \in parents THEN 0 ELSE 1
      BY <2>11 DEF ReadInv, BufferInv, BuffersAreMade, BuffersDeletedOnce
    <3>2. /\ \A b \in 1 .. B : b # B + 1 /\ b \in 1 .. B + 1
          /\ \A b \in 1 .. B + 1 : b \in 1 .. B \/ b = B + 1
          /\ B + 1 \in 1 .. B + 1
      BY <2>1
    <3>3. {frames'[i].parent : i \in 1 .. D + 1} = parents \cup {current}
      <4>1. D + 1 \in 1 .. D + 1 /\ \A i \in 1 .. D : i \in 1 .. D + 1 BY <2>1
      <4> QED BY <2>4, <2>6, <2>12, <4>1
    <3>4. B + 1 \notin parents \cup {current} BY <2>1, <3>1, <3>2
    <3>5. \A b \in 1 .. B + 1 : buffers'[b].deleted =
            IF b = B + 1 \/ b \in parents \cup {current} THEN 0 ELSE 1
      BY <2>5, <2>9, <2>10, <3>1, <3>2
    <3>6. \A i, j \in 1 .. D + 1 : frames'[i].parent = frames'[j].parent => i = j
      BY <2>4, <2>6, <2>12, <3>1
    <3>7. current' = B + 1 BY <1>8
    <3>8. BuffersDeletedOnce'
      BY <2>6, <2>9, <3>3, <3>4, <3>5, <3>6, <3>7, Zenon DEF BuffersDeletedOnce
    <3>9. \A i \in 1 .. D + 1 : frames'[i].parent \in 1 .. B + 1
      BY <2>1, <2>4, <2>6, <2>12, <3>1, <3>2
    <3>10. BuffersAreMade' BY <2>6, <2>9, <3>2, <3>7, <3>9, Zenon DEF BuffersAreMade
    <3> QED BY <3>8, <3>10 DEF BufferInv
  <2>17. NameInv'
    <3>1. /\ top.name \in OrNull(ToSet(Owner)) /\ sources \subseteq OrNull(ToSet(Owner))
          /\ \A i \in 1 .. D :
               /\ frames[i].pos \in 1 .. Len(frames[i].files)
               /\ \A j \in 1 .. Len(frames[i].files) : frames[i].files[j] \in ToSet(Owner)
      BY <2>11 DEF ReadInv, NameInv, NamesAreKnown
    <3>2. \A x \in OrNull(ToSet(Owner)) : x \in OrNull(ToSet(Owner')) BY <1>4 DEF OrNull
    <3>3. fr.pos \in 1 .. Len(fr.files) /\ \A j \in 1 .. Len(fr.files) : fr.files[j] \in ToSet(Owner')
      BY <1>4, <2>1, <2>2, <2>4
    <3>4. \A i \in 1 .. D + 1 :
            /\ frames'[i].pos \in 1 .. Len(frames'[i].files)
            /\ \A j \in 1 .. Len(frames'[i].files) : frames'[i].files[j] \in ToSet(Owner')
      BY <1>4, <2>6, <2>12, <3>1, <3>3
    <3>5. top'.name \in OrNull(ToSet(Owner')) /\ sources' \subseteq OrNull(ToSet(Owner'))
      BY <1>5, <3>1, <3>2
    <3>6. NamesAreKnown' BY <2>6, <3>4, <3>5, Zenon DEF NamesAreKnown
    <3> QED BY <1>4, <3>6 DEF NameInv
  <2>18. LevelsAgree'
    <3> SUFFICES ASSUME NEW i \in 0 .. D + 1
                 PROVE /\ buffers'[BufferAt(i)'].name = NameAt(i)'
                       /\ buffers'[BufferAt(i)'].stream = StreamAt(i)'
      BY <2>6 DEF LevelsAgree
    <3>1. CASE i = D + 1
      <4>1. i # 0 /\ frames'[i] = fr /\ i = Len(frames') BY <2>1, <2>6, <3>1
      <4>2. BufferAt(i)' = B + 1 BY <1>8, <4>1 DEF BufferAt
      <4>3. NameAt(i)' = ids[1] /\ StreamAt(i)' = s BY <2>4, <4>1, Zenon DEF NameAt, StreamAt
      <4> QED BY <2>5, <2>9, <4>2, <4>3
    <3>2. CASE i # D + 1
      <4>1. i \in 0 .. D /\ (i # 0 => i \in 1 .. D) /\ i # Len(frames')
        BY <2>1, <2>6, <3>2
      <4>2. NameAt(i)' = NameAt(i) /\ StreamAt(i)' = StreamAt(i)
        BY <1>5, <2>6, <4>1, Zenon DEF NameAt, StreamAt
      <4>3. BufferAt(i)' = BufferAt(i) /\ BufferAt(i) \in 1 .. B
        <5>1. CASE i = D
          BY <2>1, <2>4, <2>6, <4>1, <5>1 DEF BufferAt
        <5>2. CASE i # D
          <6>1. i + 1 \in 1 .. D BY <2>1, <4>1, <5>2
          <6> QED BY <2>6, <2>11, <4>1, <5>2, <6>1
                  DEF BufferAt, ReadInv, BufferInv, BuffersAreMade
        <5> QED BY <5>1, <5>2
      <4>4. buffers[BufferAt(i)].name = NameAt(i) /\ buffers[BufferAt(i)].stream = StreamAt(i)
        BY <4>1 DEF ReadInv, LevelsAgree
      <4> QED BY <2>10, <4>2, <4>3, <4>4
    <3> QED BY <3>1, <3>2
  <2> QED BY <1>6, <2>14, <2>15, <2>16, <2>17, <2>18 DEF ReadInv
<1> QED BY <1>2, <1>7, <1>8

-----------------------------------------------------------------------------
(* The theorems.                                                           *)

LEMMA ScanPreserves ==
  ASSUME ReadInv, ScanSetting \/ ScanBad \/ ScanInclude
  PROVE ReadInv'
<1>1. CASE ScanSetting BY <1>1, AdvancePreserves DEF ScanSetting
<1>2. CASE ScanBad
  <2>1. Quiet BY <1>2 DEF ScanBad, GiveUp, Quiet, heap
  <2> QED BY <2>1, QuietPreserves
<1>3. CASE ScanInclude
  <2> DEFINE r == IncludeFn[Line]
  <2>1. /\ pc = "scan" /\ Line \in IncludePaths
        /\ \/ \E text : IncludeRefused(text)
           \/ IncludeNothing
           \/ r.files # <<>> /\ IncludeFiles(r.files)
    BY <1>3, Zenon DEF ScanInclude
  <2>2. r.files \in Seq(Files) BY <2>1, ReadAssumption
  <2>3. CASE \E text : IncludeRefused(text)
    <3>1. Quiet BY <2>1, <2>3 DEF IncludeRefused, GiveUp, Quiet, heap
    <3> QED BY <3>1, QuietPreserves
  <2>4. CASE IncludeNothing BY <2>1, <2>4, AdvancePreserves DEF IncludeNothing
  <2>5. CASE r.files # <<>> /\ IncludeFiles(r.files) BY <2>1, <2>2, <2>5, IncludePreserves
  <2> QED BY <2>1, <2>3, <2>4, <2>5
<1> QED BY <1>1, <1>2, <1>3

LEMMA ProgramPreserves ==
  ASSUME ReadInv, Program
  PROVE ReadInv'
<1>1. ASSUME NEW f \in Files, ConfigReadFile(f) PROVE ReadInv'
  <2>1. CASE StartRead(f, 1, Len(names) + 1)
    BY <1>1, <2>1, StartPreserves DEF ConfigReadFile, Call
  <2>2. CASE IoError
    <3>1. Quiet BY <2>2 DEF IoError, Quiet, heap
    <3> QED BY <3>1, QuietPreserves
  <2> QED BY <1>1, <2>1, <2>2 DEF ConfigReadFile
<1>2. ASSUME NEW f \in Files, ConfigReadString(f) PROVE ReadInv'
  BY <1>2, StartPreserves DEF ConfigReadString, Call
<1>3. CASE ConfigWriteFile
  <2>1. Quiet BY <1>3 DEF ConfigWriteFile, IoError, Quiet, heap
  <2> QED BY <2>1, QuietPreserves
<1>4. CASE ConfigClear \/ ConfigDestroy BY <1>4, ClearPreserves
<1> QED BY <1>1, <1>2, <1>3, <1>4 DEF Program

LEMMA ReadStepPreserves ==
  ASSUME ReadInv, [Next]_vars
  PROVE ReadInv'
<1>1. CASE ScanSetting \/ ScanBad \/ ScanInclude BY <1>1, ScanPreserves
<1>2. CASE EndOfInput \/ ReturnFailure
  BY <1>2, ReleasePreserves DEF EndOfInput, ReturnFailure
<1>3. CASE NextFile BY <1>3, NextFilePreserves
<1>4. CASE EndOfInclude BY <1>4, PopPreserves DEF EndOfInclude
<1>5. CASE Unwind BY <1>5, PopPreserves DEF Unwind
<1>6. CASE Program BY <1>6, ProgramPreserves
<1>7. CASE FilesChange \/ UNCHANGED vars
  <2>1. Quiet BY <1>7 DEF FilesChange, vars, Quiet, heap
  <2> QED BY <2>1, QuietPreserves
<1> QED BY <1>1, <1>2, <1>3, <1>4, <1>5, <1>6, <1>7 DEF Next, Read

LEMMA ReadInvHolds == Spec => []ReadInv
  BY InitEstablishes, ReadStepPreserves, PTL DEF Spec

LEMMA NamesAreReleased ==
  ASSUME ReadInv
  PROVE NamesOwnedOnce /\ SourcesAreLive
<1>1. /\ Owner \in Seq(Nat) /\ ctxNames \o filenames = Owner
      /\ Ids(names) = 1 .. Len(names)
  <2>1. ctxNames \in Seq(Nat) /\ filenames \in Seq(Nat) BY DEF ReadInv, HeapTypeOK
  <2>2. CASE pc = "idle"
    BY <2>1, <2>2, Known, ConcatEmptySeq DEF ReadInv, ContextOfARead, Owner
  <2>3. CASE pc # "idle"
    BY <2>1, <2>3, Known, ConcatEmptySeq DEF ReadInv, ContextOfARead, Owner
  <2> QED BY <2>2, <2>3
<1>2. NamesOwnedOnce
  BY <1>1 DEF NamesOwnedOnce, ReadInv, NameInv, NamesAreOwned
<1>3. SourcesAreLive
  <2> SUFFICES ASSUME NEW n \in sources \ {NULL} PROVE names[n].freed = 0
    BY DEF SourcesAreLive
  <2>1. n \in ToSet(Owner) BY DEF ReadInv, NameInv, NamesAreKnown, OrNull
  <2>2. n \in 1 .. Len(names) BY <1>1, <2>1, Members DEF ReadInv, NameInv, NamesAreOwned
  <2> QED BY <2>1, <2>2 DEF ReadInv, NameInv, NamesAreOwned
<1> QED BY <1>2, <1>3

(* Whatever the files hold, however deeply they are included, at whatever  *)
(* line a read fails and whatever calls follow: every stream, scanner      *)
(* buffer and file name is released exactly once, and none while a frame   *)
(* or a setting still points to it (__config_read, lib/scanctx.c).         *)
THEOREM ReleasedOnce == Spec => []ResourcesReleasedOnce
<1>1. ReadInv => ResourcesReleasedOnce
  BY NamesAreReleased DEF ResourcesReleasedOnce, ReadInv, StreamInv, BufferInv
<1> QED BY <1>1, ReadInvHolds, PTL

(* libconfig_scanctx_current_filename() names the file whose text is being *)
(* scanned, from a stream that is open, after any nesting of @include.     *)
THEOREM CurrentFileIsScanned == Spec => []ScansTheCurrentFile
<1>1. ReadInv => ScansTheCurrentFile
  <2> SUFFICES ASSUME ReadInv, pc = "scan"
               PROVE /\ CurrentFilename(frames) = Here.name
                     /\ Here.stream \in OpenStreams
                     /\ Here.stream # NULL => streams[Here.stream] = 0
    BY DEF ScansTheCurrentFile
  <2> DEFINE D == Len(frames)
  <2>1. D \in Nat /\ Ids(frames) = 1 .. D /\ Ids(streams) = 1 .. Len(streams) BY Known
  <2>2. Here.name = NameAt(D) /\ Here.stream = StreamAt(D)
    BY <2>1 DEF ReadInv, LevelsAgree, BufferAt, Here
  <2>3. CurrentFilename(frames) = NameAt(D) BY Levels
  <2>4. StreamAt(D) = top.stream \/ \E i \in Ids(frames) : frames[i].stream = StreamAt(D)
    BY <2>1 DEF StreamAt
  <2>5. StreamAt(D) \in OpenStreams BY <2>4, IsOpen DEF OpenStreams, OrNull
  <2>6. StreamAt(D) # NULL => StreamAt(D) \in Ids(streams)
    BY <2>1, <2>4 DEF ReadInv, StreamInv, StreamsAreMade, OrNull
  <2>7. StreamAt(D) # NULL => streams[StreamAt(D)] = 0
    BY <2>5, <2>6 DEF ReadInv, StreamInv, StreamsClosedOnce
  <2> QED BY <2>2, <2>3, <2>5, <2>7
<1> QED BY <1>1, ReadInvHolds, PTL

-----------------------------------------------------------------------------
(* The error report.                                                       *)

(* The four fields of the config_t that keep it.                           *)
Whole(r) == r = [type |-> r.type, text |-> r.text, file |-> r.file, line |-> r.line]

LEMMA WholeRecords ==
  ASSUME NEW A, NEW B, NEW C, NEW D
  PROVE \A q \in [type : A, text : B, file : C, line : D] : Whole(q)
  BY DEF Whole

Filled(r, t, l) == [r EXCEPT !.text = t, !.line = l]
Named(r, k, f) == [r EXCEPT !.type = k, !.file = f]

LEMMA ReportFilled ==
  ASSUME NEW r, Whole(r), NEW t, NEW l
  PROVE Whole(Filled(r, t, l)) /\ Filled(r, t, l).text = t /\ Filled(r, t, l).line = l
<1> DEFINE R == [type : {r.type}, text : {r.text, t}, file : {r.file}, line : {r.line, l}]
<1>1. r \in R
  BY DEF Whole
<1>2. Filled(r, t, l) \in R /\ Filled(r, t, l).text = t /\ Filled(r, t, l).line = l
  BY <1>1 DEF Filled
<1> QED
  BY <1>2, WholeRecords

LEMMA ReportNamed ==
  ASSUME NEW r, Whole(r), NEW k, NEW f
  PROVE /\ Whole(Named(r, k, f)) /\ Named(r, k, f).type = k
        /\ Named(r, k, f).text = r.text
        /\ Named(r, k, f).file = f
        /\ Named(r, k, f).line = r.line
<1> DEFINE R == [type : {r.type, k}, text : {r.text}, file : {r.file, f}, line : {r.line}]
<1>1. r \in R
  BY DEF Whole
<1>2. /\ Named(r, k, f) \in R /\ Named(r, k, f).type = k
      /\ Named(r, k, f).text = r.text
      /\ Named(r, k, f).file = f
      /\ Named(r, k, f).line = r.line
  BY <1>1 DEF Named
<1> QED
  BY <1>2, WholeRecords

LEMMA ReportTyped ==
  ASSUME NEW r, Whole(r), NEW k, NEW t
  PROVE Whole([r EXCEPT !.type = k]) /\ Whole([r EXCEPT !.type = k, !.text = t])
<1> DEFINE R == [type : {r.type, k}, text : {r.text, t}, file : {r.file}, line : {r.line}]
<1>1. r \in R
  BY DEF Whole
<1>2. [r EXCEPT !.type = k] \in R /\ [r EXCEPT !.type = k, !.text = t] \in R
  BY <1>1
<1> QED
  BY <1>2, WholeRecords

(* The parser gives up after a report of the scanner or of yyerror.        *)
LEMMA GivenUp ==
  ASSUME Whole(error), NEW text, NEW report, NEW fs, GiveUp(report, fs),
         report = ScanError(text) \/ report = YyError(text)
  PROVE /\ Whole(error')
        /\ last' = Parsed(text) /\ error.text = NULL =>
             /\ error'.type = "PARSE" /\ error'.text = last'.text
             /\ error'.line = last'.line /\ error'.file = CurrentFilename(fs)
<1>1. error' = Named(report, "PARSE", CurrentFilename(fs))
  BY DEF GiveUp, Named
<1>2. CASE report = Filled(error, text, Here.next)
  <2>1. Whole(report) /\ report.text = text /\ report.line = Here.next
    BY <1>2, ReportFilled
  <2>2. /\ Whole(error') /\ error'.type = "PARSE" /\ error'.text = report.text
        /\ error'.line = report.line /\ error'.file = CurrentFilename(fs)
    BY <1>1, <2>1, ReportNamed
  <2>3. last' = Parsed(text) => last'.text = text /\ last'.line = Here.next
    BY DEF Parsed
  <2> QED
    BY <2>1, <2>2, <2>3, Zenon
<1>3. CASE report = error /\ error.text # NULL
  BY <1>1, <1>3, ReportNamed, Zenon
<1> QED
  BY <1>2, <1>3 DEF ScanError, YyError, Filled

(* The calls and steps that may end in a failure.                          *)
Fails ==
  \E text, report, fs :
    /\ GiveUp(report, fs)
    /\ report = ScanError(text) \/ report = YyError(text)
    /\ last' = Parsed(text)
    /\ fs = frames \/ (fs = frames' /\ frames' # frames)

LEMMA StepsThatFail ==
  ASSUME ReadInv, [Next]_vars
  PROVE Fails \/ (error' \in {error, NoError} \cup
                    {[error EXCEPT !.type = "NONE"],
                     [error EXCEPT !.type = "FILE_IO", !.text = "io"]}
                  /\ ~(pc = "scan" /\ pc' = "failed"))
<1>1. CASE ScanBad
  BY <1>1, Zenon DEF ScanBad, Fails
<1>2. CASE ScanInclude
  <2>1. CASE \E text : IncludeRefused(text)
    BY <2>1, Zenon DEF IncludeRefused, Fails
  <2>2. CASE IncludeNothing
    BY <2>2 DEF IncludeNothing
  <2>3. CASE IncludeFiles(IncludeFn[Line].files)
    <3>1. \/ /\ last' = Parsed("open")
             /\ GiveUp(ScanError("open"), frames)
          \/ error' = error /\ pc' = pc
      BY <2>3 DEF IncludeFiles
    <3> QED
      BY <3>1, Zenon DEF Fails
  <2> QED
    BY <1>2, <2>1, <2>2, <2>3, Zenon DEF ScanInclude
<1>3. CASE NextFile
  <2> DEFINE id == Top.files[Top.pos + 1]
             h == IF names[id].file \in present THEN Len(streams) + 1 ELSE NULL
             n == Top.pos + 1
             g == [Top EXCEPT !.pos = n, !.stream = h]
  <2>1. /\ frames # <<>>
        /\ frames' = [frames EXCEPT ![Depth] = g]
        /\ \/ /\ last' = Parsed("open")
              /\ GiveUp(ScanError("open"), frames')
           \/ error' = error /\ pc' = pc
    BY <1>3 DEF NextFile
  <2>2. /\ Top \in FrameType /\ Top = frames[Depth] /\ Depth \in 1 .. Len(frames)
        /\ frames \in Seq(FrameType)
    BY <2>1, Known, ElementOfSeq DEF Top, Depth
  <2>3. Top.pos \in Nat /\ n # Top.pos /\ DOMAIN frames = 1 .. Len(frames)
    BY <2>2, LenProperties DEF FrameType
  <2> HIDE DEF h, n
  <2>4. g.pos = n
    BY <2>2 DEF FrameType
  <2> HIDE DEF g
  <2>5. frames'[Depth] = g
    BY <2>1, <2>2, <2>3
  <2>6. frames' # frames
    BY <2>2, <2>3, <2>4, <2>5
  <2> QED
    BY <2>1, <2>6, Zenon DEF Fails
<1>4. CASE ScanSetting \/ EndOfInput \/ EndOfInclude \/ Unwind \/ ReturnFailure
  BY <1>4 DEF ScanSetting, EndOfInput, EndOfInclude, Unwind, ReturnFailure, Release,
              PopInclude
<1>5. CASE Program
  <2>1. ASSUME NEW f \in Files, ConfigReadFile(f) \/ ConfigReadString(f)
        PROVE /\ pc = "idle"
              /\ error' \in {error, [error EXCEPT !.type = "FILE_IO", !.text = "io"]}
    BY <2>1, Zenon DEF ConfigReadFile, ConfigReadString, StartRead, IoError, Call
  <2>2. CASE ConfigWriteFile
    BY <2>2, Zenon DEF ConfigWriteFile, IoError, Call
  <2>3. CASE ConfigClear \/ ConfigDestroy
    BY <2>3, Zenon DEF ConfigClear, ConfigDestroy, Call
  <2>4. pc = "idle" /\ error' \in {error, NoError} \cup
                    {[error EXCEPT !.type = "NONE"],
                     [error EXCEPT !.type = "FILE_IO", !.text = "io"]}
    <3>1. CASE ConfigWriteFile
      BY <3>1 DEF ConfigWriteFile, IoError, Call
    <3>2. CASE ConfigClear \/ ConfigDestroy
      BY <3>2 DEF ConfigClear, ConfigDestroy, Call
    <3> QED
      BY <1>5, <2>1, <3>1, <3>2 DEF Program
  <2> QED
    BY <2>4
<1>6. CASE FilesChange \/ UNCHANGED vars
  BY <1>6 DEF FilesChange, vars
<1> QED
  BY <1>1, <1>2, <1>3, <1>4, <1>5, <1>6 DEF Next, Read

LEMMA ReportStaysWhole ==
  ASSUME ReadInv, Whole(error), [Next]_vars
  PROVE Whole(error')
<1>1. CASE Fails
  BY <1>1, GivenUp, Zenon DEF Fails
<1>2. CASE error' \in {error, NoError} \cup
                    {[error EXCEPT !.type = "NONE"],
                     [error EXCEPT !.type = "FILE_IO", !.text = "io"]}
  <2>1. Whole(NoError)
    BY DEF Whole, NoError
  <2>2. /\ Whole([error EXCEPT !.type = "NONE"])
        /\ Whole([error EXCEPT !.type = "FILE_IO", !.text = "io"])
    BY ReportTyped, Zenon
  <2> QED
    BY <1>2, <2>1, <2>2, Zenon
<1> QED
  BY <1>1, <1>2, StepsThatFail, Zenon

(* A read that fails while no error is kept reports what went wrong, the   *)
(* line, and the file unless the next file of an include list could not be *)
(* opened (libconfig_yyerror, the include rules, __config_read).           *)
THEOREM FailuresAreReported == Spec => FailureIsReported
<1> DEFINE I == ReadInv /\ Whole(error)
           A == pc = "scan" /\ pc' = "failed" /\ error.text = NULL =>
                  /\ error'.type = "PARSE"
                  /\ error'.text = last'.text
                  /\ error'.line = last'.line
                  /\ frames' = frames => error'.file = last'.file
<1>1. Init => Whole(error)
  BY DEF Init, NoError, Whole
<1>2. I /\ [Next]_vars => I'
  BY ReadStepPreserves, ReportStaysWhole
<1>3. I /\ [Next]_vars => [A]_vars
  <2> SUFFICES ASSUME ReadInv, Whole(error), [Next]_vars,
                      pc = "scan", pc' = "failed", error.text = NULL
               PROVE  A
    OBVIOUS
  <2>1. PICK text, report, fs :
          /\ GiveUp(report, fs)
          /\ report = ScanError(text) \/ report = YyError(text)
          /\ last' = Parsed(text)
          /\ fs = frames \/ (fs = frames' /\ frames' # frames)
    BY StepsThatFail, Zenon DEF Fails
  <2>2. /\ error'.type = "PARSE" /\ error'.text = last'.text
        /\ error'.line = last'.line /\ error'.file = CurrentFilename(fs)
    BY <2>1, GivenUp, Zenon
  <2>3. CurrentFilename(frames) = Here.name
    <3>1. Len(frames) \in Nat
      BY Known
    <3>2. Here.name = NameAt(Len(frames))
      BY <3>1 DEF ReadInv, LevelsAgree, BufferAt, Here
    <3> QED
      BY <3>2, Levels
  <2>4. last'.file = Here.name
    BY <2>1 DEF Parsed
  <2> QED
    BY <2>1, <2>2, <2>3, <2>4, Zenon
<1>4. Init => I
  BY <1>1, InitEstablishes
<1> QED
  BY <1>2, <1>3, <1>4, PTL DEF Spec, FailureIsReported

-----------------------------------------------------------------------------
(***************************************************************************)
(* The text of a read.  TextOf(d, v) is what the files hold, d levels of   *)
(* @include deep, when v is what they hold one level less deep.            *)
(***************************************************************************)
Place == Files \X Nat
Texts == [Files -> Seq(Place)]

FilesOf(v, p) == [i \in Ids(IncludeFn[p].files) |-> v[IncludeFn[p].files[i]]]
ListOf(d, v, p) == IF d = 0 THEN <<>> ELSE FlattenSeq(FilesOf(v, p))
LineOf(d, v, f, n) == IF Text[f][n] = "setting" THEN <<<<f, n>>>>
                      ELSE IF Text[f][n] = "bad" THEN <<>>
                      ELSE ListOf(d, v, Text[f][n])
LinesOf(d, v, f) == [n \in Ids(Text[f]) |-> LineOf(d, v, f, n)]
TextOf(d, v) == [f \in Files |-> FlattenSeq(LinesOf(d, v, f))]

ExpansionBody(w) == [d \in 0 .. MaxIncludeDepth |-> TextOf(d, w[d - 1])]
ExpansionFun == CHOOSE w : w = ExpansionBody(w)

LEMMA FilesAreSequences ==
  ASSUME NEW v \in Texts, NEW p \in IncludePaths
  PROVE  /\ IncludeFn[p].files \in Seq(Files)
         /\ FilesOf(v, p) \in Seq(Seq(Place))
         /\ Len(FilesOf(v, p)) = Len(IncludeFn[p].files)
<1> DEFINE fs == IncludeFn[p].files
<1>1. fs \in Seq(Files)
  BY ReadAssumption
<1> HIDE DEF fs
<1>2. \A i \in 1 .. Len(fs) : fs[i] \in Files
  BY <1>1, ElementOfSeq
<1>3. Ids(fs) = 1 .. Len(fs) /\ Len(fs) \in Nat
  BY <1>1, LenProperties DEF Ids
<1> DEFINE w == [i \in 1 .. Len(fs) |-> v[fs[i]]]
<1>4. \A i \in 1 .. Len(fs) : v[fs[i]] \in Seq(Place)
  BY <1>2 DEF Texts
<1>5. w \in Seq(Seq(Place)) /\ Len(w) = Len(fs)
  BY <1>3, <1>4
<1>6. FilesOf(v, p) = w
  BY <1>3 DEF FilesOf, fs
<1> QED
  BY <1>1, <1>5, <1>6 DEF fs

LEMMA LinesAreSequences ==
  ASSUME NEW d \in Nat, NEW v, d # 0 => v \in Texts, NEW f \in Files
  PROVE  /\ Text[f] \in Seq(Lines)
         /\ LinesOf(d, v, f) \in Seq(Seq(Place))
         /\ Len(LinesOf(d, v, f)) = Len(Text[f])
         /\ \A n \in 1 .. Len(Text[f]) : LinesOf(d, v, f)[n] = LineOf(d, v, f, n)
         /\ FlattenSeq(LinesOf(d, v, f)) \in Seq(Place)
<1> DEFINE t == Text[f]
           w == [n \in 1 .. Len(t) |-> LineOf(d, v, f, n)]
<1>1. t \in Seq(Lines)
  BY ReadAssumption
<1>2. Ids(t) = 1 .. Len(t) /\ Len(t) \in Nat /\ \A n \in 1 .. Len(t) : t[n] \in Lines
  BY <1>1, LenProperties, ElementOfSeq DEF Ids
<1>3. ASSUME NEW n \in 1 .. Len(t)
      PROVE  LineOf(d, v, f, n) \in Seq(Place)
  <2>1. CASE t[n] = "setting"
    <3>1. <<f, n>> \in Place
      BY <1>2 DEF Place
    <3>2. LineOf(d, v, f, n) = <<<<f, n>>>>
      BY <2>1 DEF LineOf
    <3> QED
      BY <3>1, <3>2
  <2>2. CASE t[n] = "bad"
    <3>1. LineOf(d, v, f, n) = <<>>
      BY <2>2 DEF LineOf
    <3> QED
      BY <3>1
  <2>3. CASE t[n] # "setting" /\ t[n] # "bad"
    <3>1. t[n] \in IncludePaths
      BY <1>2, <2>3 DEF Lines
    <3>2. LineOf(d, v, f, n) = ListOf(d, v, t[n])
      BY <2>3 DEF LineOf
    <3>3. d # 0 => FlattenSeq(FilesOf(v, t[n])) \in Seq(Place)
      BY <3>1, FilesAreSequences, FlattenIsSeq
    <3> QED
      BY <3>2, <3>3 DEF ListOf
  <2> QED
    BY <2>1, <2>2, <2>3
<1>4. w \in Seq(Seq(Place)) /\ Len(w) = Len(t)
  BY <1>2, <1>3
<1>5. LinesOf(d, v, f) = w
  BY <1>2 DEF LinesOf
<1> HIDE DEF w
<1>6. FlattenSeq(w) \in Seq(Place)
  BY <1>4, FlattenIsSeq
<1> QED
  BY <1>1, <1>4, <1>5, <1>6 DEF w

LEMMA TextsAreSequences ==
  ASSUME NEW d \in Nat, NEW v, d # 0 => v \in Texts
  PROVE  TextOf(d, v) \in Texts
  BY LinesAreSequences DEF TextOf, Texts

(* The expansion exists, and unfolds.                                      *)
LEMMA ExpansionUnfolds ==
  /\ Expansion \in [0 .. MaxIncludeDepth -> Texts]
  /\ \A d \in 0 .. MaxIncludeDepth : Expansion[d] = TextOf(d, Expansion[d - 1])
<1> DEFINE M == MaxIncludeDepth
           a == TextOf(0, <<>>)
           comb == [dv \in (1 .. M) \X Texts |-> TextOf(dv[1], dv[2])]
<1>1. M \in Nat
  BY ReadAssumption
<1>2. a \in Texts
  BY TextsAreSequences
<1>3. \A d \in 1 .. M, v \in Texts : comb[<<d, v>>] = TextOf(d, v)
  BY Zenon
<1>4. \A d \in 1 .. M, v \in Texts : comb[<<d, v>>] \in Texts
  <2>1. \A d \in 1 .. M : d \in Nat
    BY <1>1
  <2> HIDE DEF comb, M
  <2> QED
    BY <1>3, <2>1, TextsAreSequences
<1>5. \A v : TextOf(0, v) = a
  BY DEF TextOf, LinesOf, LineOf, ListOf
<1> HIDE DEF M, a, comb
<1>6. PICK w \in [0 .. M -> Texts] : Counts(w, M, a, comb)
  BY <1>1, <1>2, <1>4, CountedExists, Zenon
<1>7. \A d \in 0 .. M : w[d] = TextOf(d, w[d - 1])
  <2>1. \A d \in 0 .. M : d = 0 \/ (d \in 1 .. M /\ d - 1 \in 0 .. M)
    BY <1>1
  <2>2. \A d \in 1 .. M : d - 1 \in 0 .. M => w[d] = TextOf(d, w[d - 1])
    BY <1>3, <1>6 DEF Counts
  <2>3. w[0] = a
    BY <1>6 DEF Counts
  <2> QED
    BY <1>5, <2>1, <2>2, <2>3, Zenon
<1>8. w = ExpansionBody(w)
  <2>1. w = [d \in 0 .. M |-> w[d]]
    BY <1>6
  <2> QED
    BY <1>7, <2>1, Zenon DEF ExpansionBody, M
<1>9. ExpansionFun = ExpansionBody(ExpansionFun)
  BY <1>8, Zenon DEF ExpansionFun
<1>10. Expansion = ExpansionFun
  BY Zenon DEF Expansion, ExpansionFun, ExpansionBody, TextOf, LinesOf, LineOf, ListOf, FilesOf
<1> DEFINE e == Expansion
<1>11. e = [d \in 0 .. M |-> TextOf(d, e[d - 1])]
  BY <1>9, <1>10, Zenon DEF ExpansionBody, M
<1> HIDE DEF e
<1>12. \A d \in 0 .. M : e[d] = TextOf(d, e[d - 1])
  BY <1>11, Zenon
<1>13. \A d \in 0 .. M : e[d] \in Texts
  <2> DEFINE T == {d \in 0 .. M : e[d] \in Texts}
  <2>1. 0 \in T
    BY <1>1, <1>2, <1>5, <1>12
  <2>2. ASSUME NEW d \in 1 .. M, d - 1 \in T PROVE d \in T
    <3>1. d \in Nat /\ d \in 0 .. M /\ e[d - 1] \in Texts
      BY <1>1, <2>2
    <3> QED
      BY <1>12, <3>1, TextsAreSequences
  <2>3. T \in SUBSET (0 .. M)
    OBVIOUS
  <2> HIDE DEF T
  <2>4. T = 0 .. M
    BY <1>1, <2>1, <2>2, <2>3, CountedSet
  <2> QED
    BY <2>4 DEF T
<1>14. e \in [0 .. M -> Texts]
  BY <1>11, <1>13
<1> QED
  BY <1>12, <1>14 DEF e, M

(***************************************************************************)
(* How far a read is: level i of D reads the file F[i], of which R[i] lines*)
(* are done, and that is the file P[i] of the list the level below is at.  *)
(***************************************************************************)
Room(i) == MaxIncludeDepth - i
PathIn(F, R, i) == Text[F[i]][R[i] + 1]
LinesIn(F, i) == LinesOf(Room(i), Expansion[Room(i) - 1], F[i])
ListIn(F, R, i) == IncludeFn[PathIn(F, R, i - 1)].files
FilesIn(F, R, i) == FilesOf(Expansion[Room(i)], PathIn(F, R, i - 1))

(* The settings that were delivered when level i got to its file, and those*)
(* when it got to its line.                                                *)
Before(F, R, P, done, i) ==
  IF i = 0 THEN <<>> ELSE done[i - 1] \o JoinedUpTo(FilesIn(F, R, i))[P[i] - 1]
Traced(D, F, R, P, done) ==
  \A i \in 0 .. D : done[i] = Before(F, R, P, done, i) \o JoinedUpTo(LinesIn(F, i))[R[i]]

Placed(D, F, R, P) ==
  /\ D \in 0 .. MaxIncludeDepth
  /\ \A i \in 0 .. D : F[i] \in Files /\ R[i] \in 0 .. Len(Text[F[i]])
  /\ \A i \in 1 .. D :
       /\ R[i - 1] < Len(Text[F[i - 1]])
       /\ PathIn(F, R, i - 1) \in IncludePaths
       /\ P[i] \in 1 .. Len(ListIn(F, R, i))
       /\ F[i] = ListIn(F, R, i)[P[i]]

Reads(D, F, R, P, out) ==
  /\ Placed(D, F, R, P)
  /\ \E done \in [0 .. D -> Seq(Place)] : Traced(D, F, R, P, done) /\ done[D] = out

(* What level i joins.                                                     *)
LEMMA LinesInJoin ==
  ASSUME NEW F, NEW i \in 0 .. MaxIncludeDepth, F[i] \in Files
  PROVE  /\ Text[F[i]] \in Seq(Lines) /\ Len(Text[F[i]]) \in Nat
         /\ JoinedUpTo(LinesIn(F, i)) \in [0 .. Len(Text[F[i]]) -> Seq(Place)]
         /\ JoinedUpTo(LinesIn(F, i))[0] = <<>>
         /\ \A n \in 1 .. Len(Text[F[i]]) :
              JoinedUpTo(LinesIn(F, i))[n] = JoinedUpTo(LinesIn(F, i))[n - 1]
                \o LineOf(Room(i), Expansion[Room(i) - 1], F[i], n)
         /\ JoinedUpTo(LinesIn(F, i))[Len(Text[F[i]])] = Expansion[Room(i)][F[i]]
         /\ \A n \in 1 .. Len(Text[F[i]]) :
              LineOf(Room(i), Expansion[Room(i) - 1], F[i], n) \in Seq(Place)
<1> DEFINE d == Room(i)
           v == Expansion[d - 1]
           f == F[i]
<1>1. d \in Nat /\ d \in 0 .. MaxIncludeDepth /\ f \in Files
  BY ReadAssumption DEF Room
<1>2. d # 0 => v \in Texts
  <2>1. d # 0 => d - 1 \in 0 .. MaxIncludeDepth
    BY <1>1, ReadAssumption
  <2> HIDE DEF d
  <2> QED
    BY <2>1, ExpansionUnfolds
<1>3. Expansion[d][f] = FlattenSeq(LinesOf(d, v, f))
  <2>1. Expansion[d] = TextOf(d, v)
    BY <1>1, ExpansionUnfolds
  <2> QED
    BY <1>1, <2>1 DEF TextOf
<1> HIDE DEF d, v, f
<1> DEFINE s == LinesOf(d, v, f)
<1>4. /\ Text[f] \in Seq(Lines) /\ s \in Seq(Seq(Place)) /\ Len(s) = Len(Text[f])
      /\ \A n \in 1 .. Len(Text[f]) : s[n] = LineOf(d, v, f, n)
  BY <1>1, <1>2, LinesAreSequences
<1>5. Len(Text[f]) \in Nat /\ \A n \in 1 .. Len(s) : s[n] \in Seq(Place)
  BY <1>4, ElementOfSeq, LenProperties
<1> HIDE DEF s
<1>6. /\ JoinedUpTo(s) \in [0 .. Len(s) -> Seq(Place)] /\ Joins(JoinedUpTo(s), s)
      /\ FlattenSeq(s) = JoinedUpTo(s)[Len(s)]
  BY <1>4, FlattenJoins
<1>7. /\ JoinedUpTo(s)[0] = <<>>
      /\ \A n \in 1 .. Len(s) : JoinedUpTo(s)[n] = JoinedUpTo(s)[n - 1] \o s[n]
  BY <1>6, Zenon DEF Joins
<1>8. \A n \in 1 .. Len(Text[f]) : JoinedUpTo(s)[n] = JoinedUpTo(s)[n - 1] \o LineOf(d, v, f, n)
  BY <1>4, <1>7, Zenon
<1>9. \A n \in 1 .. Len(Text[f]) : LineOf(d, v, f, n) \in Seq(Place)
  BY <1>4, <1>5, Zenon
<1>10. LinesIn(F, i) = s
  BY DEF LinesIn, s, d, v, f
<1>11. JoinedUpTo(s)[Len(Text[f])] = Expansion[d][f]
  BY <1>3, <1>4, <1>6 DEF s
<1>12. JoinedUpTo(s) \in [0 .. Len(Text[f]) -> Seq(Place)]
  BY <1>4, <1>6
<1> QED
  BY <1>4, <1>5, <1>7, <1>8, <1>9, <1>10, <1>11, <1>12, Zenon DEF d, v, f

LEMMA FilesInJoin ==
  ASSUME NEW F, NEW R, NEW i \in 1 .. MaxIncludeDepth,
         PathIn(F, R, i - 1) \in IncludePaths
  PROVE  /\ ListIn(F, R, i) \in Seq(Files) /\ Len(ListIn(F, R, i)) \in Nat
         /\ JoinedUpTo(FilesIn(F, R, i)) \in [0 .. Len(ListIn(F, R, i)) -> Seq(Place)]
         /\ JoinedUpTo(FilesIn(F, R, i))[0] = <<>>
         /\ \A n \in 1 .. Len(ListIn(F, R, i)) :
              /\ JoinedUpTo(FilesIn(F, R, i))[n] = JoinedUpTo(FilesIn(F, R, i))[n - 1]
                   \o Expansion[Room(i)][ListIn(F, R, i)[n]]
              /\ Expansion[Room(i)][ListIn(F, R, i)[n]] \in Seq(Place)
         /\ \A f, n : Text[f][n] = PathIn(F, R, i - 1) =>
              LineOf(Room(i - 1), Expansion[Room(i - 1) - 1], f, n)
                = JoinedUpTo(FilesIn(F, R, i))[Len(ListIn(F, R, i))]
<1> DEFINE p == PathIn(F, R, i - 1)
           fs == ListIn(F, R, i)
           v == Expansion[Room(i)]
           s == FilesIn(F, R, i)
<1>1. /\ Room(i) \in 0 .. MaxIncludeDepth /\ Room(i - 1) - 1 = Room(i) /\ Room(i - 1) # 0
  BY ReadAssumption DEF Room
<1>2. v \in Texts /\ p \in IncludePaths
  BY <1>1, ExpansionUnfolds
<1>3. fs \in Seq(Files) /\ s \in Seq(Seq(Place)) /\ Len(s) = Len(fs)
  BY <1>2, FilesAreSequences DEF ListIn, FilesIn
<1>4. /\ Ids(fs) = 1 .. Len(fs) /\ Len(fs) \in Nat
      /\ \A n \in 1 .. Len(fs) : fs[n] \in Files
  BY <1>3, LenProperties, ElementOfSeq DEF Ids
<1>5. \A n \in 1 .. Len(fs) : s[n] = v[fs[n]] /\ v[fs[n]] \in Seq(Place)
  BY <1>2, <1>4 DEF FilesIn, FilesOf, ListIn, Texts
<1>6. s = FilesOf(v, p)
  BY DEF FilesIn
<1>7. p # "setting" /\ p # "bad"
  BY <1>2, ReadAssumption
<1> HIDE DEF s, fs, p, v
<1>8. /\ JoinedUpTo(s) \in [0 .. Len(s) -> Seq(Place)] /\ Joins(JoinedUpTo(s), s)
      /\ FlattenSeq(s) = JoinedUpTo(s)[Len(s)]
  BY <1>3, FlattenJoins
<1>9. /\ JoinedUpTo(s)[0] = <<>>
      /\ \A n \in 1 .. Len(s) : JoinedUpTo(s)[n] = JoinedUpTo(s)[n - 1] \o s[n]
  BY <1>8, Zenon DEF Joins
<1>10. \A n \in 1 .. Len(fs) : JoinedUpTo(s)[n] = JoinedUpTo(s)[n - 1] \o v[fs[n]]
  BY <1>3, <1>5, <1>9, Zenon
<1>11. ASSUME NEW f, NEW n, Text[f][n] = p
       PROVE  LineOf(Room(i - 1), Expansion[Room(i - 1) - 1], f, n) = JoinedUpTo(s)[Len(fs)]
  <2>1. LineOf(Room(i - 1), Expansion[Room(i - 1) - 1], f, n)
          = ListOf(Room(i - 1), Expansion[Room(i - 1) - 1], p)
    BY <1>7, <1>11, Zenon DEF LineOf
  <2>2. ListOf(Room(i - 1), v, p) = FlattenSeq(s)
    BY <1>1, <1>6, Zenon DEF ListOf
  <2>3. Expansion[Room(i - 1) - 1] = v
    BY <1>1, Zenon DEF v
  <2> QED
    BY <1>3, <1>8, <2>1, <2>2, <2>3, Zenon
<1>12. JoinedUpTo(s) \in [0 .. Len(fs) -> Seq(Place)]
  BY <1>3, <1>8
<1> QED
  BY <1>3, <1>4, <1>5, <1>9, <1>10, <1>11, <1>12, Zenon DEF fs, p, v, s

SameLevel(F, R, P, done, F2, R2, P2, done2, i) ==
  /\ LinesIn(F2, i) = LinesIn(F, i)
  /\ Before(F2, R2, P2, done2, i) = Before(F, R, P, done, i)
  /\ i # 0 => /\ PathIn(F2, R2, i - 1) = PathIn(F, R, i - 1)
              /\ ListIn(F2, R2, i) = ListIn(F, R, i)

LEMMA LevelStays ==
  ASSUME NEW F, NEW R, NEW P, NEW done, NEW F2, NEW R2, NEW P2, NEW done2, NEW i,
         F2[i] = F[i],
         i # 0 => /\ F2[i - 1] = F[i - 1] /\ R2[i - 1] = R[i - 1] /\ P2[i] = P[i]
                  /\ done2[i - 1] = done[i - 1]
  PROVE  SameLevel(F, R, P, done, F2, R2, P2, done2, i)
<1>1. LinesIn(F2, i) = LinesIn(F, i)
  BY Zenon DEF LinesIn
<1>2. i # 0 => /\ PathIn(F2, R2, i - 1) = PathIn(F, R, i - 1)
               /\ ListIn(F2, R2, i) = ListIn(F, R, i)
               /\ FilesIn(F2, R2, i) = FilesIn(F, R, i)
  BY Zenon DEF PathIn, ListIn, FilesIn
<1>3. Before(F2, R2, P2, done2, i) = Before(F, R, P, done, i)
  BY <1>2, Zenon DEF Before
<1> QED
  BY <1>1, <1>2, <1>3, Zenon DEF SameLevel

LEMMA BeforeIsSeq ==
  ASSUME NEW D, NEW F, NEW R, NEW P, Placed(D, F, R, P),
         NEW done \in [0 .. D -> Seq(Place)], NEW i \in 0 .. D
  PROVE  Before(F, R, P, done, i) \in Seq(Place)
<1>1. CASE i = 0
  BY <1>1 DEF Before
<1>2. CASE i # 0
  <2>5. D \in 0 .. MaxIncludeDepth /\ i \in 1 .. D /\ MaxIncludeDepth \in Nat
    BY <1>2, ReadAssumption DEF Placed
  <2>1. /\ D \in 0 .. MaxIncludeDepth /\ i \in 1 .. D /\ MaxIncludeDepth \in Nat
        /\ P[i] \in 1 .. Len(ListIn(F, R, i)) /\ PathIn(F, R, i - 1) \in IncludePaths
    BY <2>5, Zenon DEF Placed
  <2>2. i \in 1 .. MaxIncludeDepth /\ done[i - 1] \in Seq(Place)
    BY <2>1
  <2>3. /\ Len(ListIn(F, R, i)) \in Nat
        /\ JoinedUpTo(FilesIn(F, R, i)) \in [0 .. Len(ListIn(F, R, i)) -> Seq(Place)]
    BY <2>1, <2>2, FilesInJoin
  <2>4. JoinedUpTo(FilesIn(F, R, i))[P[i] - 1] \in Seq(Place)
    BY <2>1, <2>3
  <2> QED
    BY <1>2, <2>2, <2>4 DEF Before
<1> QED
  BY <1>1, <1>2

(* A read begins.                                                          *)
LEMMA ReadsNothing ==
  ASSUME NEW F, NEW R, NEW P, F[0] \in Files, R[0] = 0
  PROVE  Reads(0, F, R, P, <<>>)
<1>1. Text[F[0]] \in Seq(Lines) /\ Len(Text[F[0]]) \in Nat
  BY ReadAssumption
<1>2. Placed(0, F, R, P)
  BY <1>1, ReadAssumption DEF Placed
<1>3. JoinedUpTo(LinesIn(F, 0))[0] = <<>>
  <2>1. 0 \in 0 .. MaxIncludeDepth
    BY ReadAssumption
  <2> QED
    BY <2>1, LinesInJoin, Zenon
<1> DEFINE done == [i \in 0 .. 0 |-> <<>>]
<1>4. done \in [0 .. 0 -> Seq(Place)] /\ done[0] = <<>>
  OBVIOUS
<1> HIDE DEF done
<1>5. Before(F, R, P, done, 0) \o JoinedUpTo(LinesIn(F, 0))[0] = <<>>
  BY <1>3 DEF Before
<1>6. Traced(0, F, R, P, done)
  BY <1>4, <1>5 DEF Traced
<1> QED
  BY <1>2, <1>4, <1>6 DEF Reads

(* One more line.                                                          *)
LEMMA ReadsALine ==
  ASSUME NEW D, NEW F, NEW R, NEW P, NEW out, Reads(D, F, R, P, out),
         R[D] < Len(Text[F[D]]), NEW F2, NEW R2, NEW P2,
         \A i \in 0 .. D : /\ F2[i] = F[i] /\ (i # 0 => P2[i] = P[i])
                           /\ R2[i] = IF i = D THEN R[i] + 1 ELSE R[i]
  PROVE  /\ LineOf(Room(D), Expansion[Room(D) - 1], F[D], R[D] + 1) \in Seq(Place)
         /\ out \in Seq(Place)
         /\ Reads(D, F2, R2, P2,
                  out \o LineOf(Room(D), Expansion[Room(D) - 1], F[D], R[D] + 1))
<1>1. /\ Placed(D, F, R, P) /\ D \in Nat /\ D \in 0 .. D
      /\ D \in 0 .. MaxIncludeDepth /\ MaxIncludeDepth \in Nat
  BY ReadAssumption DEF Reads, Placed
<1>2. PICK done \in [0 .. D -> Seq(Place)] : Traced(D, F, R, P, done) /\ done[D] = out
  BY DEF Reads
<1> DEFINE x == LineOf(Room(D), Expansion[Room(D) - 1], F[D], R[D] + 1)
           done2 == [i \in 0 .. D |-> IF i = D THEN out \o x ELSE done[i]]
           b == Before(F, R, P, done, D)
           j == JoinedUpTo(LinesIn(F, D))
           r == R[D]
<1>3. /\ r \in Nat /\ r + 1 \in 1 .. Len(Text[F[D]]) /\ (r + 1) - 1 = r
      /\ r \in 0 .. Len(Text[F[D]]) /\ Len(Text[F[D]]) \in Nat
  <2>2. r \in 0 .. Len(Text[F[D]]) /\ F[D] \in Files
    BY <1>1, Zenon DEF Placed
  <2>1. r \in 0 .. Len(Text[F[D]]) /\ Len(Text[F[D]]) \in Nat
    BY <1>1, <2>2, LinesInJoin, Zenon
  <2> QED
    BY <2>1
<1>4. /\ j \in [0 .. Len(Text[F[D]]) -> Seq(Place)] /\ x \in Seq(Place)
      /\ j[r + 1] = j[(r + 1) - 1] \o x
  <2> HIDE DEF r
  <2>1. /\ j \in [0 .. Len(Text[F[D]]) -> Seq(Place)]
        /\ \A n \in 1 .. Len(Text[F[D]]) :
              j[n] = j[n - 1] \o LineOf(Room(D), Expansion[Room(D) - 1], F[D], n)
        /\ \A n \in 1 .. Len(Text[F[D]]) :
              LineOf(Room(D), Expansion[Room(D) - 1], F[D], n) \in Seq(Place)
    <3>1. F[D] \in Files
      BY <1>1, Zenon DEF Placed
    <3> QED
      BY <1>1, <3>1, LinesInJoin, Zenon
  <2> HIDE DEF j
  <2> QED
    BY <1>3, <2>1, Zenon DEF r
<1>5. b \in Seq(Place) /\ j[r] \in Seq(Place) /\ out \in Seq(Place)
  BY <1>1, <1>2, <1>3, <1>4, BeforeIsSeq
<1>6. out = b \o j[r]
  BY <1>1, <1>2 DEF Traced
<1> HIDE DEF x, b, j
<1>7. out \o x = b \o j[r + 1] /\ out \o x \in Seq(Place)
  <2>1. (b \o j[r]) \o x = b \o (j[r] \o x)
    <3> DEFINE c == j[r]
    <3>1. b \in Seq(Place) /\ c \in Seq(Place) /\ x \in Seq(Place)
      BY <1>4, <1>5
    <3> HIDE DEF c
    <3>2. (b \o c) \o x = b \o (c \o x)
      BY <3>1, ConcatAssociative
    <3> QED
      BY <3>2 DEF c
  <2>2. j[r + 1] = j[r] \o x
    BY <1>3, <1>4, Zenon
  <2>3. out \o x = b \o j[r + 1]
    BY <1>6, <2>1, <2>2, Zenon
  <2>4. out \o x \in Seq(Place)
    BY <1>4, <1>5, ConcatProperties, Zenon
  <2> QED
    BY <2>3, <2>4, Zenon
<1>8. done2 \in [0 .. D -> Seq(Place)] /\ done2[D] = out \o x
  BY <1>1, <1>2, <1>7
<1>9. \A i \in 0 .. D : i # D => done2[i] = done[i]
  OBVIOUS
<1> HIDE DEF done2
<1>10. \A i \in 0 .. D : /\ i # 0 => i - 1 \in 0 .. D /\ i - 1 # D
                         /\ i # 0 => F2[i - 1] = F[i - 1] /\ R2[i - 1] = R[i - 1]
  BY <1>1
<1>15. \A i \in 0 .. D : SameLevel(F, R, P, done, F2, R2, P2, done2, i)
  <2> SUFFICES ASSUME NEW i \in 0 .. D
               PROVE  SameLevel(F, R, P, done, F2, R2, P2, done2, i)
    OBVIOUS
  <2>1. F2[i] = F[i]
    OBVIOUS
  <2>2. i # 0 => /\ F2[i - 1] = F[i - 1] /\ R2[i - 1] = R[i - 1] /\ P2[i] = P[i]
                 /\ done2[i - 1] = done[i - 1]
    BY <1>9, <1>10
  <2> QED
    BY <2>1, <2>2, LevelStays, Zenon
<1>11. \A i \in 0 .. D : /\ LinesIn(F2, i) = LinesIn(F, i)
                         /\ Before(F2, R2, P2, done2, i) = Before(F, R, P, done, i)
                         /\ i # 0 => /\ PathIn(F2, R2, i - 1) = PathIn(F, R, i - 1)
                                     /\ ListIn(F2, R2, i) = ListIn(F, R, i)
  BY <1>15, Zenon DEF SameLevel
<1>12. Placed(D, F2, R2, P2)
  <2>1. \A i \in 0 .. D : F2[i] \in Files /\ R2[i] \in 0 .. Len(Text[F2[i]])
    <3>1. \A i \in 0 .. D : F[i] \in Files /\ R[i] \in 0 .. Len(Text[F[i]])
      BY <1>1, Zenon DEF Placed
    <3>2. r + 1 \in 0 .. Len(Text[F[D]])
      BY <1>3
    <3> QED
      BY <3>1, <3>2
  <2>2. \A i \in 1 .. D : i \in 0 .. D /\ i # 0
    BY <1>1
  <2>3. \A i \in 1 .. D :
       /\ R2[i - 1] < Len(Text[F2[i - 1]])
       /\ PathIn(F2, R2, i - 1) \in IncludePaths
       /\ P2[i] \in 1 .. Len(ListIn(F2, R2, i))
       /\ F2[i] = ListIn(F2, R2, i)[P2[i]]
    BY <1>1, <1>10, <1>11, <2>2 DEF Placed
  <2> QED
    BY <1>1, <2>1, <2>3 DEF Placed
<1>13. Traced(D, F2, R2, P2, done2)
  <2> SUFFICES ASSUME NEW i \in 0 .. D
               PROVE done2[i] = Before(F2, R2, P2, done2, i) \o JoinedUpTo(LinesIn(F2, i))[R2[i]]
    BY DEF Traced
  <2>1. CASE i = D
    BY <1>7, <1>8, <1>11, <2>1 DEF b, j
  <2>2. CASE i # D
    <3>1. done[i] = Before(F, R, P, done, i) \o JoinedUpTo(LinesIn(F, i))[R[i]]
      BY <1>2 DEF Traced
    <3> QED
      BY <1>9, <1>11, <2>2, <3>1
  <2> QED
    BY <2>1, <2>2
<1>14. Reads(D, F2, R2, P2, out \o x)
  BY <1>8, <1>12, <1>13 DEF Reads
<1> QED
  BY <1>4, <1>5, <1>14 DEF x

(* A file of a list is at its end.                                         *)
AfterFile(D, F, R, P, done) ==
  /\ done[D] = done[D - 1] \o JoinedUpTo(FilesIn(F, R, D))[P[D]]
  /\ JoinedUpTo(FilesIn(F, R, D))[P[D]] \in Seq(Place)
  /\ done[D - 1] \in Seq(Place)
  /\ P[D] \in Nat /\ P[D] \in 1 .. Len(ListIn(F, R, D))
  /\ ListIn(F, R, D) \in Seq(Files)
  /\ D \in 1 .. MaxIncludeDepth /\ PathIn(F, R, D - 1) \in IncludePaths

LEMMA FileIsDone ==
  ASSUME NEW D, NEW F, NEW R, NEW P, Placed(D, F, R, P), D # 0,
         NEW done \in [0 .. D -> Seq(Place)], Traced(D, F, R, P, done),
         R[D] = Len(Text[F[D]])
  PROVE  AfterFile(D, F, R, P, done)
<1> DEFINE j == JoinedUpTo(FilesIn(F, R, D))
           p == P[D]
           e == Expansion[Room(D)][ListIn(F, R, D)[p]]
<1>1. /\ D \in 1 .. MaxIncludeDepth /\ D \in 1 .. D /\ D \in 0 .. D /\ D - 1 \in 0 .. D
      /\ D \in 0 .. MaxIncludeDepth
  BY ReadAssumption DEF Placed
<1>2. /\ F[D] \in Files /\ PathIn(F, R, D - 1) \in IncludePaths
      /\ p \in 1 .. Len(ListIn(F, R, D)) /\ F[D] = ListIn(F, R, D)[p]
  BY <1>1, Zenon DEF Placed
<1>3. /\ ListIn(F, R, D) \in Seq(Files) /\ Len(ListIn(F, R, D)) \in Nat
      /\ j \in [0 .. Len(ListIn(F, R, D)) -> Seq(Place)]
      /\ j[p] = j[p - 1] \o e /\ e \in Seq(Place)
  <2>1. /\ ListIn(F, R, D) \in Seq(Files) /\ Len(ListIn(F, R, D)) \in Nat
        /\ j \in [0 .. Len(ListIn(F, R, D)) -> Seq(Place)]
        /\ \A n \in 1 .. Len(ListIn(F, R, D)) :
             /\ j[n] = j[n - 1] \o Expansion[Room(D)][ListIn(F, R, D)[n]]
             /\ Expansion[Room(D)][ListIn(F, R, D)[n]] \in Seq(Place)
    BY <1>1, <1>2, FilesInJoin, Zenon
  <2> HIDE DEF j, p
  <2> QED
    BY <1>2, <2>1, Zenon DEF e
<1>4. JoinedUpTo(LinesIn(F, D))[R[D]] = Expansion[Room(D)][F[D]]
  BY <1>1, <1>2, LinesInJoin, Zenon
<1>5. Expansion[Room(D)][F[D]] = e
  BY <1>2
<1>6. done[D] = Before(F, R, P, done, D) \o e
  BY <1>1, <1>4, <1>5 DEF Traced
<1>7. Before(F, R, P, done, D) = done[D - 1] \o j[p - 1]
  BY Zenon DEF Before
<1>8. done[D - 1] \in Seq(Place)
  BY <1>1
<1>9. p \in Nat /\ p - 1 \in 0 .. Len(ListIn(F, R, D)) /\ p \in 0 .. Len(ListIn(F, R, D))
  BY <1>2, <1>3
<1> HIDE DEF j, p, e
<1>10. j[p - 1] \in Seq(Place) /\ j[p] \in Seq(Place)
  BY <1>3, <1>9
<1>11. done[D] = done[D - 1] \o j[p]
  <2> DEFINE a == done[D - 1]
             b == j[p - 1]
  <2>1. a \in Seq(Place) /\ b \in Seq(Place) /\ e \in Seq(Place)
    BY <1>3, <1>8, <1>10
  <2> HIDE DEF a, b
  <2>2. (a \o b) \o e = a \o (b \o e)
    BY <2>1, ConcatAssociative
  <2>3. done[D] = (a \o b) \o e
    BY <1>6, <1>7, Zenon DEF a, b
  <2>4. j[p] = b \o e
    BY <1>3, Zenon DEF b
  <2> QED
    BY <2>2, <2>3, <2>4, Zenon DEF a
<1> QED
  BY <1>1, <1>2, <1>3, <1>8, <1>9, <1>10, <1>11, Zenon DEF AfterFile, j, p

(* The next file of the list.                                              *)
LEMMA ReadsNextFile ==
  ASSUME NEW D, NEW F, NEW R, NEW P, NEW out, Reads(D, F, R, P, out),
         D # 0, R[D] = Len(Text[F[D]]), P[D] < Len(ListIn(F, R, D)),
         NEW F2, NEW R2, NEW P2,
         \A i \in 0 .. D - 1 : F2[i] = F[i] /\ R2[i] = R[i] /\ (i # 0 => P2[i] = P[i]),
         F2[D] = ListIn(F, R, D)[P[D] + 1], R2[D] = 0, P2[D] = P[D] + 1
  PROVE  Reads(D, F2, R2, P2, out)
<1>1. Placed(D, F, R, P)
  BY DEF Reads
<1>2. PICK done \in [0 .. D -> Seq(Place)] : Traced(D, F, R, P, done) /\ done[D] = out
  BY DEF Reads
<1> DEFINE p == P[D]
           L == ListIn(F, R, D)
<1>3. /\ done[D] = done[D - 1] \o JoinedUpTo(FilesIn(F, R, D))[p]
      /\ JoinedUpTo(FilesIn(F, R, D))[p] \in Seq(Place)
      /\ done[D - 1] \in Seq(Place)
      /\ p \in Nat /\ p \in 1 .. Len(L) /\ L \in Seq(Files)
      /\ D \in 1 .. MaxIncludeDepth /\ PathIn(F, R, D - 1) \in IncludePaths
  <2>1. AfterFile(D, F, R, P, done)
    BY <1>1, <1>2, FileIsDone
  <2> QED
    BY <2>1, Zenon DEF AfterFile
<1>4. /\ D \in 0 .. D /\ D - 1 \in 0 .. D - 1 /\ D \in 1 .. D /\ D \in 0 .. MaxIncludeDepth
      /\ (p + 1) - 1 = p /\ p + 1 \in 1 .. Len(L) /\ D - 1 \in 0 .. D
      /\ \A i \in 0 .. D : i \in 0 .. D - 1 \/ i = D
      /\ \A i \in 1 .. D - 1 : /\ i \in 0 .. D - 1 /\ i - 1 \in 0 .. D - 1 /\ i \in 1 .. D
                               /\ i \in 0 .. D /\ i # 0
      /\ \A i \in 0 .. D - 1 : i \in 0 .. D /\ (i # 0 => i \in 1 .. D - 1)
  <2>1. Len(L) \in Nat /\ p < Len(L)
    BY <1>3
  <2>2. D \in Nat \ {0} /\ D <= MaxIncludeDepth /\ MaxIncludeDepth \in Nat /\ p \in Nat
    BY <1>3, ReadAssumption
  <2> HIDE DEF p, L
  <2>3. (p + 1) - 1 = p /\ p + 1 \in 1 .. Len(L)
    BY <2>1, <2>2
  <2> QED
    BY <2>2, <2>3, SMTT(30)
<1>5. L[p + 1] \in Files
  BY <1>3, <1>4, ElementOfSeq
<1> HIDE DEF p, L
<1>6. F2[D] \in Files /\ R2[D] = 0 /\ P2[D] = p + 1 /\ F2[D] = L[p + 1]
  BY <1>5 DEF p, L
<1>7. /\ PathIn(F2, R2, D - 1) = PathIn(F, R, D - 1)
      /\ ListIn(F2, R2, D) = L /\ FilesIn(F2, R2, D) = FilesIn(F, R, D)
  BY <1>4, Zenon DEF PathIn, ListIn, FilesIn, L
<1>8. \A i \in 0 .. D - 1 : SameLevel(F, R, P, done, F2, R2, P2, done, i)
  <2> SUFFICES ASSUME NEW i \in 0 .. D - 1
               PROVE  SameLevel(F, R, P, done, F2, R2, P2, done, i)
    OBVIOUS
  <2>1. F2[i] = F[i]
    OBVIOUS
  <2>2. i # 0 => /\ F2[i - 1] = F[i - 1] /\ R2[i - 1] = R[i - 1] /\ P2[i] = P[i]
                 /\ done[i - 1] = done[i - 1]
    BY <1>4
  <2> QED
    BY <2>1, <2>2, LevelStays, Zenon
<1>9. Text[F2[D]] \in Seq(Lines) /\ Len(Text[F2[D]]) \in Nat /\ JoinedUpTo(LinesIn(F2, D))[0] = <<>>
  BY <1>4, <1>6, LinesInJoin, ZenonT(60)
<1>10. Placed(D, F2, R2, P2)
  <2>1. \A i \in 0 .. D : F2[i] \in Files /\ R2[i] \in 0 .. Len(Text[F2[i]])
    <3>1. \A i \in 0 .. D - 1 : F[i] \in Files /\ R[i] \in 0 .. Len(Text[F[i]])
      BY <1>1, <1>4, Zenon DEF Placed
    <3>2. R2[D] \in 0 .. Len(Text[F2[D]])
      BY <1>6, <1>9
    <3> QED
      BY <1>4, <1>6, <3>1, <3>2
  <2>2. ASSUME NEW i \in 1 .. D
        PROVE  /\ R2[i - 1] < Len(Text[F2[i - 1]])
               /\ PathIn(F2, R2, i - 1) \in IncludePaths
               /\ P2[i] \in 1 .. Len(ListIn(F2, R2, i))
               /\ F2[i] = ListIn(F2, R2, i)[P2[i]]
    <3>1. /\ R[i - 1] < Len(Text[F[i - 1]])
          /\ PathIn(F, R, i - 1) \in IncludePaths
          /\ P[i] \in 1 .. Len(ListIn(F, R, i))
          /\ F[i] = ListIn(F, R, i)[P[i]]
      BY <1>1, Zenon DEF Placed
    <3>2. CASE i = D
      <4>1. R2[i - 1] < Len(Text[F2[i - 1]])
        BY <1>4, <3>1, <3>2
      <4>2. /\ PathIn(F2, R2, i - 1) \in IncludePaths
            /\ P2[i] \in 1 .. Len(ListIn(F2, R2, i))
            /\ F2[i] = ListIn(F2, R2, i)[P2[i]]
        BY <1>3, <1>4, <1>6, <1>7, <3>2
      <4> QED
        BY <4>1, <4>2
    <3>3. CASE i # D
      <4>1. i \in 0 .. D - 1 /\ i - 1 \in 0 .. D - 1 /\ i # 0
        BY <1>4, <3>3
      <4>2. /\ PathIn(F2, R2, i - 1) = PathIn(F, R, i - 1)
            /\ ListIn(F2, R2, i) = ListIn(F, R, i)
        BY <1>8, <4>1, Zenon DEF SameLevel
      <4>3. F2[i] = F[i] /\ P2[i] = P[i] /\ R2[i - 1] = R[i - 1] /\ F2[i - 1] = F[i - 1]
        BY <4>1
      <4> QED
        BY <3>1, <4>2, <4>3
    <3> QED
      BY <3>2, <3>3
  <2> QED
    BY <1>4, <2>1, <2>2, Zenon DEF Placed
<1>11. Traced(D, F2, R2, P2, done)
  <2> SUFFICES ASSUME NEW i \in 0 .. D
               PROVE done[i] = Before(F2, R2, P2, done, i) \o JoinedUpTo(LinesIn(F2, i))[R2[i]]
    BY DEF Traced
  <2>1. CASE i = D
    <3>1. Before(F2, R2, P2, done, D) = done[D - 1] \o JoinedUpTo(FilesIn(F, R, D))[p]
      BY <1>4, <1>6, <1>7, Zenon DEF Before
    <3>2. Before(F2, R2, P2, done, D) = done[D]
      BY <1>3, <3>1, Zenon
    <3>3. done[D] \in Seq(Place)
      BY <1>4
    <3>4. done[D] \o <<>> = done[D]
      BY <3>3, ConcatEmptySeq
    <3> QED
      BY <1>6, <1>9, <2>1, <3>2, <3>4
  <2>2. CASE i # D
    <3>1. i \in 0 .. D - 1
      BY <1>4, <2>2
    <3>2. /\ LinesIn(F2, i) = LinesIn(F, i)
          /\ Before(F2, R2, P2, done, i) = Before(F, R, P, done, i)
      BY <1>8, <3>1, Zenon DEF SameLevel
    <3>3. done[i] = Before(F, R, P, done, i) \o JoinedUpTo(LinesIn(F, i))[R[i]]
      BY <1>2 DEF Traced
    <3> QED
      BY <3>1, <3>2, <3>3
  <2> QED
    BY <2>1, <2>2
<1> QED
  BY <1>2, <1>10, <1>11 DEF Reads

(* A file is included: its list goes on top.                               *)
LEMMA ReadsInto ==
  ASSUME NEW D, NEW F, NEW R, NEW P, NEW out, Reads(D, F, R, P, out),
         D < MaxIncludeDepth, R[D] < Len(Text[F[D]]), PathIn(F, R, D) \in IncludePaths,
         IncludeFn[PathIn(F, R, D)].files # <<>>,
         NEW F2, NEW R2, NEW P2,
         \A i \in 0 .. D : F2[i] = F[i] /\ R2[i] = R[i] /\ (i # 0 => P2[i] = P[i]),
         F2[D + 1] = IncludeFn[PathIn(F, R, D)].files[1], R2[D + 1] = 0, P2[D + 1] = 1
  PROVE  Reads(D + 1, F2, R2, P2, out)
<1> DEFINE N == D + 1
           L == ListIn(F2, R2, N)
<1>1. Placed(D, F, R, P)
  BY DEF Reads
<1>2. PICK done \in [0 .. D -> Seq(Place)] : Traced(D, F, R, P, done) /\ done[D] = out
  BY DEF Reads
<1>3. /\ D \in Nat /\ N \in 1 .. MaxIncludeDepth /\ N \in 0 .. MaxIncludeDepth
      /\ N - 1 = D /\ D \in 0 .. D /\ N # 0 /\ N \in 0 .. N
      /\ \A i \in 0 .. N : i \in 0 .. D \/ i = N
      /\ \A i \in 1 .. N : i \in 1 .. D \/ i = N
      /\ \A i \in 1 .. D : i - 1 \in 0 .. D /\ i \in 0 .. D /\ i # 0
      /\ \A i \in 0 .. D : i \in 0 .. N /\ i # N /\ (i # 0 => i \in 1 .. D)
  <2>1. D \in Nat /\ D + 1 <= MaxIncludeDepth /\ MaxIncludeDepth \in Nat
    BY <1>1, ReadAssumption DEF Placed
  <2> QED
    BY <2>1
<1> HIDE DEF N
<1>4. PathIn(F2, R2, N - 1) = PathIn(F, R, D) /\ L = IncludeFn[PathIn(F, R, D)].files
  BY <1>3, Zenon DEF PathIn, ListIn
<1>5. /\ L \in Seq(Files) /\ JoinedUpTo(FilesIn(F2, R2, N))[0] = <<>>
  <2>1. PathIn(F2, R2, N - 1) \in IncludePaths
    BY <1>4
  <2>2. N \in 1 .. MaxIncludeDepth
    BY <1>3
  <2>3. ListIn(F2, R2, N) \in Seq(Files)
    BY <2>1, <2>2, FilesInJoin, Zenon
  <2>4. JoinedUpTo(FilesIn(F2, R2, N))[0] = <<>>
    BY <2>1, <2>2, FilesInJoin, Zenon
  <2> QED
    BY <2>3, <2>4
<1>6. 1 \in 1 .. Len(L) /\ L[1] \in Files
  <2>1. L # <<>>
    BY <1>4
  <2> HIDE DEF L
  <2>2. Len(L) \in Nat \ {0}
    BY <1>5, <2>1, EmptySeq
  <2> QED
    BY <1>5, <2>2, ElementOfSeq
<1>7. F2[N] = L[1] /\ F2[N] \in Files /\ R2[N] = 0 /\ P2[N] = 1
  BY <1>4, <1>6 DEF N
<1>8. Text[F2[N]] \in Seq(Lines) /\ Len(Text[F2[N]]) \in Nat /\ JoinedUpTo(LinesIn(F2, N))[0] = <<>>
  <2>1. N \in 0 .. MaxIncludeDepth /\ F2[N] \in Files
    BY <1>3, <1>7
  <2> QED
    BY <2>1, LinesInJoin, Zenon
<1> HIDE DEF L
<1> DEFINE done2 == [i \in 0 .. N |-> IF i = N THEN out ELSE done[i]]
<1>9. done2[N] = out /\ \A i \in 0 .. D : done2[i] = done[i]
  BY <1>3
<1>10. out \in Seq(Place) /\ done2 \in [0 .. N -> Seq(Place)]
  BY <1>2, <1>3
<1> HIDE DEF done2
<1>11. \A i \in 0 .. D : SameLevel(F, R, P, done, F2, R2, P2, done2, i)
  <2> SUFFICES ASSUME NEW i \in 0 .. D
               PROVE  SameLevel(F, R, P, done, F2, R2, P2, done2, i)
    OBVIOUS
  <2>1. F2[i] = F[i]
    OBVIOUS
  <2>2. i # 0 => /\ F2[i - 1] = F[i - 1] /\ R2[i - 1] = R[i - 1] /\ P2[i] = P[i]
                 /\ done2[i - 1] = done[i - 1]
    BY <1>3, <1>9
  <2> QED
    BY <2>1, <2>2, LevelStays, Zenon
<1>12. Placed(N, F2, R2, P2)
  <2>1. \A i \in 0 .. N : F2[i] \in Files /\ R2[i] \in 0 .. Len(Text[F2[i]])
    <3>1. \A i \in 0 .. D : F[i] \in Files /\ R[i] \in 0 .. Len(Text[F[i]])
      BY <1>1, Zenon DEF Placed
    <3>2. R2[N] \in 0 .. Len(Text[F2[N]])
      BY <1>7, <1>8
    <3> QED
      BY <1>3, <1>7, <3>1, <3>2
  <2>2. ASSUME NEW i \in 1 .. N
        PROVE  /\ R2[i - 1] < Len(Text[F2[i - 1]])
               /\ PathIn(F2, R2, i - 1) \in IncludePaths
               /\ P2[i] \in 1 .. Len(ListIn(F2, R2, i))
               /\ F2[i] = ListIn(F2, R2, i)[P2[i]]
    <3>1. CASE i = N
      <4>1. R2[D] < Len(Text[F2[D]])
        BY <1>3
      <4>2. PathIn(F2, R2, N - 1) \in IncludePaths
        BY <1>4
      <4>3. P2[N] \in 1 .. Len(ListIn(F2, R2, N)) /\ F2[N] = ListIn(F2, R2, N)[P2[N]]
        BY <1>6, <1>7, Zenon DEF L
      <4> QED
        BY <1>3, <3>1, <4>1, <4>2, <4>3, Zenon
    <3>2. CASE i \in 1 .. D
      <4>1. /\ R[i - 1] < Len(Text[F[i - 1]])
            /\ PathIn(F, R, i - 1) \in IncludePaths
            /\ P[i] \in 1 .. Len(ListIn(F, R, i))
            /\ F[i] = ListIn(F, R, i)[P[i]]
        BY <1>1, <3>2, Zenon DEF Placed
      <4>2. i \in 0 .. D /\ i - 1 \in 0 .. D /\ i # 0
        BY <1>3, <3>2
      <4>3. /\ PathIn(F2, R2, i - 1) = PathIn(F, R, i - 1)
            /\ ListIn(F2, R2, i) = ListIn(F, R, i)
        BY <1>11, <4>2, Zenon DEF SameLevel
      <4>4. F2[i] = F[i] /\ P2[i] = P[i] /\ R2[i - 1] = R[i - 1] /\ F2[i - 1] = F[i - 1]
        BY <4>2
      <4> QED
        BY <4>1, <4>3, <4>4
    <3> QED
      BY <1>3, <3>1, <3>2
  <2> QED
    BY <1>3, <2>1, <2>2, Zenon DEF Placed
<1>13. Traced(N, F2, R2, P2, done2)
  <2> SUFFICES ASSUME NEW i \in 0 .. N
               PROVE done2[i] = Before(F2, R2, P2, done2, i) \o JoinedUpTo(LinesIn(F2, i))[R2[i]]
    BY DEF Traced
  <2>1. CASE i = N
    <3>1. out \o <<>> = out
      BY <1>10, ConcatEmptySeq
    <3>2. 1 - 1 = 0
      OBVIOUS
    <3>3. Before(F2, R2, P2, done2, N) = done2[D] \o JoinedUpTo(FilesIn(F2, R2, N))[0]
      BY <1>3, <1>7, <3>2, Zenon DEF Before
    <3>4. done2[D] = out
      BY <1>2, <1>3, <1>9
    <3>5. Before(F2, R2, P2, done2, N) = out
      BY <1>5, <3>1, <3>3, <3>4, Zenon
    <3> QED
      BY <1>7, <1>8, <1>9, <2>1, <3>1, <3>5, Zenon
  <2>2. CASE i # N
    <3>1. i \in 0 .. D
      BY <1>3, <2>2
    <3>2. /\ LinesIn(F2, i) = LinesIn(F, i)
          /\ Before(F2, R2, P2, done2, i) = Before(F, R, P, done, i)
      BY <1>11, <3>1, Zenon DEF SameLevel
    <3>3. done[i] = Before(F, R, P, done, i) \o JoinedUpTo(LinesIn(F, i))[R[i]]
      BY <1>2, <3>1 DEF Traced
    <3> QED
      BY <1>9, <3>1, <3>2, <3>3
  <2> QED
    BY <2>1, <2>2
<1>14. Reads(N, F2, R2, P2, out)
  BY <1>9, <1>10, <1>12, <1>13 DEF Reads
<1> QED
  BY <1>14 DEF N

(* The list is at its end: the level below goes on after its @include.     *)
LEMMA ReadsBack ==
  ASSUME NEW D, NEW F, NEW R, NEW P, NEW out, Reads(D, F, R, P, out),
         D # 0, R[D] = Len(Text[F[D]]), P[D] = Len(ListIn(F, R, D)),
         NEW F2, NEW R2, NEW P2,
         \A i \in 0 .. D - 1 : /\ F2[i] = F[i] /\ (i # 0 => P2[i] = P[i])
                               /\ R2[i] = IF i = D - 1 THEN R[i] + 1 ELSE R[i]
  PROVE  Reads(D - 1, F2, R2, P2, out)
<1> DEFINE E == D - 1
           o == JoinedUpTo(FilesIn(F, R, D))[P[D]]
<1>1. Placed(D, F, R, P)
  BY DEF Reads
<1>2. PICK done \in [0 .. D -> Seq(Place)] : Traced(D, F, R, P, done) /\ done[D] = out
  BY DEF Reads
<1>3. AfterFile(D, F, R, P, done)
  BY <1>1, <1>2, FileIsDone
<1>4. /\ D \in 1 .. MaxIncludeDepth /\ PathIn(F, R, E) \in IncludePaths
      /\ out = done[E] \o o
  BY <1>2, <1>3, Zenon DEF AfterFile
<1>5. /\ E \in 0 .. MaxIncludeDepth /\ D \in 1 .. D /\ E \in 0 .. E
      /\ \A i \in 0 .. E : i \in 0 .. D
      /\ \A i \in 1 .. E : i \in 1 .. D
  BY <1>4, ReadAssumption
<1>6. R[E] < Len(Text[F[E]])
  BY <1>1, <1>5 DEF Placed
<1>7. o = LineOf(Room(E), Expansion[Room(E) - 1], F[E], R[E] + 1)
  <2>1. Text[F[E]][R[E] + 1] = PathIn(F, R, E)
    BY DEF PathIn
  <2>2. \A f, n : Text[f][n] = PathIn(F, R, E) =>
          LineOf(Room(E), Expansion[Room(E) - 1], f, n)
            = JoinedUpTo(FilesIn(F, R, D))[Len(ListIn(F, R, D))]
    BY <1>4, FilesInJoin, ZenonT(60)
  <2>3. LineOf(Room(E), Expansion[Room(E) - 1], F[E], R[E] + 1)
          = JoinedUpTo(FilesIn(F, R, D))[Len(ListIn(F, R, D))]
    BY <2>1, <2>2, Zenon
  <2> HIDE DEF E
  <2> QED
    BY <2>3
<1> DEFINE done2 == [i \in 0 .. E |-> done[i]]
<1>8. /\ done2 \in [0 .. E -> Seq(Place)] /\ done2[E] = done[E]
      /\ \A i \in 0 .. E : done2[i] = done[i]
  BY <1>5
<1> HIDE DEF done2
<1>9. Placed(E, F, R, P)
  BY <1>1, <1>5, Zenon DEF Placed
<1>10. Traced(E, F, R, P, done2)
  <2> SUFFICES ASSUME NEW i \in 0 .. E
               PROVE done2[i] = Before(F, R, P, done2, i) \o JoinedUpTo(LinesIn(F, i))[R[i]]
    BY DEF Traced
  <2>1. done[i] = Before(F, R, P, done, i) \o JoinedUpTo(LinesIn(F, i))[R[i]]
    BY <1>2, <1>5, Zenon DEF Traced
  <2>5. i # 0 => i - 1 \in 0 .. E
    BY <1>4, ReadAssumption
  <2>2. i # 0 => done2[i - 1] = done[i - 1]
    BY <1>8, <2>5, Zenon
  <2>3. Before(F, R, P, done2, i) = Before(F, R, P, done, i)
    BY <2>2, Zenon DEF Before
  <2>4. done2[i] = done[i]
    BY <1>8
  <2> QED
    BY <2>1, <2>3, <2>4, Zenon
<1>11. Reads(E, F, R, P, done[E])
  BY <1>8, <1>9, <1>10 DEF Reads
<1>12. Reads(E, F2, R2, P2,
             done[E] \o LineOf(Room(E), Expansion[Room(E) - 1], F[E], R[E] + 1))
  <2> HIDE DEF E, o
  <2>1. \A i \in 0 .. E : /\ F2[i] = F[i] /\ (i # 0 => P2[i] = P[i])
                          /\ R2[i] = IF i = E THEN R[i] + 1 ELSE R[i]
    BY Zenon DEF E
  <2> QED
    BY <1>6, <1>11, <2>1, ReadsALine, Zenon
<1> HIDE DEF o
<1> QED
  BY <1>4, <1>7, <1>12, Zenon

(* The file of the call is at its end.                                     *)
LEMMA ReadsAll ==
  ASSUME NEW F, NEW R, NEW P, NEW out, Reads(0, F, R, P, out),
         R[0] = Len(Text[F[0]])
  PROVE  out = Expansion[MaxIncludeDepth][F[0]]
<1>1. Placed(0, F, R, P)
  BY DEF Reads
<1>2. PICK done \in [0 .. 0 -> Seq(Place)] : Traced(0, F, R, P, done) /\ done[0] = out
  BY DEF Reads
<1>3. 0 \in 0 .. MaxIncludeDepth /\ F[0] \in Files /\ Room(0) = MaxIncludeDepth
  BY <1>1, ReadAssumption DEF Placed, Room
<1>4. JoinedUpTo(LinesIn(F, 0))[Len(Text[F[0]])] = Expansion[Room(0)][F[0]]
  BY <1>3, LinesInJoin, Zenon
<1>5. done[0] = <<>> \o JoinedUpTo(LinesIn(F, 0))[R[0]]
  BY <1>2 DEF Traced, Before
<1>6. Expansion[MaxIncludeDepth][F[0]] \in Seq(Place)
  <2>1. MaxIncludeDepth \in 0 .. MaxIncludeDepth
    BY ReadAssumption
  <2>2. Expansion[MaxIncludeDepth] \in Texts
    BY <2>1, ExpansionUnfolds
  <2> QED
    BY <1>3, <2>2 DEF Texts
<1>7. <<>> \o Expansion[MaxIncludeDepth][F[0]] = Expansion[MaxIncludeDepth][F[0]]
  BY <1>6, ConcatEmptySeq
<1> QED
  BY <1>2, <1>3, <1>4, <1>5, <1>7, Zenon

(***************************************************************************)
(* Where the read is.  A buffer whose file waits for an include list has   *)
(* its @include behind it.                                                 *)
(***************************************************************************)
FileNow == [i \in 0 .. Len(frames) |-> buffers[BufferAt(i)].file]
LineNow == [i \in 0 .. Len(frames) |->
              IF i = Len(frames) THEN buffers[BufferAt(i)].next - 1
              ELSE buffers[BufferAt(i)].next - 2]
PosNow == [i \in 1 .. Len(frames) |-> frames[i].pos]

(* The names of a frame are those of the list of its @include.             *)
NamesTheList(fr, nm, F, R, i) ==
  /\ Len(fr[i].files) = Len(ListIn(F, R, i))
  /\ \A j \in 1 .. Len(fr[i].files) : nm[fr[i].files[j]].file = ListIn(F, R, i)[j]

TextInv ==
  pc = "scan" =>
    /\ BufferAt(0) = 1
    /\ Reads(Len(frames), FileNow, LineNow, PosNow, delivered)
    /\ \A i \in 1 .. Len(frames) : NamesTheList(frames, names, FileNow, LineNow, i)

(* What the operations on buffers keep, and what they move.                *)
SameText(b, c) == c.file = b.file /\ c.next = b.next

LEMMA BufferUpdated ==
  ASSUME NEW b \in BufferType
  PROVE  /\ SameText(b, [b EXCEPT !.deleted = @ + 1])
         /\ [b EXCEPT !.next = @ + 1].file = b.file
         /\ [b EXCEPT !.next = @ + 1].next = b.next + 1
<1> DEFINE d == b.deleted + 1
           n == b.next + 1
<1>1. d \in Nat /\ n \in Nat
  BY DEF BufferType
<1> HIDE DEF d, n
<1>2. /\ [b EXCEPT !.deleted = d].file = b.file
      /\ [b EXCEPT !.deleted = d].next = b.next
      /\ [b EXCEPT !.next = n].file = b.file
      /\ [b EXCEPT !.next = n].next = n
  BY <1>1 DEF BufferType
<1> QED
  BY <1>2 DEF d, n, SameText

LEMMA DeletedText ==
  ASSUME NEW B, buffers \in Seq(BufferType), NEW b \in 1 .. Len(buffers)
  PROVE  SameText(buffers[b], Delete(B)[b])
<1>1. buffers[b] \in BufferType /\ DOMAIN buffers = 1 .. Len(buffers)
  BY ElementOfSeq, LenProperties
<1>2. CASE b \in B
  <2>1. Delete(B)[b] = [buffers[b] EXCEPT !.deleted = @ + 1]
    BY <1>1, <1>2, Zenon DEF Delete
  <2>2. SameText(buffers[b], [buffers[b] EXCEPT !.deleted = @ + 1])
    BY <1>1, BufferUpdated
  <2> QED
    BY <2>1, <2>2, Zenon
<1>3. CASE b \notin B
  <2>1. Delete(B)[b] = buffers[b]
    BY <1>1, <1>3, Zenon DEF Delete
  <2> QED
    BY <2>1 DEF SameText
<1> QED
  BY <1>2, <1>3

LEMMA AdvancedText ==
  ASSUME buffers \in Seq(BufferType), current \in 1 .. Len(buffers),
         NEW b \in 1 .. Len(buffers)
  PROVE  IF b = current
         THEN Advance[b].file = buffers[b].file /\ Advance[b].next = buffers[b].next + 1
         ELSE SameText(buffers[b], Advance[b])
<1> DEFINE c == [buffers[current] EXCEPT !.next = @ + 1]
<1>1. buffers[current] \in BufferType
  BY ElementOfSeq
<1>2. /\ c \in BufferType /\ c.file = buffers[current].file
      /\ c.next = buffers[current].next + 1
  BY <1>1, Updated, BufferUpdated
<1>3. Advance = [buffers EXCEPT ![current] = c]
  BY Zenon DEF Advance
<1> HIDE DEF c
<1>4. Advance[b] = IF b = current THEN c ELSE buffers[b]
  BY <1>2, <1>3, ExceptSeq
<1> QED
  BY <1>2, <1>4 DEF SameText

LEMMA NewBufferText ==
  ASSUME NEW f, NEW nm, NEW s
  PROVE  Buffer(f, nm, s).file = f /\ Buffer(f, nm, s).next = 1
  BY DEF Buffer

(* The buffers of the levels.                                              *)
LEMMA BufferNumbers ==
  ASSUME buffers \in Seq(BufferType), NEW b \in 1 .. Len(buffers)
  PROVE  buffers[b].next \in Nat
<1>1. buffers[b] \in BufferType
  BY ElementOfSeq
<1> QED
  BY <1>1 DEF BufferType

LEMMA BuffersOfLevels ==
  ASSUME ReadInv, pc # "idle"
  PROVE  /\ Len(frames) \in Nat /\ Len(frames) \in 0 .. Len(frames)
         /\ BufferAt(Len(frames)) = current
         /\ \A i \in 0 .. Len(frames) : BufferAt(i) \in 1 .. Len(buffers)
         /\ \A i \in 0 .. Len(frames) : BufferAt(i) = current => i = Len(frames)
<1> DEFINE D == Len(frames)
<1>1. /\ D \in Nat /\ current \in 1 .. Len(buffers)
      /\ Ids(frames) = 1 .. D
      /\ \A i \in 1 .. D : frames[i].parent \in 1 .. Len(buffers)
      /\ \A i \in 1 .. D : current # frames[i].parent
  BY Known DEF ReadInv, BufferInv, BuffersAreMade, BuffersDeletedOnce
<1>2. \A i \in 0 .. D : i = D \/ i + 1 \in 1 .. D
  BY <1>1
<1>3. BufferAt(D) = current /\ \A i \in 0 .. D : i # D => BufferAt(i) = frames[i + 1].parent
  BY <1>1 DEF BufferAt
<1> QED
  BY <1>1, <1>2, <1>3

LEMMA PlaceNow ==
  ASSUME ReadInv, TextInv, pc = "scan"
  PROVE  /\ Len(frames) \in 0 .. MaxIncludeDepth
         /\ FileNow[Len(frames)] = Here.file /\ Here.file \in Files
         /\ LineNow[Len(frames)] + 1 = Here.next /\ Here.next \in Nat
         /\ Line = PathIn(FileNow, LineNow, Len(frames))
         /\ IF AtEof THEN LineNow[Len(frames)] = Len(Text[FileNow[Len(frames)]])
            ELSE LineNow[Len(frames)] < Len(Text[FileNow[Len(frames)]])
<1> DEFINE D == Len(frames)
<1>1. /\ D \in Nat /\ D \in 0 .. D /\ BufferAt(D) = current
      /\ buffers \in Seq(BufferType) /\ current \in 1 .. Len(buffers)
  BY BuffersOfLevels, Known
<1>2. buffers[current] \in BufferType
  BY <1>1, ElementOfSeq
<1>3. Here.file \in Files /\ Here.next \in Nat
  BY <1>2 DEF BufferType, Here
<1>4. FileNow[D] = Here.file /\ LineNow[D] = Here.next - 1
  BY <1>1 DEF FileNow, LineNow, Here
<1>5. /\ D \in 0 .. MaxIncludeDepth
      /\ LineNow[D] \in 0 .. Len(Text[FileNow[D]])
  BY <1>1 DEF TextInv, Reads, Placed
<1>6. Len(Text[Here.file]) \in Nat
  BY <1>3, ReadAssumption
<1>7. LineNow[D] + 1 = Here.next
  BY <1>3, <1>4
<1>8. Line = PathIn(FileNow, LineNow, D)
  BY <1>4, <1>7, Zenon DEF Line, PathIn
<1>9. IF AtEof THEN LineNow[D] = Len(Text[FileNow[D]])
      ELSE LineNow[D] < Len(Text[FileNow[D]])
  <2> DEFINE n == Here.next
             len == Len(Text[Here.file])
             l == LineNow[D]
  <2>1. /\ n \in Nat /\ len \in Nat /\ l \in 0 .. len /\ l = n - 1
    BY <1>3, <1>4, <1>5, <1>6
  <2>2. AtEof <=> n > len
    BY DEF AtEof
  <2>3. len = Len(Text[FileNow[D]])
    BY <1>4
  <2> HIDE DEF n, len, l
  <2>4. IF n > len THEN l = len ELSE l < len
    BY <2>1
  <2> QED
    BY <2>2, <2>3, <2>4 DEF l
<1> QED
  BY <1>3, <1>4, <1>5, <1>7, <1>8, <1>9

(* The list of a frame depends on the level below it.                      *)
LEMMA ListStays ==
  ASSUME NEW fr, NEW nm, NEW F, NEW R, NEW fr2, NEW nm2, NEW F2, NEW R2, NEW i,
         NamesTheList(fr, nm, F, R, i),
         fr2[i].files = fr[i].files,
         \A j \in 1 .. Len(fr[i].files) : nm2[fr[i].files[j]].file = nm[fr[i].files[j]].file,
         F2[i - 1] = F[i - 1], R2[i - 1] = R[i - 1]
  PROVE  NamesTheList(fr2, nm2, F2, R2, i)
<1>1. ListIn(F2, R2, i) = ListIn(F, R, i)
  BY Zenon DEF ListIn, PathIn
<1> QED
  BY <1>1 DEF NamesTheList

LEMMA StartReadsNothing ==
  ASSUME NEW f \in Files, NEW stream, NEW nm, StartRead(f, stream, nm)
  PROVE  TextInv'
<1>1. /\ buffers' = <<Buffer(f, nm, stream)>> /\ current' = 1 /\ frames' = <<>>
      /\ delivered' = <<>>
  BY DEF StartRead
<1>2. Len(frames') = 0 /\ buffers'[1] = Buffer(f, nm, stream)
  BY <1>1
<1>3. BufferAt(0)' = 1
  BY <1>1, <1>2 DEF BufferAt
<1>4. /\ \A i \in 0 .. 0 : i = 0
      /\ 0 \in 0 .. 0 /\ 1 - 1 = 0 /\ 1 .. 0 = {}
  OBVIOUS
<1>5. FileNow'[0] = f /\ LineNow'[0] = 0
  BY <1>2, <1>3, <1>4, NewBufferText DEF FileNow, LineNow
<1>6. Reads(0, FileNow', LineNow', PosNow', <<>>)
  BY <1>5, ReadsNothing
<1> QED
  BY <1>1, <1>2, <1>3, <1>4, <1>6 DEF TextInv

(* A line that gives its settings to the parser.                           *)
LEMMA LineIsRead ==
  ASSUME ReadInv, TextInv, pc = "scan", ~AtEof, buffers' = Advance,
         UNCHANGED <<current, frames, names>>,
         delivered' = delivered \o LineOf(Room(Len(frames)), Expansion[Room(Len(frames)) - 1],
                                          Here.file, Here.next)
  PROVE  TextInv'
<1> DEFINE D == Len(frames)
<1>1. /\ D \in Nat /\ D \in 0 .. D /\ BufferAt(D) = current
      /\ \A i \in 0 .. D : BufferAt(i) \in 1 .. Len(buffers)
      /\ \A i \in 0 .. D : BufferAt(i) = current => i = D
  BY BuffersOfLevels
<1>2. /\ FileNow[D] = Here.file /\ LineNow[D] + 1 = Here.next
      /\ LineNow[D] < Len(Text[FileNow[D]])
  BY PlaceNow
<1>3. /\ BufferAt(0) = 1
      /\ Reads(D, FileNow, LineNow, PosNow, delivered)
      /\ \A i \in 1 .. D : NamesTheList(frames, names, FileNow, LineNow, i)
  BY DEF TextInv
<1>4. frames' = frames /\ names' = names /\ PosNow' = PosNow /\ current' = current
  BY DEF PosNow
<1>5. \A i : BufferAt(i)' = BufferAt(i)
  BY <1>4 DEF BufferAt
<1>6. buffers \in Seq(BufferType) /\ current \in 1 .. Len(buffers)
  BY Known
<1>7. \A i \in 0 .. D :
        /\ buffers'[BufferAt(i)].file = buffers[BufferAt(i)].file
        /\ buffers'[BufferAt(i)].next = IF i = D THEN buffers[BufferAt(i)].next + 1
                                        ELSE buffers[BufferAt(i)].next
  <2> SUFFICES ASSUME NEW i \in 0 .. D
               PROVE  /\ buffers'[BufferAt(i)].file = buffers[BufferAt(i)].file
                      /\ buffers'[BufferAt(i)].next
                           = IF i = D THEN buffers[BufferAt(i)].next + 1
                             ELSE buffers[BufferAt(i)].next
    OBVIOUS
  <2> DEFINE b == BufferAt(i)
  <2>1. b \in 1 .. Len(buffers) /\ (i = D <=> b = current)
    BY <1>1
  <2> HIDE DEF b
  <2>2. IF b = current
        THEN Advance[b].file = buffers[b].file /\ Advance[b].next = buffers[b].next + 1
        ELSE SameText(buffers[b], Advance[b])
    BY <1>6, <2>1, AdvancedText
  <2>3. /\ buffers'[b].file = buffers[b].file
        /\ buffers'[b].next = IF i = D THEN buffers[b].next + 1 ELSE buffers[b].next
    BY <2>1, <2>2, Zenon DEF SameText
  <2> QED
    BY <2>3 DEF b
<1>8. \A i \in 0 .. D : buffers[BufferAt(i)].next \in Nat
  <2>1. \A b \in 1 .. Len(buffers) : buffers[b].next \in Nat
    BY <1>6, BufferNumbers
  <2> QED
    BY <1>1, <2>1, Zenon
<1>9. \A i \in 0 .. D :
        /\ FileNow'[i] = FileNow[i] /\ (i # 0 => PosNow'[i] = PosNow[i])
        /\ LineNow'[i] = IF i = D THEN LineNow[i] + 1 ELSE LineNow[i]
  BY <1>4, <1>5, <1>7, <1>8 DEF FileNow, LineNow
<1>10. Reads(D, FileNow', LineNow', PosNow', delivered')
  <2>1. delivered' = delivered \o LineOf(Room(D), Expansion[Room(D) - 1], FileNow[D],
                                         LineNow[D] + 1)
    BY <1>2
  <2>2. Reads(D, FileNow', LineNow', PosNow',
              delivered \o LineOf(Room(D), Expansion[Room(D) - 1], FileNow[D], LineNow[D] + 1))
    BY <1>2, <1>3, <1>9, ReadsALine, Zenon
  <2> QED
    BY <2>1, <2>2
<1>11. \A i \in 1 .. D : NamesTheList(frames', names', FileNow', LineNow', i)
  <2> SUFFICES ASSUME NEW i \in 1 .. D
               PROVE  NamesTheList(frames', names', FileNow', LineNow', i)
    OBVIOUS
  <2>1. i - 1 \in 0 .. D /\ i - 1 # D
    BY <1>1
  <2>2. FileNow'[i - 1] = FileNow[i - 1] /\ LineNow'[i - 1] = LineNow[i - 1]
    BY <1>9, <2>1
  <2>3. NamesTheList(frames, names, FileNow, LineNow, i)
    BY <1>3
  <2>4. NamesTheList(frames, names, FileNow', LineNow', i)
    BY <2>2, <2>3, ListStays, Zenon
  <2> QED
    BY <1>4, <2>4
<1> QED
  BY <1>3, <1>4, <1>5, <1>10, <1>11 DEF TextInv

LEMMA NamesOfFrames ==
  ASSUME ReadInv, NEW i \in 1 .. Len(frames)
  PROVE  \A j \in 1 .. Len(frames[i].files) : frames[i].files[j] \in 1 .. Len(names)
<1>1. Owner \in Seq(Nat)
  BY DEF ReadInv, HeapTypeOK, Owner
<1>2. \A n \in ToSet(Owner) : n \in 1 .. Len(names)
  BY <1>1, Members DEF ReadInv, NameInv, NamesAreOwned
<1>3. \A j \in 1 .. Len(frames[i].files) : frames[i].files[j] \in ToSet(Owner)
  BY Known DEF ReadInv, NameInv, NamesAreKnown
<1> QED
  BY <1>2, <1>3

(* A file is opened in a buffer of its own, and its frame goes on top.     *)
LEMMA FilesAreIncluded ==
  ASSUME ReadInv, TextInv, pc = "scan", ~AtEof, Line \in IncludePaths,
         IncludeFn[Line].files # <<>>, Len(frames) # MaxIncludeDepth,
         IncludeFiles(IncludeFn[Line].files), pc' = "scan"
  PROVE  TextInv'
<1> DEFINE D == Len(frames)
           B == Len(buffers)
           N == Len(names)
           fs == IncludeFn[Line].files
           M == Len(fs)
           ids == [i \in 1 .. M |-> N + i]
           s == Len(streams) + 1
           fr == [files |-> ids, pos |-> 1, stream |-> s, parent |-> current]
           new == Buffer(fs[1], ids[1], s)
           made == [i \in 1 .. M |-> Name(fs[i])]
<1>1. /\ names' = names \o made
      /\ frames' = Append(frames, fr) /\ buffers' = Append(Advance, new) /\ current' = B + 1
      /\ UNCHANGED delivered
  BY DEF IncludeFiles, GiveUp
<1>2. /\ D \in Nat /\ D \in 0 .. D /\ BufferAt(D) = current
      /\ \A i \in 0 .. D : BufferAt(i) \in 1 .. B
      /\ \A i \in 0 .. D : BufferAt(i) = current => i = D
  BY BuffersOfLevels
<1>3. /\ FileNow[D] = Here.file /\ LineNow[D] + 1 = Here.next
      /\ LineNow[D] < Len(Text[FileNow[D]]) /\ Line = PathIn(FileNow, LineNow, D)
      /\ D \in 0 .. MaxIncludeDepth
  BY PlaceNow
<1>4. /\ BufferAt(0) = 1
      /\ Reads(D, FileNow, LineNow, PosNow, delivered)
      /\ \A i \in 1 .. D : NamesTheList(frames, names, FileNow, LineNow, i)
  BY DEF TextInv
<1>5. /\ buffers \in Seq(BufferType) /\ current \in 1 .. B /\ B \in Nat /\ N \in Nat
      /\ names \in Seq(NameType) /\ frames \in Seq(FrameType)
      /\ Len(streams) \in Nat /\ s \in Nat
  BY Known
<1>6. fs \in Seq(Files) /\ M \in Nat \ {0} /\ 1 \in 1 .. M /\ fs[1] \in Files
  <2>1. fs \in Seq(Files)
    BY ReadAssumption
  <2> HIDE DEF fs
  <2>2. M \in Nat \ {0}
    BY <2>1, EmptySeq DEF fs
  <2> QED
    BY <2>1, <2>2, ElementOfSeq
<1>7. /\ Len(ids) = M /\ ids \in Seq(Nat) /\ \A j \in 1 .. M : ids[j] = N + j
  BY <1>5, <1>6
<1> HIDE DEF ids, fs, s
<1>8. fr \in FrameType /\ fr.files = ids /\ fr.pos = 1 /\ fr.parent = current
  BY <1>5, <1>7 DEF FrameType, OrNull
<1>9. new \in BufferType /\ new.file = fs[1] /\ new.next = 1
  <2>1. ids[1] \in OrNull(Nat) /\ s \in OrNull(Nat)
    BY <1>5, <1>6, <1>7 DEF OrNull
  <2> QED
    BY <1>6, <2>1, NewBuffer, NewBufferText
<1> HIDE DEF fr, new
<1>10. /\ Len(frames') = D + 1
       /\ \A i \in 1 .. D : frames'[i] = frames[i]
       /\ frames'[D + 1] = fr
  BY <1>1, <1>5, <1>8, Pushed
<1>11. /\ Advance \in Seq(BufferType) /\ Len(Advance) = B
  BY <1>5, Advanced
<1>12. /\ \A b \in 1 .. B : buffers'[b] = Advance[b]
       /\ buffers'[B + 1] = new
  <2> HIDE DEF Advance
  <2> QED
    BY <1>1, <1>9, <1>11, Pushed
<1>13. \A i \in 0 .. D : BufferAt(i)' = BufferAt(i)
  <2> SUFFICES ASSUME NEW i \in 0 .. D
               PROVE  BufferAt(i)' = BufferAt(i)
    OBVIOUS
  <2>1. i # Len(frames') /\ (i = D \/ i + 1 \in 1 .. D)
    BY <1>2, <1>10
  <2>2. CASE i = D
    BY <1>8, <1>10, <2>1, <2>2 DEF BufferAt
  <2>3. CASE i # D
    BY <1>10, <2>1, <2>3 DEF BufferAt
  <2> QED
    BY <2>2, <2>3
<1>14. \A i \in {D + 1} : BufferAt(i)' = B + 1
  BY <1>1, <1>10 DEF BufferAt
<1>15. \A i \in 0 .. D :
        /\ buffers'[BufferAt(i)].file = buffers[BufferAt(i)].file
        /\ buffers'[BufferAt(i)].next = IF i = D THEN buffers[BufferAt(i)].next + 1
                                        ELSE buffers[BufferAt(i)].next
  <2> SUFFICES ASSUME NEW i \in 0 .. D
               PROVE  /\ buffers'[BufferAt(i)].file = buffers[BufferAt(i)].file
                      /\ buffers'[BufferAt(i)].next
                           = IF i = D THEN buffers[BufferAt(i)].next + 1
                             ELSE buffers[BufferAt(i)].next
    OBVIOUS
  <2> DEFINE b == BufferAt(i)
  <2>1. b \in 1 .. B /\ (i = D <=> b = current)
    BY <1>2
  <2> HIDE DEF b
  <2>2. IF b = current
        THEN Advance[b].file = buffers[b].file /\ Advance[b].next = buffers[b].next + 1
        ELSE SameText(buffers[b], Advance[b])
    BY <1>5, <2>1, AdvancedText
  <2>3. buffers'[b] = Advance[b]
    BY <1>12, <2>1
  <2>4. /\ buffers'[b].file = buffers[b].file
        /\ buffers'[b].next = IF i = D THEN buffers[b].next + 1 ELSE buffers[b].next
    BY <2>1, <2>2, <2>3, Zenon DEF SameText
  <2> QED
    BY <2>4 DEF b
<1>16. \A i \in 0 .. D : buffers[BufferAt(i)].next \in Nat
  <2>1. \A b \in 1 .. Len(buffers) : buffers[b].next \in Nat
    BY <1>5, BufferNumbers
  <2> QED
    BY <1>2, <2>1, Zenon
<1>17. /\ \A i \in 0 .. D : i \in 0 .. D + 1 /\ i # D + 1 /\ (i # 0 => i \in 1 .. D)
       /\ \A i \in 1 .. D : i \in 1 .. D + 1
       /\ D + 1 \in 0 .. D + 1 /\ D + 1 \in 1 .. D + 1
  BY <1>2
<1>18. \A i \in 0 .. D : FileNow'[i] = FileNow[i] /\ LineNow'[i] = LineNow[i]
  <2> SUFFICES ASSUME NEW i \in 0 .. D
               PROVE  FileNow'[i] = FileNow[i] /\ LineNow'[i] = LineNow[i]
    OBVIOUS
  <2> DEFINE b == BufferAt(i)
  <2>1. /\ BufferAt(i)' = b /\ i \in 0 .. Len(frames') /\ i # Len(frames')
        /\ buffers'[b].file = buffers[b].file /\ buffers[b].next \in Nat
        /\ buffers'[b].next = IF i = D THEN buffers[b].next + 1 ELSE buffers[b].next
    BY <1>10, <1>13, <1>15, <1>16, <1>17
  <2>2. FileNow'[i] = buffers'[b].file /\ LineNow'[i] = buffers'[b].next - 2
    BY <2>1 DEF FileNow, LineNow
  <2>3. FileNow[i] = buffers[b].file
        /\ LineNow[i] = IF i = D THEN buffers[b].next - 1 ELSE buffers[b].next - 2
    BY DEF FileNow, LineNow
  <2> HIDE DEF b
  <2> QED
    BY <2>1, <2>2, <2>3
<1>19. \A i \in 1 .. D : PosNow'[i] = PosNow[i]
  BY <1>10, <1>17 DEF PosNow
<1>20. FileNow'[D + 1] = fs[1] /\ LineNow'[D + 1] = 0 /\ PosNow'[D + 1] = 1
  <2> SUFFICES ASSUME NEW n, n = D + 1
               PROVE  FileNow'[n] = fs[1] /\ LineNow'[n] = 0 /\ PosNow'[n] = 1
    BY Zenon
  <2>1. /\ BufferAt(n)' = B + 1 /\ Len(frames') = n /\ n \in 0 .. n /\ n \in 1 .. n
        /\ frames'[n] = fr
    BY <1>2, <1>10, <1>14
  <2>2. /\ FileNow'[n] = new.file /\ LineNow'[n] = new.next - 1 /\ PosNow'[n] = fr.pos
    BY <1>12, <2>1 DEF FileNow, LineNow, PosNow
  <2> QED
    BY <1>8, <1>9, <2>2
<1>21. Reads(D + 1, FileNow', LineNow', PosNow', delivered)
  <2> DEFINE F == FileNow
             R == LineNow
             P == PosNow
             F2 == FileNow'
             R2 == LineNow'
             P2 == PosNow'
  <2>1. /\ Reads(D, F, R, P, delivered)
        /\ D < MaxIncludeDepth /\ R[D] < Len(Text[F[D]])
        /\ PathIn(F, R, D) \in IncludePaths /\ IncludeFn[PathIn(F, R, D)].files # <<>>
        /\ F2[D + 1] = IncludeFn[PathIn(F, R, D)].files[1] /\ R2[D + 1] = 0 /\ P2[D + 1] = 1
    BY <1>3, <1>4, <1>20, ReadAssumption DEF fs
  <2>2. \A i \in 0 .. D : F2[i] = F[i] /\ R2[i] = R[i] /\ (i # 0 => P2[i] = P[i])
    BY <1>17, <1>18, <1>19
  <2> HIDE DEF D, F, R, P, F2, R2, P2
  <2>3. /\ Reads(D, F, R, P, delivered)
        /\ D < MaxIncludeDepth
    BY <2>1
  <2>4. R[D] < Len(Text[F[D]])
    BY <2>1
  <2>5. PathIn(F, R, D) \in IncludePaths
    BY <2>1
  <2>6. IncludeFn[PathIn(F, R, D)].files # <<>>
    BY <2>1
  <2>7. F2[D + 1] = IncludeFn[PathIn(F, R, D)].files[1]
    BY <2>1
  <2>8. R2[D + 1] = 0
    BY <2>1
  <2>9. P2[D + 1] = 1
    BY <2>1
  <2>10. Reads(D + 1, F2, R2, P2, delivered)
    BY <2>2, <2>3, <2>4, <2>5, <2>6, <2>7, <2>8, <2>9, ReadsInto
  <2> QED
    BY <2>10 DEF D, F2, R2, P2
<1>22. \A n \in 1 .. N : names'[n].file = names[n].file
  <2>1. \A i \in 1 .. M : made[i] \in NameType
    BY <1>6, ElementOfSeq DEF Name, NameType
  <2>2. made \in Seq(NameType)
    BY <1>6, <2>1
  <2> HIDE DEF made
  <2>3. \A n \in 1 .. N : names'[n] = names[n]
    BY <1>1, <1>5, <2>2, ConcatProperties
  <2> QED
    BY <2>3
<1>23. \A j \in 1 .. M : names'[N + j].file = fs[j]
  <2>1. /\ Len(made) = M /\ made \in Seq(NameType)
        /\ \A i \in 1 .. M : made[i].file = fs[i]
    <3>1. \A i \in 1 .. M : Name(fs[i]) \in NameType /\ Name(fs[i]).file = fs[i]
      BY <1>6, ElementOfSeq DEF Name, NameType
    <3> QED
      BY <1>6, <3>1
  <2> HIDE DEF made
  <2>2. \A n \in 1 .. N + M : names'[n] = IF n <= N THEN names[n] ELSE made[n - N]
    BY <1>1, <1>5, <2>1, ConcatProperties
  <2> SUFFICES ASSUME NEW j \in 1 .. M
               PROVE  names'[N + j].file = fs[j]
    OBVIOUS
  <2>3. N + j \in 1 .. N + M /\ ~(N + j <= N) /\ (N + j) - N = j
    BY <1>5, <1>6
  <2>4. names'[N + j] = made[j]
    BY <2>2, <2>3, Zenon
  <2> QED
    BY <2>1, <2>4
<1>24. ASSUME NEW i \in 1 .. D
       PROVE  NamesTheList(frames', names', FileNow', LineNow', i)
  <2>1. i - 1 \in 0 .. D
    BY <1>2
  <2>2. FileNow'[i - 1] = FileNow[i - 1] /\ LineNow'[i - 1] = LineNow[i - 1]
    BY <1>18, <2>1
  <2>3. NamesTheList(frames, names, FileNow, LineNow, i)
    BY <1>4
  <2>4. frames'[i].files = frames[i].files
    BY <1>10
  <2>5. \A j \in 1 .. Len(frames[i].files) : frames[i].files[j] \in 1 .. N
    BY NamesOfFrames
  <2>6. \A j \in 1 .. Len(frames[i].files) :
          names'[frames[i].files[j]].file = names[frames[i].files[j]].file
    BY <1>22, <2>5
  <2> QED
    BY <2>2, <2>3, <2>4, <2>6, ListStays, Zenon
<1>25. NamesTheList(frames', names', FileNow', LineNow', D + 1)
  <2>1. (D + 1) - 1 = D
    BY <1>2
  <2>2. PathIn(FileNow', LineNow', D) = Line
    BY <1>2, <1>3, <1>18, Zenon DEF PathIn
  <2>3. ListIn(FileNow', LineNow', D + 1) = fs
    BY <2>1, <2>2, Zenon DEF ListIn, fs
  <2>4. \A j \in 1 .. M : names'[ids[j]].file = fs[j]
    BY <1>7, <1>23
  <2>5. frames'[D + 1].files = ids
    BY <1>8, <1>10
  <2> QED
    BY <1>7, <2>3, <2>4, <2>5 DEF NamesTheList
<1>26. \A i \in 1 .. D + 1 : i \in 1 .. D \/ i = D + 1
  BY <1>2
<1>27. BufferAt(0)' = 1
  BY <1>2, <1>4, <1>13
<1>28. \A i \in 1 .. D + 1 : NamesTheList(frames', names', FileNow', LineNow', i)
  BY <1>24, <1>25, <1>26
<1> QED
  BY <1>1, <1>10, <1>21, <1>27, <1>28 DEF TextInv

(* The next file of the list takes the place of the one at its end.        *)
LEMMA NextIsOpened ==
  ASSUME ReadInv, TextInv, NextFile, pc' = "scan"
  PROVE  TextInv'
<1> DEFINE D == Len(frames)
           B == Len(buffers)
           id == Top.files[Top.pos + 1]
           f == names[id].file
           s == Len(streams) + 1
           h == IF f \in present THEN s ELSE NULL
           g == [Top EXCEPT !.pos = @ + 1, !.stream = h]
           new == Buffer(f, id, s)
<1>1. /\ pc = "scan" /\ AtEof /\ frames # <<>> /\ Top.pos < Len(Top.files)
      /\ frames' = [frames EXCEPT ![Depth] = g]
      /\ buffers' = Append(Delete({current}), new)
      /\ current' = B + 1 /\ UNCHANGED <<names, delivered>>
  BY DEF NextFile, GiveUp
<1>2. /\ D \in Nat /\ D \in 0 .. D /\ BufferAt(D) = current
      /\ \A i \in 0 .. D : BufferAt(i) \in 1 .. B
      /\ \A i \in 0 .. D : BufferAt(i) = current => i = D
  BY <1>1, BuffersOfLevels
<1>3. D # 0 /\ D \in 1 .. D /\ Ids(frames) = 1 .. D
  BY <1>1, <1>2, Known
<1>4. LineNow[D] = Len(Text[FileNow[D]])
  BY <1>1, PlaceNow
<1>5. /\ BufferAt(0) = 1
      /\ Reads(D, FileNow, LineNow, PosNow, delivered)
      /\ \A i \in 1 .. D : NamesTheList(frames, names, FileNow, LineNow, i)
  BY <1>1 DEF TextInv
<1>6. /\ buffers \in Seq(BufferType) /\ current \in 1 .. B /\ B \in Nat
      /\ frames \in Seq(FrameType) /\ names \in Seq(NameType)
      /\ Len(streams) \in Nat /\ s \in Nat
  BY <1>1, Known
<1>7. /\ Top = frames[D] /\ Top \in FrameType /\ Top.pos \in Nat
      /\ Top.pos + 1 \in 1 .. Len(Top.files)
  <2>1. Top = frames[D] /\ Top \in FrameType
    BY <1>3, <1>6, ElementOfSeq DEF Top, Depth
  <2>2. Top.pos \in Nat /\ Len(Top.files) \in Nat
    BY <2>1 DEF FrameType
  <2> QED
    BY <1>1, <2>1, <2>2
<1>8. id \in 1 .. Len(names) /\ id \in Nat /\ f \in Files
  <2>1. id \in 1 .. Len(names)
    BY <1>3, <1>7, NamesOfFrames
  <2>2. names[id] \in NameType
    BY <1>6, <2>1, ElementOfSeq
  <2> QED
    BY <1>6, <2>1, <2>2 DEF NameType
<1>9. g \in FrameType /\ g.files = Top.files /\ g.parent = Top.parent /\ g.pos = Top.pos + 1
  <2> DEFINE n == Top.pos + 1
  <2>1. n \in Nat /\ h \in OrNull(Nat)
    BY <1>6, <1>7 DEF OrNull
  <2> HIDE DEF n, h
  <2>2. /\ [Top EXCEPT !.pos = n, !.stream = h] \in FrameType
        /\ [Top EXCEPT !.pos = n, !.stream = h].files = Top.files
        /\ [Top EXCEPT !.pos = n, !.stream = h].parent = Top.parent
        /\ [Top EXCEPT !.pos = n, !.stream = h].pos = n
    BY <1>7, <2>1 DEF FrameType
  <2> QED
    BY <2>2 DEF n
<1> HIDE DEF g
<1>10. /\ Len(frames') = D /\ frames'[D] = g
       /\ \A i \in 1 .. D : i # D => frames'[i] = frames[i]
  BY <1>1, <1>9, Replaced
<1>11. \A i \in 1 .. D : frames'[i].parent = frames[i].parent /\ frames'[i].files = frames[i].files
  BY <1>7, <1>9, <1>10
<1>12. new \in BufferType /\ new.file = f /\ new.next = 1
  <2>1. id \in OrNull(Nat) /\ s \in OrNull(Nat)
    BY <1>6, <1>8 DEF OrNull
  <2> HIDE DEF id, f, s
  <2> QED
    BY <1>8, <2>1, NewBuffer, NewBufferText
<1> HIDE DEF new
<1>13. /\ \A b \in 1 .. B : SameText(buffers[b], buffers'[b])
       /\ buffers'[B + 1] = new
  <2>1. Delete({current}) \in Seq(BufferType) /\ Len(Delete({current})) = B
    BY <1>6, Deleted
  <2>2. \A b \in 1 .. B : SameText(buffers[b], Delete({current})[b])
    BY <1>6, DeletedText
  <2> HIDE DEF Delete
  <2>3. /\ \A b \in 1 .. B : buffers'[b] = Delete({current})[b]
        /\ buffers'[B + 1] = new
    BY <1>1, <1>12, <2>1, Pushed
  <2> QED
    BY <2>2, <2>3
<1>14. ASSUME NEW i \in 0 .. D - 1
       PROVE  /\ BufferAt(i)' = BufferAt(i)
              /\ FileNow'[i] = FileNow[i] /\ LineNow'[i] = LineNow[i]
              /\ i # 0 => PosNow'[i] = PosNow[i]
  <2> DEFINE b == BufferAt(i)
  <2>1. /\ i \in 0 .. D /\ i # D /\ i + 1 \in 1 .. D
        /\ i # 0 => i \in 1 .. D
    BY <1>2
  <2>2. BufferAt(i)' = b
    BY <1>10, <1>11, <2>1 DEF BufferAt
  <2>3. SameText(buffers[b], buffers'[b])
    BY <1>2, <1>13, <2>1
  <2>4. FileNow[i] = buffers[b].file /\ LineNow[i] = buffers[b].next - 2
    BY <2>1 DEF FileNow, LineNow
  <2>5. FileNow'[i] = buffers'[b].file /\ LineNow'[i] = buffers'[b].next - 2
    BY <1>10, <2>1, <2>2 DEF FileNow, LineNow
  <2>6. i # 0 => PosNow'[i] = PosNow[i]
    BY <1>10, <2>1 DEF PosNow
  <2> QED
    BY <2>2, <2>3, <2>4, <2>5, <2>6, Zenon DEF SameText
<1>15. FileNow'[D] = f /\ LineNow'[D] = 0 /\ PosNow'[D] = PosNow[D] + 1
  <2> SUFFICES ASSUME NEW n, n = D
               PROVE  FileNow'[n] = f /\ LineNow'[n] = 0 /\ PosNow'[n] = PosNow[n] + 1
    BY Zenon
  <2>1. /\ Len(frames') = n /\ Len(frames) = n /\ n \in 0 .. n /\ n \in 1 .. n
        /\ frames'[n] = g /\ frames[n] = Top
    BY <1>2, <1>3, <1>7, <1>10
  <2>2. BufferAt(n)' = B + 1
    BY <1>1, <2>1 DEF BufferAt
  <2>3. FileNow'[n] = new.file /\ LineNow'[n] = new.next - 1 /\ PosNow'[n] = g.pos
    BY <1>13, <2>1, <2>2 DEF FileNow, LineNow, PosNow
  <2>4. PosNow[n] = Top.pos
    BY <2>1 DEF PosNow
  <2> QED
    BY <1>9, <1>12, <2>3, <2>4
<1>16. PosNow[D] = Top.pos
  BY <1>3, <1>7 DEF PosNow
<1>17. /\ Len(ListIn(FileNow, LineNow, D)) = Len(Top.files)
       /\ f = ListIn(FileNow, LineNow, D)[Top.pos + 1]
  <2>1. NamesTheList(frames, names, FileNow, LineNow, D)
    BY <1>3, <1>5
  <2> QED
    BY <1>7, <2>1 DEF NamesTheList
<1>18. Reads(D, FileNow', LineNow', PosNow', delivered)
  <2> DEFINE F == FileNow
             R == LineNow
             P == PosNow
             F2 == FileNow'
             R2 == LineNow'
             P2 == PosNow'
  <2>1. Reads(D, F, R, P, delivered)
    BY <1>5
  <2>2. \A i \in 0 .. D - 1 : F2[i] = F[i] /\ R2[i] = R[i] /\ (i # 0 => P2[i] = P[i])
    BY <1>14
  <2>3. R[D] = Len(Text[F[D]])
    BY <1>4
  <2>4. P[D] < Len(ListIn(F, R, D))
    BY <1>1, <1>16, <1>17
  <2>5. F2[D] = ListIn(F, R, D)[P[D] + 1]
    BY <1>15, <1>16, <1>17
  <2>6. R2[D] = 0 /\ P2[D] = P[D] + 1
    BY <1>15
  <2>7. D # 0
    BY <1>3
  <2> HIDE DEF D, F, R, P, F2, R2, P2
  <2>8. Reads(D, F2, R2, P2, delivered)
    BY <2>1, <2>2, <2>3, <2>4, <2>5, <2>6, <2>7, ReadsNextFile
  <2> QED
    BY <2>8 DEF F2, R2, P2
<1>19. ASSUME NEW i \in 1 .. D
       PROVE  NamesTheList(frames', names', FileNow', LineNow', i)
  <2>1. i - 1 \in 0 .. D - 1
    BY <1>2
  <2>2. FileNow'[i - 1] = FileNow[i - 1] /\ LineNow'[i - 1] = LineNow[i - 1]
    BY <1>14, <2>1
  <2>3. NamesTheList(frames, names, FileNow, LineNow, i)
    BY <1>5
  <2>4. frames'[i].files = frames[i].files /\ names' = names
    BY <1>1, <1>11
  <2>5. \A j \in 1 .. Len(frames[i].files) :
          names'[frames[i].files[j]].file = names[frames[i].files[j]].file
    BY <2>4
  <2> QED
    BY <2>2, <2>3, <2>4, <2>5, ListStays, Zenon
<1>20. BufferAt(0)' = 1
  BY <1>2, <1>3, <1>5, <1>14
<1> QED
  BY <1>1, <1>10, <1>18, <1>19, <1>20 DEF TextInv

(* The buffer below becomes the current one again.                         *)
LEMMA BelowGoesOn ==
  ASSUME ReadInv, TextInv, EndOfInclude
  PROVE  TextInv'
<1> DEFINE D == Len(frames)
           B == Len(buffers)
<1>1. /\ pc = "scan" /\ AtEof /\ frames # <<>> /\ Top.pos = Len(Top.files)
      /\ frames' = Front(frames) /\ buffers' = Delete({current}) /\ current' = Top.parent
      /\ UNCHANGED <<names, delivered>>
  BY DEF EndOfInclude, PopInclude
<1>2. /\ D \in Nat /\ D \in 0 .. D /\ BufferAt(D) = current
      /\ \A i \in 0 .. D : BufferAt(i) \in 1 .. B
  BY <1>1, BuffersOfLevels
<1>3. D # 0 /\ D \in 1 .. D /\ Ids(frames) = 1 .. D
  BY <1>1, <1>2, Known
<1>4. LineNow[D] = Len(Text[FileNow[D]])
  BY <1>1, PlaceNow
<1>5. /\ BufferAt(0) = 1
      /\ Reads(D, FileNow, LineNow, PosNow, delivered)
      /\ \A i \in 1 .. D : NamesTheList(frames, names, FileNow, LineNow, i)
  BY <1>1 DEF TextInv
<1>6. /\ buffers \in Seq(BufferType) /\ frames \in Seq(FrameType)
  BY <1>1, Known
<1>7. Len(frames') = D - 1 /\ \A i \in 1 .. D - 1 : frames'[i] = frames[i]
  BY <1>1, <1>6, Popped
<1>8. \A b \in 1 .. B : SameText(buffers[b], buffers'[b]) /\ buffers[b].next \in Nat
  BY <1>1, <1>6, DeletedText, BufferNumbers
<1>9. Top = frames[D]
  BY DEF Top, Depth
<1>10. ASSUME NEW i \in 0 .. D - 1
       PROVE  /\ BufferAt(i)' = BufferAt(i)
              /\ FileNow'[i] = FileNow[i]
              /\ LineNow'[i] = IF i = D - 1 THEN LineNow[i] + 1 ELSE LineNow[i]
              /\ i # 0 => PosNow'[i] = PosNow[i]
  <2> DEFINE b == BufferAt(i)
  <2>1. /\ i \in 0 .. D /\ i # D /\ i + 1 \in 1 .. D
        /\ i # 0 => i \in 1 .. D /\ i \in 1 .. D - 1
        /\ i # D - 1 => i + 1 \in 1 .. D - 1
        /\ i = D - 1 => i + 1 = D
    BY <1>2
  <2>2. BufferAt(i)' = b
    <3>1. b = frames[i + 1].parent
      BY <2>1 DEF BufferAt
    <3>2. CASE i = D - 1
      BY <1>1, <1>7, <1>9, <2>1, <3>1, <3>2 DEF BufferAt
    <3>3. CASE i # D - 1
      BY <1>7, <2>1, <3>1, <3>3 DEF BufferAt
    <3> QED
      BY <3>2, <3>3
  <2>3. SameText(buffers[b], buffers'[b]) /\ buffers[b].next \in Nat
    BY <1>2, <1>8, <2>1
  <2>4. FileNow[i] = buffers[b].file /\ LineNow[i] = buffers[b].next - 2
    BY <2>1 DEF FileNow, LineNow
  <2>5. /\ FileNow'[i] = buffers'[b].file
        /\ LineNow'[i] = IF i = D - 1 THEN buffers'[b].next - 1 ELSE buffers'[b].next - 2
    BY <1>7, <2>1, <2>2 DEF FileNow, LineNow
  <2>6. i # 0 => PosNow'[i] = PosNow[i]
    BY <1>7, <2>1 DEF PosNow
  <2> HIDE DEF b
  <2> QED
    BY <2>2, <2>3, <2>4, <2>5, <2>6 DEF SameText, b
<1>11. PosNow[D] = Len(ListIn(FileNow, LineNow, D))
  <2>1. NamesTheList(frames, names, FileNow, LineNow, D)
    BY <1>3, <1>5
  <2>2. PosNow[D] = Top.pos
    BY <1>3, <1>9 DEF PosNow
  <2> QED
    BY <1>1, <1>9, <2>1, <2>2 DEF NamesTheList
<1>12. Reads(D - 1, FileNow', LineNow', PosNow', delivered)
  <2> DEFINE F == FileNow
             R == LineNow
             P == PosNow
             F2 == FileNow'
             R2 == LineNow'
             P2 == PosNow'
  <2>1. Reads(D, F, R, P, delivered)
    BY <1>5
  <2>2. \A i \in 0 .. D - 1 : /\ F2[i] = F[i] /\ (i # 0 => P2[i] = P[i])
                              /\ R2[i] = IF i = D - 1 THEN R[i] + 1 ELSE R[i]
    BY <1>10
  <2>3. R[D] = Len(Text[F[D]])
    BY <1>4
  <2>4. P[D] = Len(ListIn(F, R, D))
    BY <1>11
  <2>5. D # 0
    BY <1>3
  <2> HIDE DEF D, F, R, P, F2, R2, P2
  <2>6. Reads(D - 1, F2, R2, P2, delivered)
    BY <2>1, <2>2, <2>3, <2>4, <2>5, ReadsBack
  <2> QED
    BY <2>6 DEF D, F2, R2, P2
<1>13. ASSUME NEW i \in 1 .. D - 1
       PROVE  NamesTheList(frames', names', FileNow', LineNow', i)
  <2>1. i - 1 \in 0 .. D - 1 /\ i - 1 # D - 1 /\ i \in 1 .. D
    BY <1>2
  <2>2. FileNow'[i - 1] = FileNow[i - 1] /\ LineNow'[i - 1] = LineNow[i - 1]
    BY <1>10, <2>1
  <2>3. NamesTheList(frames, names, FileNow, LineNow, i)
    BY <1>5, <2>1
  <2>4. frames'[i].files = frames[i].files /\ names' = names
    BY <1>1, <1>7
  <2>5. \A j \in 1 .. Len(frames[i].files) :
          names'[frames[i].files[j]].file = names[frames[i].files[j]].file
    BY <2>4
  <2> QED
    BY <2>2, <2>3, <2>4, <2>5, ListStays, Zenon
<1>14. BufferAt(0)' = 1
  BY <1>2, <1>3, <1>5, <1>10
<1> QED
  BY <1>1, <1>7, <1>12, <1>13, <1>14 DEF TextInv

(* What a line of the text gives to the parser.                            *)
LEMMA LineGives ==
  ASSUME ReadInv, TextInv, pc = "scan"
  PROVE  /\ delivered \in Seq(Place)
         /\ Line = "setting" =>
              LineOf(Room(Len(frames)), Expansion[Room(Len(frames)) - 1], Here.file, Here.next)
                = <<<<Here.file, Here.next>>>>
         /\ Line \in IncludePaths /\ IncludeFn[Line].files = <<>>
              /\ Len(frames) # MaxIncludeDepth =>
              LineOf(Room(Len(frames)), Expansion[Room(Len(frames)) - 1], Here.file, Here.next)
                = <<>>
<1> DEFINE D == Len(frames)
           d == Room(D)
           v == Expansion[d - 1]
<1>1. D \in 0 .. MaxIncludeDepth
  BY PlaceNow
<1>2. delivered \in Seq(Place)
  <2>1. Reads(D, FileNow, LineNow, PosNow, delivered)
    BY DEF TextInv
  <2>2. PICK done \in [0 .. D -> Seq(Place)] : done[D] = delivered
    BY <2>1 DEF Reads
  <2> QED
    BY <1>1, <2>2
<1>3. Line = "setting" => LineOf(d, v, Here.file, Here.next) = <<<<Here.file, Here.next>>>>
  BY Zenon DEF LineOf, Line
<1>4. ASSUME Line \in IncludePaths, IncludeFn[Line].files = <<>>, D # MaxIncludeDepth
      PROVE  LineOf(d, v, Here.file, Here.next) = <<>>
  <2>1. d # 0 /\ d - 1 \in 0 .. MaxIncludeDepth
    BY <1>1, <1>4, ReadAssumption DEF Room
  <2>2. v \in Texts
    BY <2>1, ExpansionUnfolds
  <2> DEFINE s == FilesOf(v, Line)
  <2>3. s \in Seq(Seq(Place)) /\ Len(s) = 0
    BY <1>4, <2>2, FilesAreSequences
  <2>4. Line # "setting" /\ Line # "bad"
    BY <1>4, ReadAssumption
  <2>5. LineOf(d, v, Here.file, Here.next) = FlattenSeq(s)
    BY <2>1, <2>4, Zenon DEF LineOf, ListOf, Line
  <2> HIDE DEF s
  <2>6. FlattenSeq(s) = JoinedUpTo(s)[0] /\ Joins(JoinedUpTo(s), s)
    BY <2>3, FlattenJoins
  <2> QED
    BY <2>5, <2>6, Zenon DEF Joins
<1> QED
  BY <1>2, <1>3, <1>4

LEMMA TextInvStep ==
  ASSUME ReadInv, TextInv, [Next]_vars
  PROVE  TextInv'
<1>1. CASE ScanSetting
  <2>1. /\ pc = "scan" /\ ~AtEof /\ Line = "setting" /\ buffers' = Advance
        /\ delivered' = Append(delivered, <<Here.file, Here.next>>)
        /\ UNCHANGED <<current, frames, names>>
    BY <1>1 DEF ScanSetting
  <2> DEFINE x == <<Here.file, Here.next>>
  <2>2. delivered \in Seq(Place) /\ x \in Place
    BY <2>1, LineGives, PlaceNow DEF Place
  <2>3. /\ LineOf(Room(Len(frames)), Expansion[Room(Len(frames)) - 1], Here.file, Here.next)
             = <<x>>
    BY <2>1, LineGives, Zenon
  <2> HIDE DEF x
  <2>4. Append(delivered, x) = delivered \o <<x>>
    BY <2>2, AppendIsConcat
  <2>5. delivered' = delivered \o LineOf(Room(Len(frames)), Expansion[Room(Len(frames)) - 1],
                                         Here.file, Here.next)
    BY <2>1, <2>3, <2>4, Zenon DEF x
  <2> QED
    BY <2>1, <2>5, LineIsRead
<1>2. CASE ScanInclude
  <2> DEFINE r == IncludeFn[Line]
  <2>1. /\ pc = "scan" /\ ~AtEof /\ Line \in IncludePaths
        /\ \/ \E text : IncludeRefused(text)
           \/ r.files = <<>> /\ Depth # MaxIncludeDepth /\ IncludeNothing
           \/ r.files # <<>> /\ Depth # MaxIncludeDepth /\ IncludeFiles(r.files)
    BY <1>2, Zenon DEF ScanInclude
  <2>2. CASE \E text : IncludeRefused(text)
    <3>1. pc' = "failed"
      BY <2>2 DEF IncludeRefused, GiveUp
    <3> QED
      BY <3>1 DEF TextInv
  <2>3. CASE r.files = <<>> /\ Depth # MaxIncludeDepth /\ IncludeNothing
    <3>1. buffers' = Advance /\ UNCHANGED <<current, frames, names, delivered>>
      BY <2>3 DEF IncludeNothing
    <3>2. delivered \in Seq(Place)
      BY <2>1, LineGives
    <3>3. LineOf(Room(Len(frames)), Expansion[Room(Len(frames)) - 1], Here.file, Here.next)
            = <<>>
      BY <2>1, <2>3, LineGives, Zenon DEF Depth
    <3>4. delivered \o <<>> = delivered
      BY <3>2, ConcatEmptySeq
    <3>5. delivered' = delivered \o LineOf(Room(Len(frames)), Expansion[Room(Len(frames)) - 1],
                                           Here.file, Here.next)
      BY <3>1, <3>3, <3>4, Zenon
    <3> QED
      BY <2>1, <3>1, <3>5, LineIsRead
  <2>4. CASE r.files # <<>> /\ Depth # MaxIncludeDepth /\ IncludeFiles(r.files)
    <3>1. pc' = "scan" => TextInv'
      BY <2>1, <2>4, FilesAreIncluded DEF Depth
    <3> QED
      BY <3>1 DEF TextInv
  <2> QED
    BY <2>1, <2>2, <2>3, <2>4
<1>3. CASE ScanBad \/ EndOfInput \/ ReturnFailure \/ Unwind \/ FilesChange
  <2>1. pc' # "scan"
    BY <1>3 DEF ScanBad, GiveUp, EndOfInput, ReturnFailure, Release, Unwind, PopInclude,
                FilesChange
  <2> QED
    BY <2>1 DEF TextInv
<1>4. CASE NextFile
  <2>1. pc' = "scan" => TextInv'
    BY <1>4, NextIsOpened
  <2> QED
    BY <2>1 DEF TextInv
<1>5. CASE EndOfInclude
  BY <1>5, BelowGoesOn
<1>6. CASE Program
  <2>1. CASE \E f \in Files : \E stream, nm : StartRead(f, stream, nm)
    BY <2>1, StartReadsNothing, Zenon
  <2>2. CASE pc' = "idle"
    BY <2>2 DEF TextInv
  <2>3. ASSUME NEW f \in Files, ConfigReadFile(f)
        PROVE  \/ \E stream, nm : StartRead(f, stream, nm)
               \/ pc' = "idle"
    BY <2>3, Zenon DEF ConfigReadFile, Call, IoError
  <2>4. ASSUME NEW f \in Files, ConfigReadString(f)
        PROVE  \E stream, nm : StartRead(f, stream, nm)
    BY <2>4, Zenon DEF ConfigReadString
  <2>5. ConfigWriteFile \/ ConfigClear \/ ConfigDestroy => pc' = "idle"
    BY DEF ConfigWriteFile, ConfigClear, ConfigDestroy, Call, IoError
  <2> QED
    BY <1>6, <2>1, <2>2, <2>3, <2>4, <2>5, Zenon DEF Program
<1>7. CASE UNCHANGED vars
  <2>1. UNCHANGED <<pc, buffers, current, frames, names, delivered>>
    BY <1>7 DEF vars
  <2> QED
    BY <2>1 DEF TextInv, BufferAt, FileNow, LineNow, PosNow
<1> QED
  BY <1>1, <1>2, <1>3, <1>4, <1>5, <1>6, <1>7, Zenon DEF Next, Read

(***************************************************************************)
(* A read that succeeds has handed the parser the whole text (the @include *)
(* and end-of-file rules of scanner.l, libconfig_scanctx_push_include(),   *)
(* _next_include_file() and _pop_include()): whatever the files hold and   *)
(* include, each in the place of its @include, in order, as often as it is *)
(* included, and down to the depth the stack allows.                       *)
(***************************************************************************)
THEOREM WholeTextIsRead == Spec => ReturnsWholeText
<1> DEFINE I == ReadInv /\ TextInv
<1>1. Init => I
  BY InitEstablishes DEF Init, TextInv
<1>2. I /\ [Next]_vars => I'
  BY ReadStepPreserves, TextInvStep
<1>3. I /\ [Next]_vars =>
        [pc = "scan" /\ pc' = "idle" =>
           delivered = Expansion[MaxIncludeDepth][buffers[1].file]]_vars
  <2> SUFFICES ASSUME I, Next, pc = "scan", pc' = "idle"
               PROVE  delivered = Expansion[MaxIncludeDepth][buffers[1].file]
    BY DEF vars
  <2>1. EndOfInput
    <3>1. ~ScanSetting /\ ~ScanBad /\ ~EndOfInclude /\ ~Unwind /\ ~ReturnFailure
      BY DEF ScanSetting, ScanBad, GiveUp, EndOfInclude, PopInclude, Unwind, ReturnFailure
    <3>2. ~ScanInclude
      BY Zenon DEF ScanInclude, IncludeRefused, GiveUp, IncludeNothing, IncludeFiles
    <3>3. ~NextFile
      BY Zenon DEF NextFile, GiveUp
    <3>4. ~Program /\ ~FilesChange
      BY Zenon DEF Program, ConfigReadFile, ConfigReadString, ConfigWriteFile, ConfigClear,
                   ConfigDestroy, Call, FilesChange
    <3> QED
      BY <3>1, <3>2, <3>3, <3>4 DEF Next, Read
  <2>2. AtEof /\ frames = <<>>
    BY <2>1 DEF EndOfInput
  <2>3. Len(frames) = 0
    BY <2>2
  <2>4. Reads(0, FileNow, LineNow, PosNow, delivered) /\ BufferAt(0) = 1
    BY <2>3 DEF TextInv
  <2>5. LineNow[0] = Len(Text[FileNow[0]])
    BY <2>2, <2>3, PlaceNow
  <2>6. delivered = Expansion[MaxIncludeDepth][FileNow[0]]
    BY <2>4, <2>5, ReadsAll
  <2>7. FileNow[0] = buffers[1].file
    BY <2>3, <2>4 DEF FileNow
  <2> QED
    BY <2>6, <2>7
<1> QED
  BY <1>1, <1>2, <1>3, PTL DEF Spec, ReturnsWholeText
=============================================================================
