--------------------------- MODULE ScanBufferProofs ---------------------------
(***************************************************************************)
(* Proofs about ScanBuffer, for all files, sizes of buffers and of reads,  *)
(* depths of inclusion, and all tables that meet the assumptions of        *)
(* ScanRules: the buffers are sound, and the scanner implements Lexer.     *)
(***************************************************************************)
EXTENDS ScanBuffer, Lemmas, FunctionTheorems, FiniteSetTheorems

-----------------------------------------------------------------------------
(* Ways through the tables.                                                *)

(* A step over a character of a buffer, where 0 may be the end, or of a    *)
(* text.                                                                   *)
Step(kind, s, c) == NextState[s][IF kind = "buffer" THEN Ec(c) ELSE ClassOf(c)]

(* w is a way over the characters of a text from position first to last.   *)
Walks(w, text, kind, first, last) ==
  /\ w \in [first .. last -> States]
  /\ \A i \in first + 1 .. last : w[i] = Step(kind, w[i - 1], text[i - 1])

LEMMA StepType ==
  ASSUME NEW kind, NEW s \in States, NEW c \in Characters
  PROVE  Step(kind, s, c) \in States
  BY TablesAssumption DEF Step

(* There is a way.                                                         *)
IsWay(f, text, kind, s, first, last) ==
  f = [i \in first .. last |-> IF i = first THEN s ELSE Step(kind, f[i - 1], text[i - 1])]

LEMMA WayExists ==
  ASSUME NEW text, NEW kind, NEW s \in States,
         NEW first \in Nat, NEW last \in Nat, first <= last,
         \A i \in first .. last - 1 : text[i] \in Characters,
         NEW h, h = CHOOSE f : IsWay(f, text, kind, s, first, last)
  PROVE  Walks(h, text, kind, first, last) /\ h[first] = s
<1> DEFINE N == last - first
           comb == [kv \in (1 .. N) \X States |-> Step(kind, kv[2], text[first + kv[1] - 1])]
           Is(f) == IsWay(f, text, kind, s, first, last)
<1>1. N \in Nat
  OBVIOUS
<1>2. \A k \in 1 .. N, v \in States : comb[<<k, v>>] = Step(kind, v, text[first + k - 1])
  BY Zenon
<1>3. \A k \in 1 .. N : text[first + k - 1] \in Characters
  OBVIOUS
<1>4. \A k \in 1 .. N, v \in States : comb[<<k, v>>] \in States
  <2> HIDE DEF comb
  <2> QED
    BY <1>2, <1>3, StepType, Zenon
<1>5. PICK g \in [0 .. N -> States] : Counts(g, N, s, comb)
  <2> HIDE DEF comb, N
  <2> QED
    BY <1>1, <1>4, CountedExists, Zenon
<1>6. g[0] = s /\ \A k \in 1 .. N : g[k] = Step(kind, g[k - 1], text[first + k - 1])
  <2>1. \A k \in 1 .. N : g[k - 1] \in States
    BY <1>5
  <2> HIDE DEF comb
  <2> QED
    BY <1>2, <1>5, <2>1, Zenon DEF Counts
<1> DEFINE w == [i \in first .. last |-> g[i - first]]
<1>7. ASSUME NEW i \in first .. last
      PROVE  w[i] = IF i = first THEN s ELSE Step(kind, w[i - 1], text[i - 1])
  <2>1. CASE i = first
    BY <1>6, <2>1
  <2>2. CASE i # first
    <3>1. /\ i - first \in 1 .. N /\ first + (i - first) - 1 = i - 1
          /\ i - 1 \in first .. last /\ (i - first) - 1 = (i - 1) - first
      BY <2>2
    <3>2. g[i - first] = Step(kind, g[(i - first) - 1], text[first + (i - first) - 1])
      BY <1>6, <3>1
    <3>3. w[i - 1] = g[(i - 1) - first] /\ w[i] = g[i - first]
      BY <3>1
    <3> HIDE DEF w
    <3> QED
      BY <2>2, <3>1, <3>2, <3>3
  <2> QED
    BY <2>1, <2>2
<1>8. Is(w)
  <2>1. w = [i \in first .. last |-> w[i]]
    OBVIOUS
  <2> HIDE DEF w
  <2> QED
    BY <1>7, <2>1, Zenon DEF IsWay
<1>9. Is(h)
  <2> HIDE DEF w
  <2> QED
    BY <1>8, Zenon
<1>10. DOMAIN h = first .. last /\ \A i \in first .. last :
         h[i] = IF i = first THEN s ELSE Step(kind, h[i - 1], text[i - 1])
  BY <1>9, Zenon DEF IsWay
<1>11. h = [i \in first .. last |-> h[i]]
  BY <1>9, <1>10 DEF IsWay
<1>12. \A k \in 0 .. N : h[first + k] = g[k]
  <2> DEFINE T == {k \in 0 .. N : h[first + k] = g[k]}
  <2>1. 0 \in T
    BY <1>6, <1>10
  <2>2. ASSUME NEW k \in 1 .. N, k - 1 \in T PROVE k \in T
    <3>1. /\ first + k \in first .. last /\ first + k # first
          /\ (first + k) - 1 = first + (k - 1) /\ first + (k - 1) = first + k - 1
      OBVIOUS
    <3>2. h[first + (k - 1)] = g[k - 1]
      BY <2>2
    <3>3. h[first + k] = Step(kind, h[(first + k) - 1], text[(first + k) - 1])
      BY <1>10, <3>1, Zenon
    <3>4. h[first + k] = Step(kind, g[k - 1], text[first + k - 1])
      BY <3>1, <3>2, <3>3, Zenon
    <3> QED
      BY <1>6, <3>4
  <2> HIDE DEF T
  <2>3. T = 0 .. N
    BY <1>1, <2>1, <2>2, CountedSet DEF T
  <2> QED
    BY <2>3 DEF T
<1>13. ASSUME NEW i \in first .. last PROVE h[i] \in States
  <2>1. i - first \in 0 .. N /\ first + (i - first) = i
    OBVIOUS
  <2> HIDE DEF N
  <2> QED
    BY <1>5, <1>12, <2>1
<1>14. h \in [first .. last -> States]
  BY <1>11, <1>13
<1>15. \A i \in first + 1 .. last : i \in first .. last /\ i # first
  OBVIOUS
<1>16. Walks(h, text, kind, first, last)
  BY <1>10, <1>14, <1>15, Zenon DEF Walks
<1>17. h[first] = s
  BY <1>10
<1> QED
  BY <1>16, <1>17

(* Way() over a text and over a buffer.                                    *)
LEMMA TextWay ==
  ASSUME NEW text, NEW s \in States, NEW first \in Nat, NEW last \in Nat, first <= last,
         \A i \in first .. last - 1 : text[i] \in Characters
  PROVE  /\ Walks(Way(text, FALSE, s, first, last), text, "text", first, last)
         /\ Way(text, FALSE, s, first, last)[first] = s
<1> DEFINE h == Way(text, FALSE, s, first, last)
<1>1. h = CHOOSE f : IsWay(f, text, "text", s, first, last)
  BY DEF Way, IsWay, Step
<1> HIDE DEF h
<1>2. Walks(h, text, "text", first, last) /\ h[first] = s
  BY <1>1, WayExists
<1> QED
  BY <1>2 DEF h

LEMMA BufferWay ==
  ASSUME NEW text, NEW s \in States, NEW first \in Nat, NEW last \in Nat, first <= last,
         \A i \in first .. last - 1 : text[i] \in Characters
  PROVE  /\ Walks(Way(text, TRUE, s, first, last), text, "buffer", first, last)
         /\ Way(text, TRUE, s, first, last)[first] = s
<1> DEFINE h == Way(text, TRUE, s, first, last)
<1>1. h = CHOOSE f : IsWay(f, text, "buffer", s, first, last)
  BY DEF Way, IsWay, Step
<1> HIDE DEF h
<1>2. Walks(h, text, "buffer", first, last) /\ h[first] = s
  BY <1>1, WayExists
<1> QED
  BY <1>2 DEF h

(* Two ways over the same characters, one d positions behind the other, are*)
(* the same from where they are in the same state.                         *)
SameSteps(kind, text, second, other, d, first, last) ==
  \A s \in States, p \in first .. last :
    Step(kind, s, text[p]) = Step(second, s, other[p + d])
SameStates(v, w, d, first, last) == \A p \in first .. last : v[p] = w[p + d]

LEMMA WaysAgree ==
  ASSUME NEW text, NEW other, NEW kind, NEW second,
         NEW first \in Nat, NEW last \in Nat, NEW from \in Int, NEW to \in Int,
         NEW v, Walks(v, text, kind, first, last),
         NEW w, Walks(w, other, second, from, to),
         NEW i \in first .. last, NEW j \in i .. last, NEW d \in Int,
         i + d \in from .. to, j + d \in from .. to,
         SameSteps(kind, text, second, other, d, i, j - 1),
         v[i] = w[i + d]
  PROVE  SameStates(v, w, d, i, j)
<1> DEFINE N == j - i
           T == {k \in 0 .. N : v[i + k] = w[i + k + d]}
<1>1. N \in Nat /\ 0 \in T
  OBVIOUS
<1>2. ASSUME NEW k \in 1 .. N, k - 1 \in T PROVE k \in T
  <2>1. /\ i + k \in first + 1 .. last /\ (i + k) - 1 \in i .. j - 1
        /\ i + k + d \in from + 1 .. to
        /\ (i + k) - 1 = i + (k - 1) /\ (i + k + d) - 1 = i + (k - 1) + d
        /\ i + (k - 1) \in first .. last
    OBVIOUS
  <2>2. v[i + (k - 1)] = w[i + (k - 1) + d]
    BY <1>2
  <2>3. v[i + k] = Step(kind, v[(i + k) - 1], text[(i + k) - 1])
    BY <2>1 DEF Walks
  <2>4. w[i + k + d] = Step(second, w[(i + k + d) - 1], other[(i + k + d) - 1])
    BY <2>1 DEF Walks
  <2>5. v[i + (k - 1)] \in States /\ i + (k - 1) \in i .. j - 1
    BY <2>1 DEF Walks
  <2>6. v[i + k] = w[i + k + d]
    BY <2>1, <2>2, <2>3, <2>4, <2>5, Zenon DEF SameSteps
  <2> QED
    BY <2>6
<1> HIDE DEF T
<1>3. T = 0 .. N
  BY <1>1, <1>2, CountedSet DEF T
<1>4. ASSUME NEW p \in i .. j PROVE v[p] = w[p + d]
  <2>1. p - i \in 0 .. N /\ i + (p - i) = p
    OBVIOUS
  <2> QED
    BY <1>3, <2>1 DEF T
<1> QED
  BY <1>4 DEF SameStates

(* A way that is jammed stays so.                                          *)
AreCharacters(text, first, last) == \A p \in first .. last : text[p] \in Characters
JammedFrom(w, first, last) == \A p \in first .. last : w[p] = JAM /\ Accepts(w[p]) = 0

LEMMA StaysJammed ==
  ASSUME NEW text, NEW kind, NEW first \in Nat, NEW last \in Nat,
         NEW w, Walks(w, text, kind, first, last),
         NEW i \in first .. last, w[i] = JAM,
         AreCharacters(text, i, last - 1)
  PROVE  JammedFrom(w, i, last)
<1> DEFINE N == last - i
           T == {k \in 0 .. N : w[i + k] = JAM}
<1>1. N \in Nat /\ 0 \in T
  OBVIOUS
<1>2. ASSUME NEW k \in 1 .. N, k - 1 \in T PROVE k \in T
  <2>1. /\ i + k \in first + 1 .. last /\ (i + k) - 1 = i + (k - 1)
        /\ i + (k - 1) \in i .. last - 1
    OBVIOUS
  <2>2. w[i + k] = Step(kind, JAM, text[(i + k) - 1])
    BY <1>2, <2>1 DEF Walks
  <2>3. w[i + k] = JAM
    BY <2>1, <2>2, TablesAssumption DEF Step, AreCharacters
  <2> QED
    BY <2>3
<1> HIDE DEF T
<1>3. T = 0 .. N
  BY <1>1, <1>2, CountedSet DEF T
<1>4. ASSUME NEW p \in i .. last PROVE w[p] = JAM
  <2>1. p - i \in 0 .. N /\ i + (p - i) = p
    OBVIOUS
  <2>2. p - i \in T
    BY <1>3, <2>1
  <2> QED
    BY <2>1, <2>2 DEF T
<1> QED
  BY <1>4, TablesAssumption DEF JammedFrom

-----------------------------------------------------------------------------
(* The last state on a way that accepts.                                   *)

LastOf(way, last, k) ==
  /\ k \in DOMAIN way /\ k <= last /\ Accepts(way[k]) # 0
  /\ \A j \in DOMAIN way : j <= last /\ Accepts(way[j]) # 0 => j <= k

NoneUpTo(way, last) == \A j \in DOMAIN way : j <= last => Accepts(way[j]) = 0

LEMMA LastAcceptedIs ==
  ASSUME NEW first \in Nat, NEW to \in Nat, NEW way, DOMAIN way = first .. to,
         NEW last \in Int, NEW otherwise
  PROVE  /\ NoneUpTo(way, last) => LastAccepted(way, last, otherwise) = otherwise
         /\ \A k \in first .. to :
              LastOf(way, last, k) => LastAccepted(way, last, otherwise) = <<way[k], k>>
<1> DEFINE ends == {i \in DOMAIN way : i <= last /\ Accepts(way[i]) # 0}
<1>1. LastAccepted(way, last, otherwise) =
        IF ends = {} THEN otherwise ELSE <<way[Max(ends)], Max(ends)>>
  BY DEF LastAccepted
<1>2. NoneUpTo(way, last) => ends = {}
  BY DEF NoneUpTo
<1>3. ASSUME NEW k \in first .. to, LastOf(way, last, k)
      PROVE  ends # {} /\ Max(ends) = k
  <2>1. k \in ends /\ \A j \in ends : j <= k
    BY <1>3 DEF LastOf
  <2>2. ends \in SUBSET (0 .. to)
    OBVIOUS
  <2> HIDE DEF ends
  <2>3. Max(ends) \in ends /\ \A j \in ends : Max(ends) >= j
    BY <2>1, <2>2, GreatestNatural
  <2>4. Max(ends) <= k /\ Max(ends) >= k
    BY <2>1, <2>3
  <2>5. ends \subseteq 0 .. to
    BY <2>2
  <2>6. Max(ends) \in 0 .. to
    BY <2>3, <2>5
  <2> QED
    BY <2>1, <2>4, <2>6
<1> HIDE DEF ends
<1> QED
  BY <1>1, <1>2, <1>3

(* There is one, if a state accepts at all.                                *)
LEMMA SomeLast ==
  ASSUME NEW first \in Nat, NEW to \in Nat, NEW way, DOMAIN way = first .. to,
         NEW last \in Int,
         NEW i \in first .. to, i <= last, Accepts(way[i]) # 0
  PROVE  \E k \in i .. to : LastOf(way, last, k)
<1> DEFINE ends == {j \in first .. to : j <= last /\ Accepts(way[j]) # 0}
<1>1. ends \in SUBSET (0 .. to) /\ i \in ends
  OBVIOUS
<1>2. Max(ends) \in ends /\ \A j \in ends : Max(ends) >= j
  <2> HIDE DEF ends
  <2> QED
    BY <1>1, GreatestNatural
<1>3. Max(ends) \in i .. to
  BY <1>1, <1>2
<1>4. LastOf(way, last, Max(ends))
  BY <1>2 DEF LastOf
<1> QED
  BY <1>3, <1>4

-----------------------------------------------------------------------------
(* The state that the 0 at the end of a buffer leads to.                   *)

EndState == CHOOSE s \in States \ Starts : Accepts(s) = YY_END_OF_BUFFER

LEMMA EndStateIs ==
  /\ EndState \in States /\ EndState \notin Starts /\ EndState # JAM
  /\ \A s \in States : Accepts(s) = YY_END_OF_BUFFER <=> s = EndState
  /\ \A s \in States \ {EndState, JAM} : Step("buffer", s, 0) = EndState
  /\ \A c \in Characters : Step("buffer", EndState, c) = JAM
  /\ \A s \in States \ {EndState}, c \in Characters : Step("text", s, c) # EndState
<1>1. PICK end \in States \ Starts :
        /\ \A s \in States : Accepts(s) = YY_END_OF_BUFFER <=> s = end
        /\ \A s \in States \ {end, JAM} : NextState[s][Ec(0)] = end
        /\ \A c \in Characters : NextState[end][Ec(c)] = JAM
        /\ \A s \in States \ {end}, c \in Characters : NextState[s][ClassOf(c)] # end
  BY EndAssumption
<1>2. EndState = end
  BY <1>1, Zenon DEF EndState
<1>3. JAM \in States /\ Accepts(JAM) # YY_END_OF_BUFFER
  BY TablesAssumption, EndAssumption DEF States
<1> QED
  BY <1>1, <1>2, <1>3 DEF Step

(* A scanner does not begin jammed: a character leads it somewhere.        *)
LEMMA StartsOpen ==
  /\ Starts \subseteq States
  /\ \A s \in Starts : s # JAM /\ s # EndState
  /\ \A s \in Starts, c \in Characters : Accepts(Step("text", s, c)) # 0
<1>1. \A s \in Starts, c \in Characters : Accepts(Step("text", s, c)) # 0
  BY DefaultAssumption DEF Step
<1>2. 0 \in Characters
  BY DEF Characters
<1>3. Step("text", JAM, 0) = JAM /\ Accepts(JAM) = 0 /\ Starts \subseteq States
  BY <1>2, TablesAssumption DEF Step
<1>4. JAM \notin Starts
  BY <1>1, <1>2, <1>3
<1> QED
  BY <1>1, <1>3, <1>4, EndStateIs

(* A way over a text does not come to the end of a buffer.                 *)
LEMMA TextHasNoEnd ==
  ASSUME NEW text, NEW first \in Nat, NEW last \in Nat, first <= last,
         NEW w, Walks(w, text, "text", first, last), w[first] # EndState,
         \A i \in first .. last - 1 : text[i] \in Characters
  PROVE  \A i \in first .. last : w[i] # EndState /\ Accepts(w[i]) # YY_END_OF_BUFFER
<1> DEFINE N == last - first
           T == {k \in 0 .. N : w[first + k] # EndState}
<1>1. N \in Nat /\ 0 \in T
  OBVIOUS
<1>2. ASSUME NEW k \in 1 .. N, k - 1 \in T PROVE k \in T
  <2>1. /\ first + k \in first + 1 .. last /\ (first + k) - 1 = first + (k - 1)
        /\ first + (k - 1) \in first .. last - 1 /\ first + (k - 1) \in first .. last
    OBVIOUS
  <2>2. w[first + k] = Step("text", w[(first + k) - 1], text[(first + k) - 1])
    BY <2>1 DEF Walks
  <2>3. w[first + (k - 1)] \in States \ {EndState}
    BY <1>2, <2>1 DEF Walks
  <2>4. w[first + k] # EndState
    BY <2>1, <2>2, <2>3, EndStateIs
  <2> QED
    BY <2>4
<1> HIDE DEF T
<1>3. T = 0 .. N
  BY <1>1, <1>2, CountedSet DEF T
<1>4. ASSUME NEW i \in first .. last PROVE w[i] # EndState
  <2>1. i - first \in 0 .. N /\ first + (i - first) = i
    OBVIOUS
  <2>2. i - first \in T
    BY <1>3, <2>1
  <2> QED
    BY <2>1, <2>2 DEF T
<1>5. \A i \in first .. last : w[i] \in States
  BY DEF Walks
<1> QED
  BY <1>4, <1>5, EndStateIs

-----------------------------------------------------------------------------
(* Tokens.                                                                 *)

(* The part of a buffer of size `size' that is read is a part of a text:   *)
(* `base' characters of the text were in the buffer before.                *)
IsPart(ch, size, n, text, base) ==
  /\ size \in Nat /\ n \in 0 .. size /\ base \in Nat /\ base + n <= Len(text)
  /\ ch \in [0 .. size + 1 -> Characters] /\ ch[n] = EOB
  /\ \A p \in 0 .. n - 1 : ch[p] = text[base + p + 1]

(* w is the way over a text from the token that begins at position `first' *)
(* of the buffer.                                                          *)
IsTokenWay(w, text, base, first) ==
  /\ Walks(w, text, "text", base + first + 1, Len(text) + 1)
  /\ w[base + first + 1] \in Starts

(* If a state accepts before position p of the buffer, `accepting' is the  *)
(* last one.                                                               *)
Knows(w, base, first, p, accepting) ==
  \A k \in first .. p - 1 :
    /\ Accepts(w[base + k + 1]) # 0
    /\ \A j \in k + 1 .. p - 1 : Accepts(w[base + j + 1]) = 0
    => accepting = <<w[base + k + 1], k>>

(* The token ends before position k, if it is the longest match.           *)
Ends(w, text, base, k) == LastOf(w, Len(text) + 1, base + k + 1)

(* The loop yy_match finds the end of the token or the end of the buffer,  *)
(* or a character 0, which looks the same.                                 *)
LEMMA MatchedIs ==
  ASSUME NEW text \in Seq(Characters), NEW ch, NEW size, NEW n, NEW base,
         IsPart(ch, size, n, text, base),
         NEW first \in 0 .. n, NEW w, IsTokenWay(w, text, base, first),
         NEW i \in first .. n, w[base + i + 1] # JAM,
         NEW accepting, Knows(w, base, first, i, accepting)
  PROVE  \/ \E z \in i .. n :
              /\ ch[z] = EOB /\ w[base + z + 1] # JAM
              /\ Matched(ch, w[base + i + 1], i, accepting) = <<EndState, z + 1>>
         \/ \E k \in first + 1 .. n :
              /\ Ends(w, text, base, k)
              /\ Matched(ch, w[base + i + 1], i, accepting) = <<w[base + k + 1], k>>
<1> DEFINE s == w[base + i + 1]
           end == size + 2
           v == Way(ch, TRUE, s, i, end)
           L == Len(text)
<1>1. /\ L \in Nat /\ \A p \in 1 .. L : text[p] \in Characters
      /\ n \in Nat /\ size \in Nat /\ base \in Nat
      /\ first \in Nat /\ i \in Nat /\ i <= n /\ n <= size /\ first <= i /\ base + n <= L
  BY LenProperties, ElementOfSeq DEF IsPart
<1>2. \A p \in 0 .. size + 1 : ch[p] \in Characters
  BY DEF IsPart
<1>3. w \in [base + first + 1 .. L + 1 -> States] /\ base + i + 1 \in base + first + 1 .. L + 1
  BY <1>1 DEF IsTokenWay, Walks
<1>4. s \in States
  BY <1>3
<1>5. Walks(v, ch, "buffer", i, end) /\ v[i] = s
  <2>1. i \in Nat /\ end \in Nat /\ i <= end /\ \A p \in i .. end - 1 : ch[p] \in Characters
    BY <1>1, <1>2
  <2> HIDE DEF s, end
  <2> QED
    BY <1>4, <2>1, BufferWay
<1>6. Max(DOMAIN ch) + 1 = end
  <2>1. DOMAIN ch = 0 .. size + 1
    BY DEF IsPart
  <2>2. DOMAIN ch \in SUBSET (0 .. size + 1) /\ size + 1 \in DOMAIN ch
    BY <1>1, <2>1
  <2>3. Max(DOMAIN ch) \in DOMAIN ch /\ \A y \in DOMAIN ch : Max(DOMAIN ch) >= y
    <3>1. size + 1 \in Nat /\ DOMAIN ch # {}
      BY <1>1, <2>2
    <3> QED
      BY <2>2, <3>1, GreatestNatural
  <2>4. Max(DOMAIN ch) \in 0 .. size + 1 /\ Max(DOMAIN ch) >= size + 1
    BY <2>1, <2>2, <2>3
  <2> QED
    BY <1>1, <2>4
<1>7. Matched(ch, s, i, accepting) = LastAccepted(v, end, accepting)
  BY <1>6, Zenon DEF Matched
<1> DEFINE Z == {p \in i .. n : ch[p] = EOB}
<1>8. Z \in SUBSET Nat /\ n \in Z
  BY <1>1 DEF IsPart
<1>9. PICK z \in i .. n : ch[z] = EOB /\ \A p \in i .. z - 1 : ch[p] # EOB
  <2>1. Min(Z) \in Z /\ \A y \in Z : Min(Z) <= y
    <3> HIDE DEF Z
    <3> QED
      BY <1>8, LeastNatural
  <2>2. Min(Z) \in i .. n /\ ch[Min(Z)] = EOB
    BY <2>1, Zenon
  <2>3. \A p \in i .. Min(Z) - 1 : ch[p] # EOB
    <3> SUFFICES ASSUME NEW p \in i .. Min(Z) - 1, ch[p] = EOB
                 PROVE  FALSE
      OBVIOUS
    <3>1. p \in i .. n
      <4> HIDE DEF Z
      <4> QED
        BY <1>1, <2>2
    <3>3. p \in Z
      BY <3>1
    <3>2. Min(Z) <= p
      BY <2>1, <3>3, Zenon
    <3> HIDE DEF Z
    <3> QED
      BY <1>1, <2>2, <3>2
  <2> QED
    BY <2>2, <2>3
<1>10. /\ z \in Nat /\ z <= n /\ i <= z
       /\ \A p \in i .. z : base + p + 1 \in base + first + 1 .. L + 1
  BY <1>1, <1>9
<1> HIDE DEF Z, v, s
<1>11. \A p \in i .. z : v[p] = w[base + p + 1]
  <2>1. \A p \in i .. z - 1 : ch[p] \in Characters \ {0} /\ ch[p] = text[p + (base + 1)]
    <3> SUFFICES ASSUME NEW p \in i .. z - 1
                 PROVE  ch[p] \in Characters \ {0} /\ ch[p] = text[p + (base + 1)]
      OBVIOUS
    <3>1. p \in 0 .. n - 1 /\ p \in 0 .. size + 1 /\ base + p + 1 = p + (base + 1)
      BY <1>1, <1>10
    <3>2. ch[p] = text[base + p + 1]
      BY <3>1 DEF IsPart
    <3> QED
      BY <1>2, <1>9, <3>1, <3>2 DEF EOB
  <2>2. \A t \in States, p \in i .. z - 1 :
          Step("buffer", t, ch[p]) = Step("text", t, text[p + (base + 1)])
    BY <2>1, TablesAssumption DEF Step
  <2>9. SameSteps("buffer", ch, "text", text, base + 1, i, z - 1)
    BY <2>2, Zenon DEF SameSteps
  <2>3. /\ i \in Nat /\ end \in Nat /\ base + first + 1 \in Int /\ L + 1 \in Int
        /\ i \in i .. end /\ z \in i .. end /\ base + 1 \in Int
        /\ i + (base + 1) \in base + first + 1 .. L + 1
        /\ z + (base + 1) \in base + first + 1 .. L + 1
        /\ i + (base + 1) = base + i + 1
    BY <1>1, <1>10
  <2>4. v[i] = w[i + (base + 1)]
    BY <1>5, <2>3 DEF s
  <2>5. Walks(w, text, "text", base + first + 1, L + 1)
    BY DEF IsTokenWay
  <2>8. Walks(v, ch, "buffer", i, end)
    BY <1>5
  <2> HIDE DEF end, L
  <2>6. \A p \in i .. z : v[p] = w[p + (base + 1)]
    <3>1. SameStates(v, w, base + 1, i, z)
      BY <2>3, <2>4, <2>5, <2>8, <2>9, WaysAgree
    <3> QED
      BY <3>1 DEF SameStates
  <2>7. \A p \in i .. z : p + (base + 1) = base + p + 1
    BY <1>1, <1>10
  <2> QED
    BY <2>6, <2>7
<1>12. DOMAIN v = i .. end /\ end \in Nat /\ DOMAIN w = base + first + 1 .. L + 1
  BY <1>1, <1>3, <1>5 DEF Walks
<1>13. CASE w[base + z + 1] = JAM
  <2>1. \A p \in z .. end : Accepts(v[p]) = 0
    <3>1. z \in i .. end /\ v[z] = JAM /\ \A p \in z .. end - 1 : ch[p] \in Characters
      BY <1>1, <1>2, <1>10, <1>11, <1>13
    <3>3. AreCharacters(ch, z, end - 1)
      BY <3>1 DEF AreCharacters
    <3>2. i \in Nat /\ end \in Nat /\ Walks(v, ch, "buffer", i, end)
      BY <1>1, <1>5
    <3> HIDE DEF end
    <3>4. JammedFrom(v, z, end)
      BY <3>1, <3>2, <3>3, StaysJammed
    <3> QED
      BY <3>4 DEF JammedFrom
  <2>2. \A p \in base + z + 1 .. L + 1 : Accepts(w[p]) = 0
    <3>1. /\ base + z + 1 \in base + first + 1 .. L + 1 /\ base + first + 1 \in Nat /\ L + 1 \in Nat
          /\ \A p \in base + z + 1 .. (L + 1) - 1 : text[p] \in Characters
      BY <1>1, <1>10
    <3>2. Walks(w, text, "text", base + first + 1, L + 1)
      BY DEF IsTokenWay
    <3>3. AreCharacters(text, base + z + 1, (L + 1) - 1)
      BY <3>1 DEF AreCharacters
    <3> HIDE DEF L
    <3>4. JammedFrom(w, base + z + 1, L + 1)
      BY <1>13, <3>1, <3>2, <3>3, StaysJammed
    <3> QED
      BY <3>4 DEF JammedFrom
  <2>3. first < z
    <3>1. w[base + first + 1] # JAM
      BY StartsOpen DEF IsTokenWay
    <3>2. first # z
      BY <1>13, <3>1
    <3> QED
      BY <1>1, <1>10, <3>2
  <2>4. Accepts(w[base + first + 2]) # 0
    <3>1. base + first + 2 \in (base + first + 1) + 1 .. L + 1 /\ base + first + 1 \in 1 .. L
          /\ (base + first + 2) - 1 = base + first + 1
      BY <1>1, <1>10, <2>3
    <3>2. w[base + first + 2] = Step("text", w[base + first + 1], text[base + first + 1])
      BY <3>1 DEF IsTokenWay, Walks
    <3> QED
      BY <1>1, <3>1, <3>2, StartsOpen DEF IsTokenWay
  <2>5. PICK K \in base + first + 2 .. L + 1 : LastOf(w, L + 1, K)
    <3>1. base + first + 2 \in base + first + 1 .. L + 1 /\ base + first + 1 \in Nat /\ L + 1 \in Nat
          /\ L + 1 \in Int /\ base + first + 2 <= L + 1
      BY <1>1, <1>10, <2>3
    <3> HIDE DEF L
    <3> QED
      BY <1>12, <2>4, <3>1, SomeLast
  <2>6. K < base + z + 1
    BY <1>1, <1>10, <2>2, <2>5 DEF LastOf
  <2> DEFINE k == K - base - 1
  <2>7. k \in first + 1 .. n /\ k < z /\ base + k + 1 = K /\ k \in Nat
    BY <1>1, <1>10, <2>5, <2>6
  <2> HIDE DEF k
  <2>8. Accepts(w[base + k + 1]) # 0 /\ \A j \in k + 1 .. z : Accepts(w[base + j + 1]) = 0
    <3>1. ASSUME NEW j \in k + 1 .. z PROVE Accepts(w[base + j + 1]) = 0
      <4>1. base + j + 1 \in base + first + 1 .. L + 1 /\ base + j + 1 <= L + 1 /\ base + j + 1 > K
        BY <1>1, <1>10, <2>7
      <4> QED
        BY <1>12, <2>5, <4>1 DEF LastOf
    <3> QED
      BY <2>5, <2>7, <3>1 DEF LastOf
  <2>9. Ends(w, text, base, k)
    BY <2>5, <2>7 DEF Ends
  <2>10. Matched(ch, s, i, accepting) = <<w[base + k + 1], k>>
    <3>1. CASE i <= k
      <4>1. k \in i .. z /\ k \in i .. end /\ k <= end
        BY <1>1, <1>10, <2>7, <3>1
      <4>2. v[k] = w[base + k + 1]
        BY <1>11, <4>1
      <4>3. ASSUME NEW j \in DOMAIN v, Accepts(v[j]) # 0 PROVE j <= k
        <5> SUFFICES ASSUME k < j PROVE FALSE
          BY <1>12, <2>7, <4>1
        <5>1. j \in i .. end
          BY <1>12
        <5>2. CASE j <= z
          <6>1. j \in i .. z /\ j \in k + 1 .. z
            BY <2>7, <5>1, <5>2
          <6> QED
            BY <1>11, <2>8, <4>3, <6>1
        <5>3. CASE j > z
          BY <1>10, <2>1, <4>3, <5>1, <5>3
        <5> QED
          BY <1>10, <5>1, <5>2, <5>3
      <4>4. LastOf(v, end, k)
        BY <1>12, <2>8, <4>1, <4>2, <4>3 DEF LastOf
      <4>5. LastAccepted(v, end, accepting) = <<v[k], k>>
        <5>1. end \in Int
          BY <1>1
        <5> HIDE DEF end
        <5> QED
          BY <1>1, <1>12, <4>1, <4>4, <5>1, LastAcceptedIs
      <4> QED
        BY <1>7, <4>2, <4>5
    <3>2. CASE ~(i <= k)
      <4>1. NoneUpTo(v, end)
        <5> SUFFICES ASSUME NEW j \in i .. end PROVE Accepts(v[j]) = 0
          BY <1>12 DEF NoneUpTo
        <5>1. CASE j <= z
          <6>1. j \in i .. z /\ j \in k + 1 .. z
            BY <2>7, <3>2, <5>1
          <6> QED
            BY <1>11, <2>8, <6>1
        <5>2. CASE j > z
          BY <1>10, <2>1, <5>2
        <5> QED
          BY <1>10, <5>1, <5>2
      <4>2. LastAccepted(v, end, accepting) = accepting
        <5>1. end \in Int
          BY <1>1
        <5> HIDE DEF end
        <5> QED
          BY <1>1, <1>12, <4>1, <5>1, LastAcceptedIs
      <4>3. /\ k \in first .. i - 1
            /\ \A j \in k + 1 .. i - 1 : Accepts(w[base + j + 1]) = 0
        <5>1. k \in first .. i - 1 /\ \A j \in k + 1 .. i - 1 : j \in k + 1 .. z
          BY <1>1, <1>10, <2>7, <3>2
        <5> QED
          BY <2>8, <5>1
      <4>4. accepting = <<w[base + k + 1], k>>
        BY <2>8, <4>3 DEF Knows
      <4> QED
        BY <1>7, <4>2, <4>4
    <3> QED
      BY <3>1, <3>2
  <2> QED
    BY <2>7, <2>9, <2>10 DEF s
<1>14. CASE w[base + z + 1] # JAM
  <2>1. v[z] \in States /\ v[z] # JAM /\ v[z] # EndState
    <3>1. z \in i .. z /\ z \in i .. end
      BY <1>1, <1>10
    <3>2. v[z] = w[base + z + 1] /\ v[z] \in States
      BY <1>5, <1>11, <3>1 DEF Walks
    <3>3. base + first + 1 \in Nat /\ L + 1 \in Nat /\ base + first + 1 <= L + 1
          /\ base + z + 1 \in base + first + 1 .. L + 1
          /\ \A p \in base + first + 1 .. (L + 1) - 1 : text[p] \in Characters
      BY <1>1, <1>10
    <3>4. w[base + first + 1] # EndState
      BY StartsOpen DEF IsTokenWay
    <3>5. w[base + z + 1] # EndState
      <4> HIDE DEF L
      <4> QED
        BY <3>3, <3>4, TextHasNoEnd DEF IsTokenWay, L
    <3> QED
      BY <1>14, <3>2, <3>5
  <2>2. /\ z + 1 \in i + 1 .. end /\ (z + 1) - 1 = z
        /\ z + 2 \in i + 1 .. end /\ (z + 2) - 1 = z + 1
        /\ z + 1 \in 0 .. size + 1
    BY <1>1, <1>10
  <2>3. v[z + 1] = EndState
    <3>1. v[z + 1] = Step("buffer", v[z], ch[z])
      BY <1>5, <2>2 DEF Walks
    <3> QED
      BY <1>9, <2>1, <3>1, EndStateIs DEF EOB
  <2>4. v[z + 2] = JAM
    <3>1. v[z + 2] = Step("buffer", v[z + 1], ch[z + 1])
      BY <1>5, <2>2 DEF Walks
    <3> QED
      BY <1>2, <2>2, <2>3, <3>1, EndStateIs
  <2>5. \A p \in z + 2 .. end : Accepts(v[p]) = 0
    <3>1. z + 2 \in i .. end /\ \A p \in z + 2 .. end - 1 : ch[p] \in Characters
      BY <1>1, <1>2, <1>10
    <3>2. AreCharacters(ch, z + 2, end - 1)
      BY <3>1 DEF AreCharacters
    <3>3. i \in Nat /\ end \in Nat /\ Walks(v, ch, "buffer", i, end)
      BY <1>1, <1>5
    <3> HIDE DEF end
    <3>4. JammedFrom(v, z + 2, end)
      BY <2>4, <3>1, <3>2, <3>3, StaysJammed
    <3> QED
      BY <3>4 DEF JammedFrom
  <2>6. LastOf(v, end, z + 1)
    <3>1. Accepts(v[z + 1]) # 0
      BY <2>3, EndStateIs, EndAssumption
    <3>2. ASSUME NEW j \in i .. end, Accepts(v[j]) # 0 PROVE j <= z + 1
      <4>1. j < z + 2
        BY <1>10, <2>5, <3>2
      <4> QED
        BY <1>10, <4>1
    <3> QED
      BY <1>12, <2>2, <3>1, <3>2 DEF LastOf
  <2>7. LastAccepted(v, end, accepting) = <<v[z + 1], z + 1>>
    <3>1. end \in Int /\ z + 1 \in i .. end
      BY <1>1, <1>10
    <3> HIDE DEF end
    <3> QED
      BY <1>1, <1>12, <2>6, <3>1, LastAcceptedIs
  <2>8. Matched(ch, s, i, accepting) = <<EndState, z + 1>>
    BY <1>7, <2>3, <2>7
  <2> QED
    BY <1>9, <1>14, <2>8 DEF s
<1> QED
  BY <1>13, <1>14

(* The way from the place behind the first u characters of a text.         *)
WayFrom(text, u, s) == Way(text, FALSE, s, u + 1, Len(text) + 1)

LEMMA TokenWayIs ==
  ASSUME NEW text \in Seq(Characters), NEW u \in 0 .. Len(text), NEW s \in Starts
  PROVE  /\ Walks(WayFrom(text, u, s), text, "text", u + 1, Len(text) + 1)
         /\ WayFrom(text, u, s)[u + 1] = s
<1>1. /\ Len(text) \in Nat /\ \A p \in 1 .. Len(text) : text[p] \in Characters
  BY LenProperties, ElementOfSeq
<1> DEFINE L == Len(text)
<1>2. /\ u + 1 \in Nat /\ L + 1 \in Nat /\ u + 1 <= L + 1
      /\ \A i \in u + 1 .. (L + 1) - 1 : text[i] \in Characters
  BY <1>1
<1>3. s \in States
  BY StartsOpen
<1> HIDE DEF L
<1>4. /\ Walks(Way(text, FALSE, s, u + 1, L + 1), text, "text", u + 1, L + 1)
      /\ Way(text, FALSE, s, u + 1, L + 1)[u + 1] = s
  BY <1>2, <1>3, TextWay
<1> QED
  BY <1>4 DEF L, WayFrom

(* A token has a character at least.                                       *)
LEMMA FirstAccepts ==
  ASSUME NEW text \in Seq(Characters), NEW base \in Nat, NEW first \in Nat,
         base + first < Len(text), NEW w, IsTokenWay(w, text, base, first)
  PROVE  Accepts(w[base + first + 2]) # 0
<1>1. /\ Len(text) \in Nat /\ \A p \in 1 .. Len(text) : text[p] \in Characters
  BY LenProperties, ElementOfSeq
<1>2. base + first + 2 \in (base + first + 1) + 1 .. Len(text) + 1 /\ base + first + 1 \in 1 .. Len(text)
      /\ (base + first + 2) - 1 = base + first + 1
  BY <1>1
<1>3. w[base + first + 2] = Step("text", w[base + first + 1], text[base + first + 1])
  BY <1>2 DEF IsTokenWay, Walks
<1> QED
  BY <1>1, <1>2, <1>3, StartsOpen DEF IsTokenWay

(* Where nothing more is accepted the last state known is the token's end. *)
LEMMA KnownEnds ==
  ASSUME NEW text \in Seq(Characters), NEW base \in Nat, NEW first \in Nat,
         base + first < Len(text), NEW w, IsTokenWay(w, text, base, first),
         NEW p \in Nat, first <= p, base + p <= Len(text) + 1,
         \A j \in base + p + 1 .. Len(text) + 1 : Accepts(w[j]) = 0,
         NEW accepting, Knows(w, base, first, p, accepting)
  PROVE  \E k \in first + 1 .. p - 1 :
           Ends(w, text, base, k) /\ accepting = <<w[base + k + 1], k>>
<1> DEFINE L == Len(text)
<1>1. L \in Nat
  BY LenProperties
<1>2. DOMAIN w = base + first + 1 .. L + 1
  BY DEF IsTokenWay, Walks
<1>3. Accepts(w[base + first + 2]) # 0
  BY FirstAccepts
<1>4. PICK K \in base + first + 2 .. L + 1 : LastOf(w, L + 1, K)
  <2>1. base + first + 2 \in base + first + 1 .. L + 1 /\ base + first + 1 \in Nat /\ L + 1 \in Nat
        /\ L + 1 \in Int /\ base + first + 2 <= L + 1
    BY <1>1
  <2> HIDE DEF L
  <2> QED
    BY <1>2, <1>3, <2>1, SomeLast
<1>5. K < base + p + 1
  BY <1>1, <1>4 DEF LastOf
<1> DEFINE k == K - base - 1
<1>6. k \in first + 1 .. p - 1 /\ base + k + 1 = K /\ k \in Nat
  BY <1>1, <1>4, <1>5
<1> HIDE DEF k
<1>7. Accepts(w[base + k + 1]) # 0 /\ \A j \in k + 1 .. p - 1 : Accepts(w[base + j + 1]) = 0
  <2>1. ASSUME NEW j \in k + 1 .. p - 1 PROVE Accepts(w[base + j + 1]) = 0
    <3>1. base + j + 1 \in base + first + 1 .. L + 1 /\ base + j + 1 <= L + 1 /\ base + j + 1 > K
      BY <1>1, <1>6
    <3> QED
      BY <1>2, <1>4, <3>1 DEF LastOf
  <2> QED
    BY <1>4, <1>6, <2>1 DEF LastOf
<1>8. Ends(w, text, base, k)
  BY <1>4, <1>6 DEF Ends
<1>9. k \in first .. p - 1
  BY <1>6
<1>10. accepting = <<w[base + k + 1], k>>
  BY <1>7, <1>9 DEF Knows
<1> QED
  BY <1>6, <1>8, <1>10

(* One position further.                                                   *)
LEMMA KnowsMore ==
  ASSUME NEW w, NEW base \in Nat, NEW first \in Nat, NEW p \in Nat, first <= p,
         NEW accepting, Knows(w, base, first, p, accepting)
  PROVE  Knows(w, base, first, p + 1,
               IF Accepts(w[base + p + 1]) # 0 THEN <<w[base + p + 1], p>> ELSE accepting)
<1> SUFFICES ASSUME NEW k \in first .. p,
                    Accepts(w[base + k + 1]) # 0,
                    \A j \in k + 1 .. p : Accepts(w[base + j + 1]) = 0
             PROVE  (IF Accepts(w[base + p + 1]) # 0 THEN <<w[base + p + 1], p>> ELSE accepting)
                      = <<w[base + k + 1], k>>
  <2>1. (p + 1) - 1 = p
    OBVIOUS
  <2> QED
    BY <2>1 DEF Knows
<1>1. CASE k = p
  BY <1>1
<1>2. CASE k # p
  <2>1. k \in first .. p - 1 /\ p \in k + 1 .. p
    BY <1>2
  <2>2. Accepts(w[base + p + 1]) = 0
    BY <2>1
  <2>3. \A j \in k + 1 .. p - 1 : Accepts(w[base + j + 1]) = 0
    <3>1. \A j \in k + 1 .. p - 1 : j \in k + 1 .. p
      OBVIOUS
    <3> QED
      BY <3>1
  <2>4. accepting = <<w[base + k + 1], k>>
    BY <2>1, <2>3 DEF Knows
  <2> QED
    BY <2>2, <2>4
<1> QED
  BY <1>1, <1>2

(* yy_get_previous_state() gets to the state of the token's way.           *)
LEMMA PreviousIs ==
  ASSUME NEW text \in Seq(Characters), NEW ch, NEW size, NEW n, NEW base,
         IsPart(ch, size, n, text, base),
         NEW first \in 0 .. n, NEW w, IsTokenWay(w, text, base, first),
         NEW end \in first .. n, NEW accepting
  PROVE  LET before == PreviousState(ch, w[base + first + 1], first, end, accepting)
         IN before[1] = w[base + end + 1] /\ Knows(w, base, first, end, before[2])
<1> DEFINE s == w[base + first + 1]
           v == Way(ch, FALSE, s, first, end)
           L == Len(text)
<1>1. /\ L \in Nat /\ n \in Nat /\ size \in Nat /\ base \in Nat
      /\ first \in Nat /\ end \in Nat /\ end <= n /\ n <= size /\ first <= end /\ base + n <= L
  BY LenProperties DEF IsPart
<1>2. \A p \in 0 .. size + 1 : ch[p] \in Characters
  BY DEF IsPart
<1>3. s \in States
  BY StartsOpen DEF IsTokenWay
<1>4. Walks(v, ch, "text", first, end) /\ v[first] = s
  <2>1. /\ first \in Nat /\ end \in Nat /\ first <= end
        /\ \A p \in first .. end - 1 : ch[p] \in Characters
    BY <1>1, <1>2
  <2> HIDE DEF s
  <2> QED
    BY <1>3, <2>1, TextWay
<1> HIDE DEF v
<1>5. \A p \in first .. end : v[p] = w[base + p + 1]
  <2>1. \A p \in first .. end - 1 : ch[p] = text[p + (base + 1)]
    <3> SUFFICES ASSUME NEW p \in first .. end - 1
                 PROVE  ch[p] = text[p + (base + 1)]
      OBVIOUS
    <3>1. p \in 0 .. n - 1 /\ base + p + 1 = p + (base + 1)
      BY <1>1
    <3> QED
      BY <3>1 DEF IsPart
  <2>2. SameSteps("text", ch, "text", text, base + 1, first, end - 1)
    BY <2>1 DEF SameSteps
  <2>3. /\ base + first + 1 \in Int /\ L + 1 \in Int
        /\ first \in first .. end /\ end \in first .. end /\ base + 1 \in Int
        /\ first + (base + 1) \in base + first + 1 .. L + 1
        /\ end + (base + 1) \in base + first + 1 .. L + 1
        /\ first + (base + 1) = base + first + 1
    BY <1>1
  <2>4. v[first] = w[first + (base + 1)]
    BY <1>4, <2>3
  <2>5. Walks(w, text, "text", base + first + 1, L + 1)
    BY DEF IsTokenWay
  <2> HIDE DEF L
  <2>6. SameStates(v, w, base + 1, first, end)
    BY <1>1, <1>4, <2>2, <2>3, <2>4, <2>5, WaysAgree
  <2>7. \A p \in first .. end : p + (base + 1) = base + p + 1
    BY <1>1
  <2> QED
    BY <2>6, <2>7 DEF SameStates
<1> DEFINE x == LastAccepted(v, end - 1, accepting)
<1>6. DOMAIN v = first .. end
  BY <1>4 DEF Walks
<1>7. Knows(w, base, first, end, x)
  <2> SUFFICES ASSUME NEW k \in first .. end - 1,
                      Accepts(w[base + k + 1]) # 0,
                      \A j \in k + 1 .. end - 1 : Accepts(w[base + j + 1]) = 0
               PROVE  x = <<w[base + k + 1], k>>
    <3> HIDE DEF x
    <3> QED
      BY DEF Knows
  <2>1. k \in first .. end /\ k <= end - 1 /\ end - 1 \in Int /\ k \in Nat
    BY <1>1
  <2>2. v[k] = w[base + k + 1]
    BY <1>5, <2>1
  <2>3. ASSUME NEW j \in first .. end, j <= end - 1, Accepts(v[j]) # 0 PROVE j <= k
    <3> SUFFICES ASSUME k < j PROVE FALSE
      BY <1>1, <2>1
    <3>1. j \in k + 1 .. end - 1
      BY <1>1, <2>1, <2>3
    <3> QED
      BY <1>5, <2>3, <3>1
  <2>4. LastOf(v, end - 1, k)
    BY <1>6, <2>1, <2>2, <2>3 DEF LastOf
  <2>5. x = <<v[k], k>>
    BY <1>1, <1>6, <2>1, <2>4, LastAcceptedIs
  <2> QED
    BY <2>2, <2>5
<1>8. end \in first .. end
  BY <1>1
<1>9. PreviousState(ch, s, first, end, accepting) = <<v[end], x>>
  BY Zenon DEF PreviousState, v
<1>10. v[end] = w[base + end + 1]
  BY <1>5, <1>8
<1> HIDE DEF x
<1> QED
  BY <1>7, <1>9, <1>10

(* The longest match is where the way accepts last.                        *)
LEMMA LongestIs ==
  ASSUME NEW text \in Seq(Characters), NEW u \in 0 .. Len(text),
         NEW from, NEW bol, StartOf(from, bol) \in Starts,
         NEW w, w = WayFrom(text, u, StartOf(from, bol)),
         NEW K \in u + 1 .. Len(text) + 1, LastOf(w, Len(text) + 1, K)
  PROVE  Longest(text, u + 1, from, bol) = <<Accepts(w[K]), K - (u + 1)>>
<1> DEFINE L == Len(text)
<1>1. L \in Nat
  BY LenProperties
<1>2. DOMAIN w = u + 1 .. L + 1
  BY TokenWayIs DEF Walks
<1>3. LastAccepted(w, L + 1, <<0, u + 1>>) = <<w[K], K>>
  <2>1. u + 1 \in Nat /\ L + 1 \in Nat /\ L + 1 \in Int
    BY <1>1
  <2>2. LastOf(w, L + 1, K) /\ K \in u + 1 .. L + 1
    OBVIOUS
  <2> HIDE DEF L
  <2> QED
    BY <1>2, <2>1, <2>2, LastAcceptedIs
<1>4. LastAccepting(text, StartOf(from, bol), u + 1) = <<w[K], K>>
  BY <1>3, Zenon DEF LastAccepting, WayFrom
<1>5. Longest(text, u + 1, from, bol) =
        <<Accepts(LastAccepting(text, StartOf(from, bol), u + 1)[1]),
          LastAccepting(text, StartOf(from, bol), u + 1)[2] - (u + 1)>>
  BY Zenon DEF Longest
<1> QED
  BY <1>4, <1>5

-----------------------------------------------------------------------------
(* Line breaks.                                                            *)

BreaksIn(text, first, last) == {i \in first .. last : text[i] = Newline}

LEMMA BreaksAreFinite ==
  ASSUME NEW text, NEW first \in Int, NEW last \in Int
  PROVE  IsFiniteSet(BreaksIn(text, first, last)) /\ Cardinality(BreaksIn(text, first, last)) \in Nat
<1>1. IsFiniteSet(first .. last)
  BY FS_Interval
<1>2. BreaksIn(text, first, last) \subseteq first .. last
  BY DEF BreaksIn
<1> QED
  BY <1>1, <1>2, FS_Subset, FS_CardinalityType

(* The line breaks of a text are those of its two parts.                   *)
LEMMA NewlinesAdd ==
  ASSUME NEW text \in Seq(Characters), NEW u \in 0 .. Len(text), NEW k \in 0 .. Len(text) - u,
         NEW part, DOMAIN part = 1 .. k, \A j \in 1 .. k : part[j] = text[u + j]
  PROVE  /\ Newlines(SubSeq(text, 1, u + k)) = Newlines(SubSeq(text, 1, u)) + Newlines(part)
         /\ Newlines(SubSeq(text, 1, u)) \in Nat /\ Newlines(part) \in Nat
<1> DEFINE L == Len(text)
           A == BreaksIn(text, 1, u)
           B == BreaksIn(text, u + 1, u + k)
           C == BreaksIn(part, 1, k)
<1>1. L \in Nat /\ u \in Nat /\ k \in Nat /\ u + k <= L /\ \A j \in 1 .. L : text[j] \in Characters
  BY LenProperties, ElementOfSeq
<1>2. ASSUME NEW m \in 0 .. L PROVE Newlines(SubSeq(text, 1, m)) = Cardinality(BreaksIn(text, 1, m))
  <2> DEFINE q == SubSeq(text, 1, m)
  <2>1. \A j \in 1 .. m : text[j] \in Characters
    BY <1>1
  <2>2. Len(q) = m /\ q \in Seq(Characters) /\ \A j \in 1 .. m : q[j] = text[j]
    BY <1>1, <2>1, SubSeqProperties
  <2> HIDE DEF q
  <2>3. DOMAIN q = 1 .. m
    BY <2>2, LenProperties
  <2>4. {j \in DOMAIN q : q[j] = Newline} = BreaksIn(text, 1, m)
    BY <2>2, <2>3 DEF BreaksIn
  <2> QED
    BY <2>4, Zenon DEF Newlines, q
<1>3. Newlines(part) = Cardinality(C)
  BY DEF Newlines, BreaksIn
<1>4. /\ IsFiniteSet(A) /\ IsFiniteSet(B) /\ IsFiniteSet(C)
      /\ Cardinality(A) \in Nat /\ Cardinality(B) \in Nat /\ Cardinality(C) \in Nat
  BY <1>1, BreaksAreFinite
<1>5. BreaksIn(text, 1, u + k) = A \cup B /\ A \cap B = {}
  BY <1>1 DEF BreaksIn
<1>6. Cardinality(A \cup B) = Cardinality(A) + Cardinality(B)
  <2> HIDE DEF A, B
  <2>1. Cardinality(A \cup B) = Cardinality(A) + Cardinality(B) - Cardinality(A \cap B)
    BY <1>4, FS_Union
  <2>2. Cardinality(A \cap B) = 0
    BY <1>5, FS_EmptySet
  <2> QED
    BY <1>4, <2>1, <2>2
<1>7. Cardinality(B) = Cardinality(C)
  <2> DEFINE move == [j \in C |-> u + j]
  <2>1. C \subseteq 1 .. k
    BY DEF BreaksIn
  <2>2. \A j \in C : move[j] \in B
    BY <1>1, <2>1 DEF BreaksIn
  <2>3. \A i, j \in C : move[i] = move[j] => i = j
    BY <1>1, <2>1
  <2>4. \A i \in B : \E j \in C : move[j] = i
    <3> SUFFICES ASSUME NEW i \in B PROVE \E j \in C : move[j] = i
      OBVIOUS
    <3>1. i \in u + 1 .. u + k /\ text[i] = Newline
      BY DEF BreaksIn
    <3>2. i - u \in 1 .. k /\ u + (i - u) = i
      BY <1>1, <3>1
    <3>3. i - u \in C
      BY <3>1, <3>2 DEF BreaksIn
    <3> QED
      BY <3>2, <3>3
  <2>5. move \in Bijection(C, B)
    <3>1. move \in [C -> B]
      BY <2>2
    <3> HIDE DEF move, B, C
    <3> QED
      BY <2>3, <2>4, <3>1, Fun_IsBij
  <2> HIDE DEF move, B, C
  <2>6. ExistsBijection(C, B)
    BY <2>5, Zenon DEF ExistsBijection
  <2> QED
    BY <1>4, <2>6, FS_Bijection
<1>8. u \in 0 .. L /\ u + k \in 0 .. L
  BY <1>1
<1>9. Newlines(SubSeq(text, 1, u)) = Cardinality(A)
  BY <1>2, <1>8, Zenon
<1>10. Newlines(SubSeq(text, 1, u + k)) = Cardinality(A \cup B)
  BY <1>2, <1>5, <1>8, Zenon
<1> HIDE DEF A, B, C
<1> QED
  BY <1>3, <1>4, <1>6, <1>7, <1>9, <1>10

(* A token with a line break is one whose rule counts them.                *)
LEMMA BreaksCount ==
  ASSUME NEW text, NEW first \in Nat, NEW last \in Nat,
         NEW w, Walks(w, text, "text", first, last),
         NEW i \in first .. last - 1, text[i] = Newline,
         \A p \in i .. last - 1 : text[p] \in Characters
  PROVE  \A p \in i + 1 .. last : w[p] = JAM \/ CountsLines(Accepts(w[p]))
<1> DEFINE N == last - (i + 1)
           T == {k \in 0 .. N : w[i + 1 + k] = JAM \/ CountsLines(Accepts(w[i + 1 + k]))}
<1>1. N \in Nat
  OBVIOUS
<1>2. 0 \in T
  <2>1. i + 1 \in first + 1 .. last /\ (i + 1) - 1 = i /\ i + 1 + 0 = i + 1 /\ i \in i .. last - 1
        /\ i \in first .. last
    OBVIOUS
  <2>2. w[i + 1] = Step("text", w[i], text[i]) /\ w[i] \in States /\ text[i] \in Characters
    BY <2>1 DEF Walks
  <2> QED
    BY <1>1, <2>1, <2>2, LineAssumption DEF Step
<1>3. ASSUME NEW k \in 1 .. N, k - 1 \in T PROVE k \in T
  <2>1. i + 1 + k \in first + 1 .. last /\ (i + 1 + k) - 1 = i + 1 + (k - 1)
        /\ i + 1 + (k - 1) \in i .. last - 1 /\ i + 1 + (k - 1) \in first .. last
    OBVIOUS
  <2> DEFINE p == i + 1 + (k - 1)
  <2>2. w[i + 1 + k] = Step("text", w[p], text[p]) /\ w[p] \in States /\ text[p] \in Characters
    BY <2>1 DEF Walks
  <2>3. w[p] = JAM \/ CountsLines(Accepts(w[p]))
    BY <1>3
  <2> HIDE DEF p
  <2>4. w[i + 1 + k] = JAM \/ CountsLines(Accepts(w[i + 1 + k]))
    BY <2>2, <2>3, LineAssumption, TablesAssumption DEF Step
  <2> QED
    BY <2>4
<1> HIDE DEF T
<1>4. T = 0 .. N
  BY <1>1, <1>2, <1>3, CountedSet DEF T
<1>5. ASSUME NEW p \in i + 1 .. last PROVE w[p] = JAM \/ CountsLines(Accepts(w[p]))
  <2>1. p - (i + 1) \in 0 .. N /\ i + 1 + (p - (i + 1)) = p
    OBVIOUS
  <2>2. p - (i + 1) \in T
    BY <1>4, <2>1
  <2> QED
    BY <2>1, <2>2 DEF T
<1> QED
  BY <1>5

-----------------------------------------------------------------------------
(* The invariant.                                                          *)

Buffers ==
  [ch : UNION {[0 .. k + 1 -> Characters] : k \in Nat}, size : Nat, n : Nat, pos : Nat,
   bol : BOOLEAN, line : Nat, fill : BOOLEAN, status : {"NEW", "NORMAL", "EOF_PENDING"},
   file : STRING, read : Nat]

BufferOK(b) ==
  b \in Buffers /\ b.ch \in [0 .. b.size + 1 -> Characters] /\ (b.fill => b.size > 0)

(* A buffer whose memory is ch, when the held character is in its place,   *)
(* holds the n characters of a text that were read last.  Where nothing    *)
(* will be read, everything was read.                                      *)
HoldsText(text, b, ch, n) ==
  /\ n \in 0 .. b.size /\ ch \in [0 .. b.size + 1 -> Characters]
  /\ ch[n] = EOB /\ ch[n + 1] = EOB
  /\ b.read \in n .. Len(text)
  /\ ~b.fill \/ b.status = "EOF_PENDING" => b.read = Len(text)
  /\ \A p \in 0 .. n - 1 : ch[p] = text[b.read - n + p + 1]

(* A line begins behind the first u characters of a text.                  *)
LineStart(text, u) == u = 0 \/ text[u] = Newline
LineAt(text, u) == 1 + Newlines(SubSeq(text, 1, u))

Current(fs, b, ch, n) ==
  /\ BufferOK(b) /\ b.file \in DOMAIN fs
  /\ HoldsText(fs[b.file], b, ch, n)
  /\ b.status = "NEW" => n = b.n

(* A buffer as it is when a token is to begin at position `at'.            *)
Ready(fs, b, n, at) ==
  /\ Current(fs, b, b.ch, n) /\ at \in 0 .. n
  /\ b.line = LineAt(fs[b.file], b.read - n + at)
  /\ b.bol = LineStart(fs[b.file], b.read - n + at)

(* A buffer that was left at a directive.                                  *)
Waits(fs, b) == Ready(fs, b, b.n, b.pos)

Chars == Restored(Len(bufs))
CurText == files[Buf.file]
(* The characters of the file that were in the buffer before.              *)
Base == Buf.read - nChars
Begin == IF pc \in {"token", "failed"} THEN cBufP ELSE textPtr
Counted == IF AtRule THEN cBufP ELSE Begin

(* The states on the way from the beginning of the token to the end of the *)
(* file.                                                                   *)
TokenWay == WayFrom(CurText, Base + textPtr, StartOf(condition, Buf.bol))

Matching ==
  /\ cBufP <= nChars /\ state = TokenWay[Base + cBufP + 1] /\ state # JAM
  /\ Knows(TokenWay, Base, textPtr, cBufP, lastAccepting)
(* At a character 0, in the text or at the end of the buffer.              *)
FoundTheEnd ==
  /\ cBufP \in textPtr + 1 .. nChars + 1
  /\ Chars[cBufP - 1] = EOB /\ TokenWay[Base + cBufP] # JAM
(* At the end of the file, behind more than the token.                     *)
FoundNothing ==
  /\ textPtr < cBufP /\ cBufP = nChars /\ Buf.read = Len(CurText)
  /\ Accepts(TokenWay[Base + cBufP + 1]) = 0
  /\ Knows(TokenWay, Base, textPtr, cBufP, lastAccepting)
FoundRule ==
  /\ cBufP \in textPtr + 1 .. nChars
  /\ Ends(TokenWay, CurText, Base, cBufP) /\ act = Accepts(TokenWay[Base + cBufP + 1])
AtEndOfFile ==
  /\ textPtr = cBufP /\ cBufP = nChars /\ Buf.read = Len(CurText)
  /\ holdChar = Buf.ch[cBufP]

TokenInv ==
  /\ pc = "match" => Matching
  /\ pc = "act" /\ act = YY_END_OF_BUFFER => FoundTheEnd
  /\ pc = "act" /\ act = 0 => FoundNothing
  /\ AtRule => FoundRule
  /\ pc = "eof" => AtEndOfFile
  /\ pc = "ended" => textPtr = cBufP

ScanTypes ==
  /\ files \in Disks /\ bufs \in Seq(Buffers) /\ Len(bufs) > 0
  /\ lists \in Seq(Seq(STRING)) /\ Len(lists) = Len(bufs) - 1
  /\ condition \in ToSet(StartConditions)
  /\ cBufP \in Nat /\ textPtr \in Nat /\ nChars \in Nat /\ holdChar \in Characters
  /\ pc \in {"token", "match", "act", "eof", "ended", "failed"}

WaitingInv == \A i \in 1 .. Len(bufs) - 1 : Waits(files, bufs[i])
CurrentInv == Current(files, Buf, Chars, nChars)
PlaceInv ==
  /\ textPtr <= cBufP /\ Begin \in 0 .. nChars
  /\ Buf.line = LineAt(CurText, Base + Counted)
  /\ pc \in {"token", "match", "act"} => Buf.bol = LineStart(CurText, Base + Begin)

ScanInv == ScanTypes /\ WaitingInv /\ CurrentInv /\ PlaceInv /\ TokenInv

-----------------------------------------------------------------------------
(* Buffers.                                                                *)

LEMMA FilesAreTexts ==
  ASSUME NEW fs \in Disks, NEW f \in DOMAIN fs
  PROVE  fs[f] \in Seq(Characters) /\ f \in STRING /\ Len(fs[f]) \in Nat
<1>1. fs[f] \in Seq(Characters) /\ f \in STRING
  BY DiskAssumption
<1> QED
  BY <1>1, LenProperties

LEMMA BufIs ==
  ASSUME bufs \in Seq(Buffers), Len(bufs) > 0
  PROVE  /\ Buf = bufs[Len(bufs)] /\ Buf \in Buffers
         /\ Len(bufs) \in Nat /\ DOMAIN bufs = 1 .. Len(bufs) /\ Len(bufs) \in 1 .. Len(bufs)
<1>1. Len(bufs) \in Nat /\ DOMAIN bufs = 1 .. Len(bufs)
  BY LenProperties
<1>2. Len(bufs) \in 1 .. Len(bufs)
  BY <1>1
<1>3. bufs[Len(bufs)] \in Buffers
  BY <1>2, ElementOfSeq
<1> QED
  BY <1>1, <1>2, <1>3 DEF Buf, Last

LEMMA SetBufIs ==
  ASSUME bufs \in Seq(Buffers), Len(bufs) > 0, NEW b \in Buffers, bufs' = SetBuf(b)
  PROVE  /\ bufs' \in Seq(Buffers) /\ Len(bufs') = Len(bufs)
         /\ Buf' = b /\ bufs'[Len(bufs)] = b
         /\ \A i \in 1 .. Len(bufs) - 1 : bufs'[i] = bufs[i]
<1>1. Len(bufs) \in Nat /\ DOMAIN bufs = 1 .. Len(bufs) /\ Len(bufs) \in 1 .. Len(bufs)
  BY BufIs
<1>2. bufs' = [bufs EXCEPT ![Len(bufs)] = b]
  BY DEF SetBuf
<1>3. bufs' \in Seq(Buffers) /\ Len(bufs') = Len(bufs)
  BY <1>1, <1>2, ExceptSeq
<1>4. bufs'[Len(bufs)] = b /\ \A i \in 1 .. Len(bufs) - 1 : bufs'[i] = bufs[i]
  <2>3. \A N \in Nat : \A i \in 1 .. N - 1 : i \in 1 .. N /\ i # N
    OBVIOUS
  <2>1. \A i \in 1 .. Len(bufs) - 1 : i \in 1 .. Len(bufs) /\ i # Len(bufs)
    BY <1>1, <2>3, Zenon
  <2>2. \A i \in DOMAIN bufs : bufs'[i] = IF i = Len(bufs) THEN b ELSE bufs[i]
    BY <1>2, Zenon
  <2> QED
    BY <1>1, <2>1, <2>2, Zenon
<1>5. Buf' = bufs'[Len(bufs')]
  BY DEF Buf, Last
<1> QED
  BY <1>3, <1>4, <1>5

LEMMA WaitingStays ==
  ASSUME WaitingInv, files' = files, Len(bufs') = Len(bufs),
         \A i \in 1 .. Len(bufs) - 1 : bufs'[i] = bufs[i]
  PROVE  WaitingInv'
  BY DEF WaitingInv

LEMMA PutIs ==
  ASSUME NEW size \in Nat, NEW ch \in [0 .. size + 1 -> Characters],
         NEW i \in 0 .. size + 1, NEW c \in Characters
  PROVE  /\ Put(ch, i, c) \in [0 .. size + 1 -> Characters]
         /\ Put(ch, i, c)[i] = c
         /\ \A p \in 0 .. size + 1 : p # i => Put(ch, i, c)[p] = ch[p]
         /\ Put(Put(ch, i, c), i, ch[i]) = ch
  BY DEF Put

(* A buffer with other contents, and with another line.                    *)
WithLine(b, c, m) == [b EXCEPT !.ch = c, !.line = m]

LEMMA BufferWith ==
  ASSUME NEW b, BufferOK(b), NEW c, c \in [0 .. b.size + 1 -> Characters], NEW m \in Nat,
         NEW other, other = WithLine(b, c, m)
  PROVE  /\ BufferOK(other)
         /\ other.ch = c /\ other.size = b.size /\ other.n = b.n /\ other.pos = b.pos
         /\ other.bol = b.bol /\ other.line = m /\ other.fill = b.fill
         /\ other.status = b.status /\ other.file = b.file /\ other.read = b.read
<1>1. b \in Buffers
  BY DEF BufferOK
<1>2. /\ other.ch = c /\ other.size = b.size /\ other.n = b.n /\ other.pos = b.pos
      /\ other.bol = b.bol /\ other.line = m /\ other.fill = b.fill
      /\ other.status = b.status /\ other.file = b.file /\ other.read = b.read
  BY <1>1 DEF Buffers, WithLine
<1>3. c \in UNION {[0 .. k + 1 -> Characters] : k \in Nat}
  <2>1. b.size \in Nat
    BY <1>1 DEF Buffers
  <2> QED
    BY <2>1
<1>4. other \in Buffers
  BY <1>1, <1>3 DEF Buffers, WithLine
<1> QED
  BY <1>2, <1>4 DEF BufferOK

LEMMA StartIsKnown ==
  ASSUME NEW from \in ToSet(StartConditions), NEW bol \in BOOLEAN
  PROVE  StartOf(from, bol) \in Starts
  BY DEF Starts

LEMMA PartIs ==
  ASSUME NEW text \in Seq(Characters), NEW b, BufferOK(b), NEW ch, NEW n, HoldsText(text, b, ch, n)
  PROVE  /\ IsPart(ch, b.size, n, text, b.read - n)
         /\ b.read - n \in Nat /\ n \in Nat /\ b.size \in Nat /\ b.read \in Nat
         /\ (b.read - n) + n = b.read /\ b.read <= Len(text) /\ Len(text) \in Nat
<1>1. b.size \in Nat /\ b.read \in Nat /\ Len(text) \in Nat
  BY LenProperties DEF BufferOK, Buffers
<1>2. /\ n \in 0 .. b.size /\ ch \in [0 .. b.size + 1 -> Characters] /\ ch[n] = EOB
      /\ b.read \in n .. Len(text)
      /\ \A p \in 0 .. n - 1 : ch[p] = text[b.read - n + p + 1]
  BY DEF HoldsText
<1>3. /\ b.read - n \in Nat /\ n \in Nat
      /\ (b.read - n) + n = b.read /\ b.read <= Len(text)
  BY <1>1, <1>2
<1> QED
  BY <1>1, <1>2, <1>3 DEF IsPart

(* What was found of a token that begins at position first: the end of the *)
(* buffer, or the end of the token, or neither at the end of the file.     *)
Found(text, b, n, first, w, i, s, last) ==
  LET base == b.read - n
  IN \/ s = EndState /\ i \in first + 1 .. n + 1 /\ b.ch[i - 1] = EOB /\ w[base + i] # JAM
     \/ i \in first + 1 .. n /\ Ends(w, text, base, i) /\ s = w[base + i + 1]
     \/ /\ i = n /\ first < n /\ b.read = Len(text)
        /\ s = w[base + n + 1] /\ Accepts(s) = 0
        /\ Knows(w, base, first, n, last)

(* The way of a token in a buffer that is ready for it.                    *)
WayIn(text, b, n, first, from) == WayFrom(text, b.read - n + first, StartOf(from, b.bol))

LEMMA WayInIs ==
  ASSUME NEW fs \in Disks, NEW b, NEW n, NEW first, Ready(fs, b, n, first),
         NEW from \in ToSet(StartConditions)
  PROVE  LET text == fs[b.file]
             w == WayIn(text, b, n, first, from)
         IN /\ text \in Seq(Characters) /\ Len(text) \in Nat
            /\ IsPart(b.ch, b.size, n, text, b.read - n)
            /\ b.read - n \in Nat /\ n \in Nat /\ b.size \in Nat /\ b.read \in Nat
            /\ (b.read - n) + n = b.read /\ b.read <= Len(text) /\ first \in 0 .. n
            /\ IsTokenWay(w, text, b.read - n, first)
            /\ w[b.read - n + first + 1] = StartOf(from, b.bol)
<1> DEFINE text == fs[b.file]
           base == b.read - n
           w == WayIn(text, b, n, first, from)
           s == StartOf(from, b.bol)
<1>1. /\ BufferOK(b) /\ b.file \in DOMAIN fs /\ HoldsText(text, b, b.ch, n) /\ first \in 0 .. n
  BY DEF Ready, Current
<1>2. text \in Seq(Characters)
  BY <1>1, FilesAreTexts
<1>3. /\ IsPart(b.ch, b.size, n, text, base)
      /\ base \in Nat /\ n \in Nat /\ b.size \in Nat /\ b.read \in Nat
      /\ base + n = b.read /\ b.read <= Len(text) /\ Len(text) \in Nat
  <2> HIDE DEF text
  <2> QED
    BY <1>1, <1>2, PartIs
<1>4. b.bol \in BOOLEAN
  BY <1>1 DEF BufferOK, Buffers
<1>5. s \in Starts
  BY <1>4, StartIsKnown
<1>6. base + first \in 0 .. Len(text)
  BY <1>1, <1>3
<1>7. w = WayFrom(text, base + first, s)
  BY Zenon DEF WayIn
<1> HIDE DEF text, base, w, s
<1>8. /\ Walks(w, text, "text", base + first + 1, Len(text) + 1)
      /\ w[base + first + 1] = s
  BY <1>2, <1>5, <1>6, <1>7, TokenWayIs
<1>9. IsTokenWay(w, text, base, first)
  BY <1>5, <1>8 DEF IsTokenWay
<1> QED
  BY <1>1, <1>2, <1>3, <1>8, <1>9 DEF text, base, w, s

(* The states of a token's way, and what they accept.                      *)
LEMMA TokenWayStates ==
  ASSUME NEW text \in Seq(Characters), NEW base \in Nat, NEW first \in Nat, base + first <= Len(text),
         NEW w, IsTokenWay(w, text, base, first),
         NEW i \in base + first + 1 .. Len(text) + 1
  PROVE  w[i] \in States /\ w[i] # EndState /\ Accepts(w[i]) # YY_END_OF_BUFFER
<1>1. Len(text) \in Nat /\ \A p \in 1 .. Len(text) : text[p] \in Characters
  BY LenProperties, ElementOfSeq
<1> DEFINE L == Len(text)
           from == base + first + 1
           to == L + 1
<1>2. Walks(w, text, "text", from, to)
  BY DEF IsTokenWay
<1>3. /\ from \in Nat /\ to \in Nat /\ from <= to
      /\ \A p \in from .. to - 1 : text[p] \in Characters
  BY <1>1
<1>4. w[from] # EndState
  BY StartsOpen DEF IsTokenWay
<1>5. i \in from .. to
  OBVIOUS
<1> HIDE DEF L, from, to
<1>6. \A j \in from .. to : w[j] # EndState /\ Accepts(w[j]) # YY_END_OF_BUFFER
  BY <1>2, <1>3, <1>4, TextHasNoEnd
<1>7. w[i] \in States
  BY <1>2, <1>5 DEF Walks
<1> QED
  BY <1>5, <1>6, <1>7

(* The text of a token in the buffer, and its line breaks.                 *)
LEMMA TokenText ==
  ASSUME NEW text \in Seq(Characters), NEW ch, NEW size, NEW n, NEW base,
         IsPart(ch, size, n, text, base),
         NEW first \in 0 .. n, NEW i \in first .. n
  PROVE  /\ Between(ch, first, i - 1) = SubSeq(text, base + first + 1, base + i)
         /\ Len(Between(ch, first, i - 1)) = i - first
         /\ Between(ch, first, i - 1) \in Seq(Characters)
         /\ LineAt(text, base + i) = LineAt(text, base + first) + Newlines(Between(ch, first, i - 1))
         /\ LineAt(text, base + first) \in Nat /\ Newlines(Between(ch, first, i - 1)) \in Nat
<1> DEFINE part == Between(ch, first, i - 1)
           k == i - first
           u == base + first
           L == Len(text)
<1>1. /\ L \in Nat /\ \A p \in 1 .. L : text[p] \in Characters
      /\ n \in Nat /\ base \in Nat /\ base + n <= L /\ i \in Nat /\ i <= n /\ first <= i /\ first \in Nat
  BY LenProperties, ElementOfSeq DEF IsPart
<1>2. k \in 0 .. L - u /\ u \in 0 .. L /\ (i - 1) - first + 1 = k /\ u + k = base + i
  BY <1>1
<1>3. part = [j \in 1 .. k |-> ch[first + j - 1]]
  BY <1>2 DEF Between
<1>4. DOMAIN part = 1 .. k /\ \A j \in 1 .. k : part[j] = text[u + j]
  <2>1. DOMAIN part = 1 .. k
    BY <1>3
  <2> SUFFICES ASSUME NEW j \in 1 .. k PROVE part[j] = text[u + j]
    BY <2>1
  <2>2. first + j - 1 \in 0 .. n - 1 /\ base + (first + j - 1) + 1 = u + j
    BY <1>1, <1>2
  <2>3. ch[first + j - 1] = text[base + (first + j - 1) + 1]
    BY <2>2 DEF IsPart
  <2>4. part[j] = ch[first + j - 1]
    BY <1>3, Zenon
  <2> HIDE DEF part
  <2> QED
    BY <2>2, <2>3, <2>4
<1>5. \A j \in 1 .. k : text[u + j] \in Characters
  BY <1>1, <1>2
<1>6. part \in Seq(Characters) /\ Len(part) = k
  <2>1. \A j \in 1 .. k : ch[first + j - 1] \in Characters
    <3> SUFFICES ASSUME NEW j \in 1 .. k PROVE ch[first + j - 1] \in Characters
      OBVIOUS
    <3>1. part[j] = ch[first + j - 1]
      BY <1>3, Zenon
    <3> HIDE DEF part
    <3> QED
      BY <1>4, <1>5, <3>1
  <2>2. k \in Nat
    BY <1>2
  <2> HIDE DEF part, k
  <2> QED
    BY <1>3, <2>1, <2>2
<1> HIDE DEF part, k, u, L
<1>7. /\ Newlines(SubSeq(text, 1, u + k)) = Newlines(SubSeq(text, 1, u)) + Newlines(part)
      /\ Newlines(SubSeq(text, 1, u)) \in Nat /\ Newlines(part) \in Nat
  BY <1>2, <1>4, NewlinesAdd DEF L
<1>8. part = SubSeq(text, u + 1, u + k)
  <2> DEFINE q == SubSeq(text, u + 1, u + k)
  <2>1. u + 1 \in Int /\ u + k \in Int /\ u + 1 <= (u + k) + 1
        /\ \A j \in u + 1 .. u + k : text[j] \in Characters
    BY <1>1, <1>2
  <2>2. /\ q \in Seq(Characters) /\ Len(q) = (u + k) - (u + 1) + 1
        /\ \A j \in 1 .. (u + k) - (u + 1) + 1 : q[j] = text[u + 1 + j - 1]
    BY <2>1, SubSeqProperties
  <2> HIDE DEF q
  <2>3. (u + k) - (u + 1) + 1 = k /\ \A j \in 1 .. k : u + 1 + j - 1 = u + j
    BY <1>2
  <2>4. \A j \in 1 .. Len(part) : part[j] = q[j]
    BY <1>4, <1>6, <2>2, <2>3
  <2>5. part = q
    BY <1>6, <2>2, <2>3, <2>4, SeqEqual
  <2> QED
    BY <2>5 DEF q
<1>9. base + i = u + k /\ base + first + 1 = u + 1
  BY <1>1, <1>2 DEF u
<1>10. LineAt(text, u + k) = LineAt(text, u) + Newlines(part) /\ LineAt(text, u) \in Nat
  BY <1>7 DEF LineAt
<1> QED
  BY <1>6, <1>7, <1>8, <1>9, <1>10 DEF part, k, u

(* The part of a text between two positions of the buffer.                 *)
Within(first, i, n) == first \in 0 .. n /\ i \in first .. n

LEMMA TokenIsPart ==
  ASSUME NEW text \in Seq(Characters), NEW ch, NEW size, NEW n, NEW base,
         IsPart(ch, size, n, text, base), NEW first, NEW i, Within(first, i, n)
  PROVE  /\ Between(ch, first, i - 1) = SubSeq(text, base + first + 1, base + i)
         /\ Len(Between(ch, first, i - 1)) = i - first
         /\ Between(ch, first, i - 1) \in Seq(Characters)
         /\ LineAt(text, base + i) = LineAt(text, base + first) + Newlines(Between(ch, first, i - 1))
         /\ LineAt(text, base + first) \in Nat /\ Newlines(Between(ch, first, i - 1)) \in Nat
  BY TokenText DEF Within

-----------------------------------------------------------------------------
(* The end of a match: yy_find_action.                                     *)

(* The buffers that wait.                                                  *)
OthersStay == Len(bufs') = Len(bufs) /\ \A i \in 1 .. Len(bufs) - 1 : bufs'[i] = bufs[i]

LEMMA FindActionKeeps ==
  ASSUME ScanTypes, WaitingInv,
         NEW b, NEW n, NEW first, NEW i, NEW s,
         Ready(files, b, n, first),
         FindAction(b, s, i, first), nChars' = n, Unread,
         Found(files[b.file], b, n, first, WayIn(files[b.file], b, n, first, condition), i, s,
               lastAccepting')
  PROVE  /\ ScanInv' /\ Buf'.file = b.file /\ Base' + Begin' = b.read - n + first
         /\ OthersStay
<1> DEFINE text == files[b.file]
           base == b.read - n
           w == WayIn(text, b, n, first, condition)
           rule == act'
           lines == IF CountsLines(rule) THEN Newlines(Between(b.ch, first, i - 1)) ELSE 0
           c == Put(b.ch, i, 0)
           new == [b EXCEPT !.ch = c, !.line = b.line + lines]
<1>1. /\ BufferOK(b) /\ b.file \in DOMAIN files /\ HoldsText(text, b, b.ch, n)
      /\ first \in 0 .. n /\ b.line = LineAt(text, base + first)
      /\ b.bol = LineStart(text, base + first) /\ (b.status = "NEW" => n = b.n)
  BY DEF Ready, Current
<1>2. files \in Disks /\ condition \in ToSet(StartConditions)
  BY DEF ScanTypes
<1>3. /\ text \in Seq(Characters) /\ Len(text) \in Nat
      /\ IsPart(b.ch, b.size, n, text, base)
      /\ base \in Nat /\ n \in Nat /\ b.size \in Nat /\ b.read \in Nat
      /\ base + n = b.read /\ b.read <= Len(text)
      /\ IsTokenWay(w, text, base, first)
  BY <1>2, WayInIs
<1>4. n <= b.size /\ first <= n /\ first \in Nat /\ b.ch \in [0 .. b.size + 1 -> Characters]
  BY <1>1, <1>3 DEF HoldsText
<1>5. /\ state' = s /\ rule = Accepts(s) /\ textPtr' = first /\ cBufP' = i
      /\ holdChar' = b.ch[i] /\ pc' = "act"
      /\ bufs' = SetBuf([b EXCEPT !.ch = Put(@, cBufP', 0),
                                  !.line = @ + (IF CountsLines(act')
                                                THEN Newlines(Between(b.ch, textPtr', cBufP' - 1))
                                                ELSE 0)])
  BY Zenon DEF FindAction
<1>6. bufs' = SetBuf(new)
  BY <1>5
<1>7. Found(text, b, n, first, w, i, s, lastAccepting')
  OBVIOUS
<1>8. /\ files' = files /\ lists' = lists /\ condition' = condition
  BY DEF Unread
<1>24. /\ w = WayFrom(text, base + first, StartOf(condition, b.bol))
       /\ text = files[b.file] /\ base = b.read - n
  BY Zenon DEF WayIn
<1> HIDE DEF text, base, w, rule, lines, c, new
<1>9. i \in first + 1 .. n + 1 /\ i \in 0 .. b.size + 1 /\ i \in Nat
  BY <1>3, <1>4, <1>7 DEF Found, base
<1>10. /\ c \in [0 .. b.size + 1 -> Characters] /\ Put(c, i, b.ch[i]) = b.ch
       /\ b.ch[i] \in Characters
  <2>1. 0 \in Characters
    BY DEF Characters
  <2>2. b.ch[i] \in Characters
    BY <1>4, <1>9
  <2> QED
    BY <1>4, <1>9, <2>1, <2>2 DEF c, Put
(* The three cases.                                                        *)
<1>11. \/ /\ rule = YY_END_OF_BUFFER /\ rule # 0 /\ lines = 0
          /\ b.ch[i - 1] = EOB /\ w[base + i] # JAM
       \/ /\ rule = 0 /\ rule # YY_END_OF_BUFFER /\ lines = 0
          /\ i = n /\ first < n /\ b.read = Len(text) /\ Accepts(w[base + i + 1]) = 0
          /\ Knows(w, base, first, n, lastAccepting')
       \/ /\ rule # 0 /\ rule # YY_END_OF_BUFFER
          /\ i \in first + 1 .. n /\ Ends(w, text, base, i) /\ rule = Accepts(w[base + i + 1])
  <2>1. CASE s = EndState /\ i \in first + 1 .. n + 1 /\ b.ch[i - 1] = EOB /\ w[base + i] # JAM
    <3>1. rule = YY_END_OF_BUFFER /\ rule # 0
      BY <1>5, <2>1, EndStateIs, EndAssumption
    <3> QED
      BY <2>1, <3>1 DEF lines, CountsLines
  <2>2. CASE i \in first + 1 .. n /\ Ends(w, text, base, i) /\ s = w[base + i + 1]
    <3>1. base + first <= Len(text) /\ base + i + 1 \in base + first + 1 .. Len(text) + 1
      BY <1>3, <1>4, <1>9, <2>2
    <3>2. rule # YY_END_OF_BUFFER
      BY <1>3, <1>4, <1>5, <2>2, <3>1, TokenWayStates
    <3>3. rule # 0
      BY <1>5, <2>2 DEF Ends, LastOf
    <3> QED
      BY <1>5, <2>2, <3>2, <3>3
  <2>3. CASE /\ i = n /\ first < n /\ b.read = Len(text)
             /\ s = w[base + n + 1] /\ Accepts(s) = 0
             /\ Knows(w, base, first, n, lastAccepting')
    BY <1>5, <2>3, EndAssumption DEF lines, CountsLines
  <2> QED
    BY <1>7, <2>1, <2>2, <2>3 DEF Found, base
<1>12. /\ lines \in Nat /\ b.line + lines \in Nat
       /\ b.line + lines = LineAt(text, base + (IF rule \in {0, YY_END_OF_BUFFER} THEN first ELSE i))
  <2>1. LineAt(text, base + first) \in Nat
    <3>1. first \in 0 .. n /\ first \in first .. n
      BY <1>1, <1>4
    <3> QED
      BY <1>3, <3>1, TokenText
  <2>2. CASE rule \in {0, YY_END_OF_BUFFER}
    <3>1. lines = 0
      BY <1>11, <2>2
    <3> QED
      BY <1>1, <2>1, <2>2, <3>1
  <2>3. CASE rule \notin {0, YY_END_OF_BUFFER}
    <3>1. i \in first .. n /\ Ends(w, text, base, i) /\ rule = Accepts(w[base + i + 1])
      BY <1>4, <1>9, <1>11, <2>3
    <3> DEFINE part == Between(b.ch, first, i - 1)
    <3>2. /\ LineAt(text, base + i) = LineAt(text, base + first) + Newlines(part)
          /\ Newlines(part) \in Nat /\ part \in Seq(Characters) /\ Len(part) = i - first
          /\ part = SubSeq(text, base + first + 1, base + i)
      <4>1. first \in 0 .. n /\ i \in first .. n
        BY <1>1, <3>1
      <4>2. IsPart(b.ch, b.size, n, text, base) /\ text \in Seq(Characters)
        BY <1>3
      <4> DEFINE ch == b.ch
                 size == b.size
      <4> HIDE DEF ch, size
      <4>3. /\ LineAt(text, base + i) = LineAt(text, base + first) + Newlines(Between(ch, first, i - 1))
            /\ Newlines(Between(ch, first, i - 1)) \in Nat
            /\ Between(ch, first, i - 1) \in Seq(Characters)
            /\ Len(Between(ch, first, i - 1)) = i - first
            /\ Between(ch, first, i - 1) = SubSeq(text, base + first + 1, base + i)
        <5>1. IsPart(ch, size, n, text, base)
          BY <4>2 DEF ch, size
        <5> QED
          BY <4>1, <4>2, <5>1, TokenText
      <4> QED
        BY <4>3 DEF ch
    <3>3. lines = Newlines(part)
      <4>1. CASE CountsLines(rule)
        BY <4>1 DEF lines
      <4>2. CASE ~CountsLines(rule)
        <5>1. ASSUME NEW j \in DOMAIN part, part[j] = Newline PROVE FALSE
          <6>1. /\ j \in 1 .. i - first /\ base + first + 1 \in Int /\ base + i \in Int
                /\ base + first + 1 <= (base + i) + 1
                /\ \A k \in base + first + 1 .. base + i : text[k] \in Characters
            <7>1. DOMAIN part = 1 .. i - first
              BY <3>2, LenProperties
            <7>2. \A k \in base + first + 1 .. base + i : k \in 1 .. Len(text)
              BY <1>3, <1>4, <3>1
            <7>3. \A k \in 1 .. Len(text) : text[k] \in Characters
              BY <1>3, ElementOfSeq
            <7> HIDE DEF part
            <7> QED
              BY <1>3, <1>4, <1>9, <3>1, <5>1, <7>1, <7>2, <7>3
          <6>2. \A k \in 1 .. (base + i) - (base + first + 1) + 1 :
                  SubSeq(text, base + first + 1, base + i)[k] = text[(base + first + 1) + k - 1]
            BY <6>1, SubSeqProperties
          <6> DEFINE p == base + first + j
          <6>3. j \in 1 .. (base + i) - (base + first + 1) + 1 /\ (base + first + 1) + j - 1 = p
            BY <1>3, <1>4, <1>9, <6>1
          <6>4. text[p] = Newline
            BY <3>2, <5>1, <6>2, <6>3
          <6>5. /\ base + first + 1 \in Nat /\ Len(text) + 1 \in Nat
                /\ p \in base + first + 1 .. (Len(text) + 1) - 1
                /\ base + i + 1 \in p + 1 .. Len(text) + 1
                /\ \A q \in p .. (Len(text) + 1) - 1 : q \in 1 .. Len(text)
            BY <1>3, <1>4, <1>9, <3>1, <6>1
          <6>6. \A q \in p .. (Len(text) + 1) - 1 : text[q] \in Characters
            BY <1>3, <6>5, ElementOfSeq
          <6>7. Walks(w, text, "text", base + first + 1, Len(text) + 1)
            BY <1>3 DEF IsTokenWay
          <6> HIDE DEF p, part
          <6>8. \A q \in p + 1 .. Len(text) + 1 : w[q] = JAM \/ CountsLines(Accepts(w[q]))
            BY <6>4, <6>5, <6>6, <6>7, BreaksCount
          <6>9. w[base + i + 1] = JAM
            BY <3>1, <4>2, <6>5, <6>8
          <6> QED
            BY <2>3, <3>1, <6>9, TablesAssumption
        <5>2. {j \in DOMAIN part : part[j] = Newline} = {}
          BY <5>1
        <5>3. Newlines(part) = 0
          BY <5>2, FS_EmptySet DEF Newlines
        <5> QED
          BY <4>2, <5>3 DEF lines
      <4> QED
        BY <4>1, <4>2
    <3> HIDE DEF part
    <3> QED
      BY <1>1, <2>1, <2>3, <3>2, <3>3
  <2> QED
    BY <2>2, <2>3
(* The buffer.                                                             *)
<1>13. /\ BufferOK(new) /\ new \in Buffers
       /\ new.ch = c /\ new.size = b.size /\ new.n = b.n /\ new.bol = b.bol
       /\ new.line = b.line + lines /\ new.fill = b.fill
       /\ new.status = b.status /\ new.file = b.file /\ new.read = b.read
  <2>1. /\ BufferOK(new)
        /\ new.ch = c /\ new.size = b.size /\ new.n = b.n /\ new.pos = b.pos
        /\ new.bol = b.bol /\ new.line = b.line + lines /\ new.fill = b.fill
        /\ new.status = b.status /\ new.file = b.file /\ new.read = b.read
    <3>1. BufferOK(b) /\ c \in [0 .. b.size + 1 -> Characters] /\ b.line + lines \in Nat
      BY <1>1, <1>10, <1>12
    <3>2. new = WithLine(b, c, b.line + lines)
      BY Zenon DEF new, WithLine
    <3> QED
      BY <3>1, <3>2, BufferWith
  <2> QED
    BY <2>1 DEF BufferOK
<1>14. /\ bufs' \in Seq(Buffers) /\ Len(bufs') = Len(bufs) /\ Buf' = new
       /\ bufs'[Len(bufs)] = new
       /\ \A k \in 1 .. Len(bufs) - 1 : bufs'[k] = bufs[k]
  BY <1>6, <1>13, SetBufIs DEF ScanTypes
<1>15. Chars' = b.ch
  <2>1. Chars' = Put(bufs'[Len(bufs')].ch, cBufP', holdChar')
    BY <1>5 DEF Chars, Restored
  <2> QED
    BY <1>5, <1>10, <1>13, <1>14, <2>1
<1>16. CurText' = text /\ Base' = base
  BY <1>8, <1>13, <1>14, <1>24 DEF CurText, Base
<1>17. TokenWay' = w
  <2>1. TokenWay' = WayFrom(CurText', Base' + textPtr', StartOf(condition', Buf'.bol))
    BY DEF TokenWay
  <2> QED
    BY <1>5, <1>8, <1>13, <1>14, <1>16, <1>24, <2>1
<1>18. ScanTypes'
  BY <1>3, <1>4, <1>5, <1>8, <1>9, <1>10, <1>14 DEF ScanTypes
<1>19. WaitingInv'
  BY <1>8, <1>14, WaitingStays
<1>20. CurrentInv'
  <2>1. HoldsText(text, new, b.ch, n)
    BY <1>1, <1>13 DEF HoldsText
  <2>2. Current(files, new, b.ch, n)
    BY <1>1, <1>13, <1>24, <2>1 DEF Current
  <2> QED
    BY <1>8, <1>14, <1>15, <2>2 DEF CurrentInv
<1>25. Begin' = first /\ Counted' = IF rule \in {0, YY_END_OF_BUFFER} THEN first ELSE i
  BY <1>5 DEF Begin, Counted, AtRule, rule
<1>21. PlaceInv'
  <2>1. Buf'.line = LineAt(CurText', Base' + Counted')
    BY <1>12, <1>13, <1>14, <1>16, <1>25
  <2>2. Buf'.bol = LineStart(CurText', Base' + Begin')
    BY <1>1, <1>13, <1>14, <1>16, <1>25
  <2>3. textPtr' <= cBufP' /\ Begin' \in 0 .. nChars'
    BY <1>1, <1>4, <1>5, <1>9, <1>25
  <2> QED
    BY <2>1, <2>2, <2>3 DEF PlaceInv
<1>22. TokenInv'
  <2>1. CASE /\ rule = YY_END_OF_BUFFER /\ rule # 0
             /\ b.ch[i - 1] = EOB /\ w[base + i] # JAM
    <3>1. FoundTheEnd'
      BY <1>5, <1>9, <1>15, <1>16, <1>17, <2>1 DEF FoundTheEnd
    <3> QED
      BY <1>5, <2>1, <3>1 DEF TokenInv, AtRule, rule
  <2>2. CASE /\ rule = 0 /\ rule # YY_END_OF_BUFFER
             /\ i = n /\ first < n /\ b.read = Len(text) /\ Accepts(w[base + i + 1]) = 0
             /\ Knows(w, base, first, n, lastAccepting')
    <3>1. FoundNothing'
      BY <1>5, <1>13, <1>14, <1>16, <1>17, <2>2 DEF FoundNothing
    <3> QED
      BY <1>5, <2>2, <3>1 DEF TokenInv, AtRule, rule
  <2>3. CASE /\ rule # 0 /\ rule # YY_END_OF_BUFFER
             /\ i \in first + 1 .. n /\ Ends(w, text, base, i) /\ rule = Accepts(w[base + i + 1])
    <3>1. FoundRule'
      BY <1>5, <1>16, <1>17, <2>3 DEF FoundRule, rule
    <3> QED
      BY <1>5, <2>3, <3>1 DEF TokenInv, AtRule, rule
  <2> QED
    BY <1>11, <2>1, <2>2, <2>3
<1>23. Buf'.file = b.file /\ Base' + Begin' = base + first
  BY <1>13, <1>14, <1>16, <1>25
<1> QED
  BY <1>14, <1>18, <1>19, <1>20, <1>21, <1>22, <1>23, <1>24 DEF ScanInv, OthersStay

(* What the loop finds from within a token.                                *)
LEMMA MatchFinds ==
  ASSUME NEW fs \in Disks, NEW from \in ToSet(StartConditions),
         NEW b, NEW n, NEW first, Ready(fs, b, n, first),
         NEW w, w = WayIn(fs[b.file], b, n, first, from),
         NEW i \in first .. n, w[b.read - n + i + 1] # JAM,
         NEW accepting, Knows(w, b.read - n, first, i, accepting),
         NEW m, m = Matched(b.ch, w[b.read - n + i + 1], i, accepting)
  PROVE  Found(fs[b.file], b, n, first, w, m[2], m[1], m)
<1> DEFINE text == fs[b.file]
           base == b.read - n
           ch == b.ch
           size == b.size
<1>1. /\ text \in Seq(Characters) /\ IsPart(ch, size, n, text, base)
      /\ base \in Nat /\ n \in Nat /\ base + n = b.read /\ first \in 0 .. n
      /\ IsTokenWay(w, text, base, first)
  BY WayInIs
<1>2. /\ w[base + i + 1] # JAM /\ Knows(w, base, first, i, accepting)
      /\ m = Matched(ch, w[base + i + 1], i, accepting)
  OBVIOUS
<1>3. Found(text, b, n, first, w, m[2], m[1], m) =
        (\/ /\ m[1] = EndState /\ m[2] \in first + 1 .. n + 1 /\ ch[m[2] - 1] = EOB
            /\ w[base + m[2]] # JAM
         \/ m[2] \in first + 1 .. n /\ Ends(w, text, base, m[2]) /\ m[1] = w[base + m[2] + 1]
         \/ /\ m[2] = n /\ first < n /\ b.read = Len(text)
            /\ m[1] = w[base + n + 1] /\ Accepts(m[1]) = 0
            /\ Knows(w, base, first, n, m))
  BY DEF Found
<1> HIDE DEF text, base, ch, size
<1>4. \/ \E z \in i .. n :
           ch[z] = EOB /\ w[base + z + 1] # JAM /\ m = <<EndState, z + 1>>
      \/ \E k \in first + 1 .. n : Ends(w, text, base, k) /\ m = <<w[base + k + 1], k>>
  <2>1. \/ \E z \in i .. n :
             /\ ch[z] = EOB /\ w[base + z + 1] # JAM
             /\ Matched(ch, w[base + i + 1], i, accepting) = <<EndState, z + 1>>
        \/ \E k \in first + 1 .. n :
             /\ Ends(w, text, base, k)
             /\ Matched(ch, w[base + i + 1], i, accepting) = <<w[base + k + 1], k>>
    <3>1. w[base + i + 1] # JAM /\ Knows(w, base, first, i, accepting)
      BY <1>2
    <3> QED
      BY <1>1, <3>1, MatchedIs
  <2> QED
    BY <1>2, <2>1, Zenon
<1>5. ASSUME NEW z \in i .. n, ch[z] = EOB, w[base + z + 1] # JAM, m = <<EndState, z + 1>>
      PROVE  /\ m[1] = EndState /\ m[2] \in first + 1 .. n + 1 /\ ch[m[2] - 1] = EOB
             /\ w[base + m[2]] # JAM
  <2>1. m[1] = EndState /\ m[2] = z + 1
    BY <1>5
  <2>2. z + 1 \in first + 1 .. n + 1 /\ (z + 1) - 1 = z /\ base + (z + 1) = base + z + 1
    BY <1>1
  <2> QED
    BY <1>5, <2>1, <2>2
<1>6. ASSUME NEW k \in first + 1 .. n, Ends(w, text, base, k), m = <<w[base + k + 1], k>>
      PROVE  m[2] \in first + 1 .. n /\ Ends(w, text, base, m[2]) /\ m[1] = w[base + m[2] + 1]
  BY <1>6
<1> QED
  BY <1>3, <1>4, <1>5, <1>6 DEF text

(* The current buffer with the held character in its place, at the start of*)
(* a token and within one.                                                 *)
Held == [Buf EXCEPT !.ch = Put(@, cBufP, holdChar)]

LEMMA CurrentIs ==
  ASSUME ScanInv
  PROVE  /\ Buf \in Buffers /\ BufferOK(Buf) /\ Buf.file \in DOMAIN files
         /\ HoldsText(CurText, Buf, Chars, nChars) /\ CurText \in Seq(Characters)
         /\ Base \in Nat /\ Base + nChars = Buf.read /\ Buf.read <= Len(CurText)
         /\ Len(CurText) \in Nat /\ Base = Buf.read - nChars
         /\ Chars = IF pc # "match" /\ pc # "eof" THEN Put(Buf.ch, cBufP, holdChar) ELSE Buf.ch
<1>1. /\ BufferOK(Buf) /\ Buf.file \in DOMAIN files
      /\ HoldsText(files[Buf.file], Buf, Chars, nChars)
  BY DEF ScanInv, CurrentInv, Current
<1>2. CurText \in Seq(Characters)
  BY <1>1, FilesAreTexts DEF CurText, ScanInv, ScanTypes
<1>3. HoldsText(CurText, Buf, Chars, nChars)
  BY <1>1 DEF CurText
<1>4. /\ Buf.read - nChars \in Nat /\ (Buf.read - nChars) + nChars = Buf.read
      /\ Buf.read <= Len(CurText) /\ Len(CurText) \in Nat
  BY <1>1, <1>2, <1>3, PartIs
<1>5. Buf = bufs[Len(bufs)]
  BY BufIs DEF ScanInv, ScanTypes
<1>6. Chars = IF pc # "match" /\ pc # "eof" THEN Put(Buf.ch, cBufP, holdChar) ELSE Buf.ch
  BY <1>5 DEF Chars, Restored
<1> QED
  BY <1>1, <1>2, <1>3, <1>4, <1>6 DEF Base, BufferOK

LEMMA HeldIs ==
  ASSUME ScanInv, pc \in {"token", "act"}
  PROVE  /\ Current(files, Held, Held.ch, nChars) /\ Held.ch = Chars
         /\ Held.size = Buf.size /\ Held.n = Buf.n /\ Held.pos = Buf.pos
         /\ Held.bol = Buf.bol /\ Held.line = Buf.line /\ Held.fill = Buf.fill
         /\ Held.status = Buf.status /\ Held.file = Buf.file /\ Held.read = Buf.read
<1>1. /\ Buf \in Buffers /\ BufferOK(Buf) /\ Buf.file \in DOMAIN files
      /\ HoldsText(CurText, Buf, Chars, nChars)
      /\ Chars = Put(Buf.ch, cBufP, holdChar) /\ (Buf.status = "NEW" => nChars = Buf.n)
  BY CurrentIs DEF ScanInv, CurrentInv, Current
<1>2. Chars \in [0 .. Buf.size + 1 -> Characters] /\ Buf.line \in Nat
  BY <1>1 DEF HoldsText, Buffers
<1>3. Held = WithLine(Buf, Chars, Buf.line)
  BY <1>1 DEF Held, WithLine, Buffers
<1>4. /\ BufferOK(Held) /\ Held.ch = Chars
      /\ Held.size = Buf.size /\ Held.n = Buf.n /\ Held.pos = Buf.pos
      /\ Held.bol = Buf.bol /\ Held.line = Buf.line /\ Held.fill = Buf.fill
      /\ Held.status = Buf.status /\ Held.file = Buf.file /\ Held.read = Buf.read
  BY <1>1, <1>2, <1>3, BufferWith
<1>5. HoldsText(files[Held.file], Held, Held.ch, nChars)
  BY <1>1, <1>4 DEF HoldsText, CurText
<1> QED
  BY <1>1, <1>4, <1>5 DEF Current

(* Within a token everything is ready for it.                              *)
LEMMA TokenIsReady ==
  ASSUME ScanInv
  PROVE  /\ pc = "token" => Ready(files, Held, nChars, cBufP)
         /\ pc = "act" /\ ~AtRule => Ready(files, Held, nChars, textPtr)
         /\ pc = "match" => Ready(files, Buf, nChars, textPtr)
<1>1. /\ Begin \in 0 .. nChars
      /\ Buf.line = LineAt(CurText, Base + Counted)
      /\ pc \in {"token", "match", "act"} => Buf.bol = LineStart(CurText, Base + Begin)
      /\ Base = Buf.read - nChars
  BY CurrentIs DEF ScanInv, PlaceInv
<1>2. CASE pc = "token"
  <2>1. Begin = cBufP /\ Counted = cBufP
    BY <1>2 DEF Begin, Counted, AtRule
  <2> QED
    BY <1>1, <1>2, <2>1, HeldIs DEF Ready, CurText
<1>3. CASE pc = "act" /\ ~AtRule
  <2>1. Begin = textPtr /\ Counted = textPtr
    BY <1>3 DEF Begin, Counted
  <2> QED
    BY <1>1, <1>3, <2>1, HeldIs DEF Ready, CurText
<1>4. CASE pc = "match"
  <2>1. Begin = textPtr /\ Counted = textPtr
    BY <1>4 DEF Begin, Counted, AtRule
  <2>2. Current(files, Buf, Buf.ch, nChars)
    BY <1>4, CurrentIs DEF ScanInv, CurrentInv
  <2> QED
    BY <1>1, <1>4, <2>1, <2>2 DEF Ready, CurText
<1> QED
  BY <1>2, <1>3, <1>4

(* A step that leaves the place in the text alone.                         *)
SamePlace == OthersStay /\ Buf'.file = Buf.file /\ Base' + Begin' = Base + Begin

LEMMA BeginTokenKeeps ==
  ASSUME ScanInv, BeginToken
  PROVE  ScanInv' /\ SamePlace
<1> DEFINE w == WayIn(files[Held.file], Held, nChars, cBufP, condition)
           m == lastAccepting'
<1>1. /\ pc = "token" /\ nChars' = nChars /\ Unread
      /\ lastAccepting' = Matched(Held.ch, StartOf(condition, Held.bol), cBufP, lastAccepting)
      /\ FindAction(Held, lastAccepting'[1], lastAccepting'[2], cBufP)
  BY Zenon DEF BeginToken, Held
<1>2. Ready(files, Held, nChars, cBufP)
  BY <1>1, TokenIsReady
<1>3. files \in Disks /\ condition \in ToSet(StartConditions) /\ ScanTypes /\ WaitingInv /\ cBufP \in Nat
  BY DEF ScanInv, ScanTypes
<1>4. /\ Held.bol = Buf.bol /\ Held.file = Buf.file /\ Held.read = Buf.read
      /\ Base = Buf.read - nChars /\ Begin = cBufP
  BY <1>1, HeldIs, CurrentIs DEF Begin
<1>5. /\ w[Held.read - nChars + cBufP + 1] = StartOf(condition, Held.bol)
      /\ IsTokenWay(w, files[Held.file], Held.read - nChars, cBufP)
      /\ cBufP \in 0 .. nChars
  BY <1>2, <1>3, WayInIs
<1> HIDE DEF w, m
<1>6. w[Held.read - nChars + cBufP + 1] # JAM
  BY <1>5, StartsOpen DEF IsTokenWay
<1>7. Knows(w, Held.read - nChars, cBufP, cBufP, lastAccepting)
  BY <1>3 DEF Knows
<1>8. m = Matched(Held.ch, w[Held.read - nChars + cBufP + 1], cBufP, lastAccepting)
  BY <1>1, <1>5 DEF m
<1>9. cBufP \in cBufP .. nChars
  BY <1>5
<1>10. Found(files[Held.file], Held, nChars, cBufP, w, m[2], m[1], m)
  BY <1>2, <1>3, <1>6, <1>7, <1>8, <1>9, MatchFinds DEF w
<1>11. /\ ScanInv' /\ Buf'.file = Held.file /\ Base' + Begin' = Held.read - nChars + cBufP
       /\ OthersStay
  BY <1>1, <1>2, <1>3, <1>10, FindActionKeeps DEF w, m
<1> QED
  BY <1>4, <1>11 DEF SamePlace

LEMMA TokenWayIn ==
  ASSUME ScanInv
  PROVE  TokenWay = WayIn(files[Buf.file], Buf, nChars, textPtr, condition)
  BY CurrentIs DEF TokenWay, WayIn, CurText

LEMMA ContinueTokenKeeps ==
  ASSUME ScanInv, ContinueToken
  PROVE  ScanInv' /\ SamePlace
<1> DEFINE m == lastAccepting'
<1>1. /\ pc = "match" /\ nChars' = nChars /\ Unread
      /\ lastAccepting' = Matched(Buf.ch, state, cBufP, lastAccepting)
      /\ FindAction(Buf, lastAccepting'[1], lastAccepting'[2], textPtr)
  BY Zenon DEF ContinueToken
<1>2. Ready(files, Buf, nChars, textPtr)
  BY <1>1, TokenIsReady
<1>3. /\ files \in Disks /\ condition \in ToSet(StartConditions) /\ ScanTypes /\ WaitingInv
      /\ cBufP \in Nat /\ textPtr \in Nat /\ nChars \in Nat
  BY DEF ScanInv, ScanTypes
<1>4. Base = Buf.read - nChars /\ Begin = textPtr
  BY <1>1, CurrentIs DEF Begin
<1>5. /\ cBufP <= nChars /\ state = TokenWay[Buf.read - nChars + cBufP + 1]
      /\ TokenWay[Buf.read - nChars + cBufP + 1] # JAM
      /\ Knows(TokenWay, Buf.read - nChars, textPtr, cBufP, lastAccepting)
  BY <1>1, <1>4 DEF ScanInv, TokenInv, Matching
<1>6. cBufP \in textPtr .. nChars
  BY <1>3, <1>5 DEF ScanInv, PlaceInv
<1>7. m = Matched(Buf.ch, TokenWay[Buf.read - nChars + cBufP + 1], cBufP, lastAccepting)
  BY <1>1, <1>5 DEF m
<1>8. TokenWay = WayIn(files[Buf.file], Buf, nChars, textPtr, condition)
  BY TokenWayIn
<1> HIDE DEF m
<1>9. Found(files[Buf.file], Buf, nChars, textPtr, TokenWay, m[2], m[1], m)
  BY <1>2, <1>3, <1>5, <1>6, <1>7, <1>8, MatchFinds
<1>10. /\ ScanInv' /\ Buf'.file = Buf.file /\ Base' + Begin' = Buf.read - nChars + textPtr
       /\ OthersStay
  BY <1>1, <1>2, <1>3, <1>8, <1>9, FindActionKeeps DEF m
<1> QED
  BY <1>4, <1>10 DEF SamePlace

(* The way of the token in the buffer with the held character.             *)
LEMMA HeldWay ==
  ASSUME ScanInv, pc = "act"
  PROVE  /\ TokenWay = WayIn(files[Held.file], Held, nChars, textPtr, condition)
         /\ Base = Held.read - nChars /\ Begin = textPtr
         /\ files[Held.file] = CurText /\ Held.file = Buf.file
<1>1. Held.bol = Buf.bol /\ Held.file = Buf.file /\ Held.read = Buf.read
  BY HeldIs
<1>2. Base = Buf.read - nChars
  BY CurrentIs
<1> QED
  BY <1>1, <1>2 DEF TokenWay, WayIn, CurText, Begin

LEMMA BackUpKeeps ==
  ASSUME ScanInv, BackUp
  PROVE  ScanInv' /\ SamePlace
<1> DEFINE w == TokenWay
           m == lastAccepting
<1>1. /\ pc = "act" /\ act = 0 /\ nChars' = nChars /\ lastAccepting' = lastAccepting /\ Unread
      /\ FindAction(Held, lastAccepting[1], lastAccepting[2], textPtr)
  BY Zenon DEF BackUp, Held
<1>2. Ready(files, Held, nChars, textPtr)
  BY <1>1, TokenIsReady DEF AtRule
<1>3. /\ files \in Disks /\ condition \in ToSet(StartConditions) /\ ScanTypes /\ WaitingInv
      /\ cBufP \in Nat /\ textPtr \in Nat /\ nChars \in Nat
  BY DEF ScanInv, ScanTypes
<1>4. /\ w = WayIn(files[Held.file], Held, nChars, textPtr, condition)
      /\ Base = Held.read - nChars /\ Begin = textPtr
      /\ files[Held.file] = CurText /\ Held.file = Buf.file
  BY <1>1, HeldWay
<1>5. /\ textPtr < cBufP /\ cBufP = nChars /\ Buf.read = Len(CurText)
      /\ Accepts(w[Base + cBufP + 1]) = 0
      /\ Knows(w, Base, textPtr, cBufP, m)
  BY <1>1 DEF ScanInv, TokenInv, FoundNothing
<1>6. /\ CurText \in Seq(Characters) /\ Base \in Nat /\ Base + nChars = Buf.read
      /\ Len(CurText) \in Nat
  BY CurrentIs
<1>7. IsTokenWay(w, CurText, Base, textPtr)
  BY <1>2, <1>3, <1>4, WayInIs
<1> HIDE DEF w, m
<1>8. /\ Base + textPtr < Len(CurText) /\ textPtr <= cBufP /\ Base + cBufP <= Len(CurText) + 1
      /\ \A j \in Base + cBufP + 1 .. Len(CurText) + 1 : j = Base + cBufP + 1
  BY <1>3, <1>5, <1>6
<1>9. \A j \in Base + cBufP + 1 .. Len(CurText) + 1 : Accepts(w[j]) = 0
  BY <1>5, <1>8
<1>10. PICK k \in textPtr + 1 .. cBufP - 1 : Ends(w, CurText, Base, k) /\ m = <<w[Base + k + 1], k>>
  BY <1>3, <1>5, <1>6, <1>7, <1>8, <1>9, KnownEnds
<1>11. k \in textPtr + 1 .. nChars /\ m[1] = w[Base + k + 1] /\ m[2] = k
  BY <1>3, <1>5, <1>10
<1>12. Found(files[Held.file], Held, nChars, textPtr, w, m[2], m[1], m)
  BY <1>4, <1>10, <1>11 DEF Found
<1>13. /\ ScanInv' /\ Buf'.file = Held.file /\ Base' + Begin' = Held.read - nChars + textPtr
       /\ OthersStay
  BY <1>1, <1>2, <1>3, <1>4, <1>12, FindActionKeeps DEF m
<1> QED
  BY <1>4, <1>13 DEF SamePlace

-----------------------------------------------------------------------------
(* The end of the buffer.                                                  *)

LEMMA AtEndIs ==
  ASSUME ScanInv, FoundEnd
  PROVE  /\ Ready(files, AtEnd, nChars, textPtr) /\ BufferOK(AtEnd) /\ AtEnd.ch = Chars
         /\ AtEnd.size = Buf.size /\ AtEnd.n = Buf.n /\ AtEnd.pos = Buf.pos
         /\ AtEnd.bol = Buf.bol /\ AtEnd.line = Buf.line /\ AtEnd.fill = Buf.fill
         /\ AtEnd.status = (IF Buf.status = "NEW" THEN "NORMAL" ELSE Buf.status)
         /\ AtEnd.file = Buf.file /\ AtEnd.read = Buf.read
         /\ CharsAtEnd = nChars
         /\ TokenWay = WayIn(files[AtEnd.file], AtEnd, nChars, textPtr, condition)
         /\ files[AtEnd.file] = CurText
<1>1. pc = "act" /\ ~AtRule
  BY DEF FoundEnd, AtRule
<1>2. Ready(files, Held, nChars, textPtr)
  BY <1>1, TokenIsReady
<1>3. /\ Held.ch = Chars /\ Held.size = Buf.size /\ Held.n = Buf.n /\ Held.pos = Buf.pos
      /\ Held.bol = Buf.bol /\ Held.line = Buf.line /\ Held.fill = Buf.fill
      /\ Held.status = Buf.status /\ Held.file = Buf.file /\ Held.read = Buf.read
  BY <1>1, HeldIs
<1>4. BufferOK(Held) /\ Held \in Buffers
  BY <1>2 DEF Ready, Current, BufferOK
<1>5. AtEnd = [Held EXCEPT !.status = IF Buf.status = "NEW" THEN "NORMAL" ELSE Buf.status]
  <2>1. Buf \in Buffers
    BY CurrentIs
  <2> QED
    BY <2>1 DEF AtEnd, Held, Buffers
<1>6. /\ AtEnd.ch = Held.ch /\ AtEnd.size = Held.size /\ AtEnd.n = Held.n /\ AtEnd.pos = Held.pos
      /\ AtEnd.bol = Held.bol /\ AtEnd.line = Held.line /\ AtEnd.fill = Held.fill
      /\ AtEnd.status = (IF Buf.status = "NEW" THEN "NORMAL" ELSE Buf.status)
      /\ AtEnd.file = Held.file /\ AtEnd.read = Held.read
      /\ AtEnd \in Buffers
  BY <1>3, <1>4, <1>5 DEF Buffers
<1>7. BufferOK(AtEnd)
  BY <1>4, <1>6 DEF BufferOK
<1>8. Ready(files, AtEnd, nChars, textPtr)
  BY <1>2, <1>3, <1>6, <1>7 DEF Ready, Current, HoldsText
<1>9. CharsAtEnd = nChars
  BY DEF ScanInv, CurrentInv, Current, CharsAtEnd
<1>10. files[AtEnd.file] = CurText
  BY <1>3, <1>6 DEF CurText
<1>11. TokenWay = WayIn(files[AtEnd.file], AtEnd, nChars, textPtr, condition)
  BY <1>3, <1>6, CurrentIs DEF TokenWay, WayIn, CurText
<1> QED
  BY <1>3, <1>6, <1>7, <1>8, <1>9, <1>10, <1>11

(* The token goes on from position i.                                      *)
LEMMA MatchingKeeps ==
  ASSUME ScanTypes, WaitingInv,
         NEW b, NEW n, NEW first, NEW i \in first .. n,
         Ready(files, b, n, first), bufs' = SetBuf(b), Unread,
         textPtr' = first, cBufP' = i, nChars' = n, pc' = "match", holdChar' \in Characters,
         NEW w, w = WayIn(files[b.file], b, n, first, condition),
         state' = w[b.read - n + i + 1], state' # JAM,
         Knows(w, b.read - n, first, i, lastAccepting')
  PROVE  /\ ScanInv' /\ Buf'.file = b.file /\ Base' + Begin' = b.read - n + first
         /\ OthersStay
<1>1. /\ Current(files, b, b.ch, n) /\ first \in 0 .. n /\ BufferOK(b) /\ b \in Buffers
      /\ b.line = LineAt(files[b.file], b.read - n + first)
      /\ b.bol = LineStart(files[b.file], b.read - n + first)
  BY DEF Ready, Current, BufferOK
<1>2. /\ bufs' \in Seq(Buffers) /\ Len(bufs') = Len(bufs) /\ Buf' = b
      /\ bufs'[Len(bufs)] = b
      /\ \A k \in 1 .. Len(bufs) - 1 : bufs'[k] = bufs[k]
  BY <1>1, SetBufIs DEF ScanTypes
<1>3. files' = files /\ lists' = lists /\ condition' = condition
  BY DEF Unread
<1>4. /\ n \in Nat /\ first \in Nat /\ i \in Nat /\ b.read - n \in Nat
  <2>1. n \in Nat /\ b.read - n \in Nat
    BY WayInIs DEF ScanTypes
  <2> QED
    BY <1>1, <2>1
<1>5. Chars' = b.ch
  BY <1>2 DEF Chars, Restored
<1>6. CurText' = files[b.file] /\ Base' = b.read - n /\ Begin' = first /\ Counted' = first
  BY <1>2, <1>3 DEF CurText, Base, Begin, Counted, AtRule
<1>7. TokenWay' = w
  BY <1>2, <1>3, <1>6 DEF TokenWay, WayIn
<1>8. ScanTypes'
  BY <1>2, <1>3, <1>4 DEF ScanTypes
<1>9. WaitingInv'
  BY <1>2, <1>3, WaitingStays
<1>10. CurrentInv'
  BY <1>1, <1>2, <1>3, <1>5 DEF CurrentInv
<1>11. PlaceInv'
  <2>1. textPtr' <= cBufP' /\ Begin' \in 0 .. nChars'
    BY <1>1, <1>4, <1>6
  <2> QED
    BY <1>1, <1>2, <1>6, <2>1 DEF PlaceInv
<1>12. TokenInv'
  <2>1. Matching'
    BY <1>4, <1>6, <1>7 DEF Matching
  <2> QED
    BY <2>1 DEF TokenInv, AtRule
<1> QED
  BY <1>2, <1>6, <1>8, <1>9, <1>10, <1>11, <1>12 DEF ScanInv, OthersStay

(* The end of the text, with nothing of it left.                           *)
LEMMA EndOfFileKeeps ==
  ASSUME ScanTypes, WaitingInv,
         NEW b, NEW n, Current(files, b, b.ch, n), b.read = Len(files[b.file]),
         b.line = LineAt(files[b.file], b.read),
         bufs' = SetBuf(b), Unread,
         textPtr' = n, cBufP' = n, nChars' = n, pc' = "eof", holdChar' = EOB
  PROVE  /\ ScanInv' /\ Buf'.file = b.file /\ Base' + Begin' = b.read
         /\ OthersStay
<1>1. /\ Current(files, b, b.ch, n) /\ BufferOK(b) /\ b \in Buffers
      /\ b.line = LineAt(files[b.file], b.read)
  BY DEF Current, BufferOK
<1>2. /\ bufs' \in Seq(Buffers) /\ Len(bufs') = Len(bufs) /\ Buf' = b
      /\ bufs'[Len(bufs)] = b
      /\ \A k \in 1 .. Len(bufs) - 1 : bufs'[k] = bufs[k]
  BY <1>1, SetBufIs DEF ScanTypes
<1>3. files' = files /\ lists' = lists /\ condition' = condition
  BY DEF Unread
<1>4. n \in Nat /\ b.read - n \in Nat /\ b.read - n + n = b.read /\ b.ch[n] = EOB
  <2>1. n \in Nat
    BY <1>1 DEF Current, HoldsText, Buffers
  <2> QED
    BY <1>1, <2>1 DEF Current, HoldsText, Buffers
<1>5. Chars' = b.ch
  BY <1>2 DEF Chars, Restored
<1>6. CurText' = files[b.file] /\ Base' = b.read - n /\ Begin' = n /\ Counted' = n
  BY <1>2, <1>3 DEF CurText, Base, Begin, Counted, AtRule
<1>7. ScanTypes'
  BY <1>2, <1>3, <1>4 DEF ScanTypes, Characters, EOB
<1>8. WaitingInv'
  BY <1>2, <1>3, WaitingStays
<1>9. CurrentInv'
  BY <1>1, <1>2, <1>3, <1>5 DEF CurrentInv
<1>10. PlaceInv'
  <2>1. textPtr' <= cBufP' /\ Begin' \in 0 .. nChars'
    BY <1>1, <1>4, <1>6
  <2> QED
    BY <1>1, <1>2, <1>6, <2>1 DEF PlaceInv
<1>11. TokenInv'
  <2>1. AtEndOfFile'
    BY <1>2, <1>4, <1>6 DEF AtEndOfFile
  <2> QED
    BY <2>1 DEF TokenInv, AtRule
<1> QED
  BY <1>2, <1>4, <1>6, <1>7, <1>8, <1>9, <1>10, <1>11 DEF ScanInv, OthersStay

(* The end of the text, with a part of a token left.                       *)
LEMMA LastMatchKeeps ==
  ASSUME ScanTypes, WaitingInv,
         NEW b, NEW n, NEW first, Ready(files, b, n, first), first < n,
         b.read = Len(files[b.file]),
         LastMatch(b, n, first), Unread
  PROVE  /\ ScanInv' /\ Buf'.file = b.file /\ Base' + Begin' = b.read - n + first
         /\ OthersStay
<1> DEFINE text == files[b.file]
           base == b.read - n
           w == WayIn(text, b, n, first, condition)
           m == PreviousState(b.ch, StartOf(condition, b.bol), first, n, lastAccepting)
           ch == b.ch
           size == b.size
<1>1. lastAccepting' = m[2] /\ nChars' = n /\ FindAction(b, m[1], n, first)
  BY Zenon DEF LastMatch
<1>2. files \in Disks /\ condition \in ToSet(StartConditions)
  BY DEF ScanTypes
<1>3. /\ text \in Seq(Characters) /\ IsPart(ch, size, n, text, base) /\ Len(text) \in Nat
      /\ base \in Nat /\ n \in Nat /\ base + n = b.read /\ first \in 0 .. n
      /\ IsTokenWay(w, text, base, first) /\ w[base + first + 1] = StartOf(condition, b.bol)
  BY <1>2, WayInIs
<1>4. /\ base + n = Len(text) /\ n \in first .. n
      /\ m = PreviousState(ch, StartOf(condition, b.bol), first, n, lastAccepting)
  BY <1>3
<1>7. Found(text, b, n, first, w, n, m[1], m[2]) =
        (\/ m[1] = EndState /\ n \in first + 1 .. n + 1 /\ ch[n - 1] = EOB /\ w[base + n] # JAM
         \/ n \in first + 1 .. n /\ Ends(w, text, base, n) /\ m[1] = w[base + n + 1]
         \/ /\ n = n /\ first < n /\ b.read = Len(text)
            /\ m[1] = w[base + n + 1] /\ Accepts(m[1]) = 0
            /\ Knows(w, base, first, n, m[2]))
  BY DEF Found
<1>8. b.read = Len(text)
  OBVIOUS
<1> HIDE DEF text, base, w, m, ch, size
<1>5. m[1] = w[base + n + 1] /\ Knows(w, base, first, n, m[2])
  <2>1. LET before == PreviousState(ch, w[base + first + 1], first, n, lastAccepting)
        IN before[1] = w[base + n + 1] /\ Knows(w, base, first, n, before[2])
    BY <1>3, <1>4, PreviousIs
  <2> QED
    BY <1>3, <1>4, <2>1, Zenon
<1>6. Found(text, b, n, first, w, n, m[1], m[2])
  <2>1. CASE Accepts(w[base + n + 1]) = 0
    BY <1>5, <1>7, <1>8, <2>1
  <2>2. CASE Accepts(w[base + n + 1]) # 0
    <3>1. DOMAIN w = base + first + 1 .. Len(text) + 1
      BY <1>3 DEF IsTokenWay, Walks
    <3>2. Ends(w, text, base, n)
      BY <1>3, <1>4, <2>2, <3>1 DEF Ends, LastOf
    <3>3. n \in first + 1 .. n
      BY <1>3
    <3> QED
      BY <1>5, <1>7, <3>2, <3>3
  <2> QED
    BY <2>1, <2>2
<1> QED
  BY <1>1, <1>6, FindActionKeeps DEF text, w

(* Where the end was found there is a token at work.                       *)
LEMMA EndIsFound ==
  ASSUME ScanInv, FoundEnd
  PROVE  /\ cBufP \in textPtr + 1 .. nChars + 1 /\ textPtr \in 0 .. nChars
         /\ Chars[cBufP - 1] = EOB /\ TokenWay[Base + cBufP] # JAM
         /\ IsPart(Chars, Buf.size, nChars, CurText, Base)
         /\ IsTokenWay(TokenWay, CurText, Base, textPtr)
         /\ TokenWay[Base + textPtr + 1] = StartOf(condition, Buf.bol)
         /\ cBufP \in Nat /\ textPtr \in Nat /\ nChars \in Nat /\ nChars <= Buf.size /\ Buf.size \in Nat
<1>1. FoundTheEnd /\ Begin = textPtr
  BY EndAssumption DEF ScanInv, TokenInv, FoundEnd, Begin
<1>2. /\ files \in Disks /\ condition \in ToSet(StartConditions)
      /\ cBufP \in Nat /\ textPtr \in Nat /\ nChars \in Nat
  BY DEF ScanInv, ScanTypes
<1>3. /\ Ready(files, AtEnd, nChars, textPtr) /\ AtEnd.ch = Chars /\ AtEnd.size = Buf.size
      /\ AtEnd.read = Buf.read /\ AtEnd.bol = Buf.bol
      /\ TokenWay = WayIn(files[AtEnd.file], AtEnd, nChars, textPtr, condition)
      /\ files[AtEnd.file] = CurText
  BY AtEndIs
<1>4. Base = Buf.read - nChars
  BY CurrentIs
<1>5. /\ IsPart(AtEnd.ch, AtEnd.size, nChars, CurText, Base)
      /\ IsTokenWay(TokenWay, CurText, Base, textPtr)
      /\ TokenWay[Base + textPtr + 1] = StartOf(condition, Buf.bol)
      /\ textPtr \in 0 .. nChars
  <2> DEFINE w == WayIn(files[AtEnd.file], AtEnd, nChars, textPtr, condition)
  <2>1. /\ IsPart(AtEnd.ch, AtEnd.size, nChars, files[AtEnd.file], AtEnd.read - nChars)
        /\ IsTokenWay(w, files[AtEnd.file], AtEnd.read - nChars, textPtr)
        /\ w[AtEnd.read - nChars + textPtr + 1] = StartOf(condition, AtEnd.bol)
        /\ textPtr \in 0 .. nChars
    BY <1>2, <1>3, WayInIs
  <2> HIDE DEF w
  <2>2. TokenWay = w
    BY <1>3 DEF w
  <2> QED
    BY <1>3, <1>4, <2>1, <2>2
<1> QED
  BY <1>1, <1>2, <1>3, <1>5 DEF FoundTheEnd, IsPart

LEMMA NulInTextKeeps ==
  ASSUME ScanInv, NulInText
  PROVE  ScanInv' /\ SamePlace
<1> DEFINE w == TokenWay
           end == cBufP - 1
           before == PreviousState(AtEnd.ch, StartOf(condition, Buf.bol), textPtr, end, lastAccepting)
           known == IF Accepts(before[1]) # 0 THEN <<before[1], end>> ELSE before[2]
           next == NextState[before[1]][ClassOf(0)]
<1>1. /\ FoundEnd /\ cBufP <= CharsAtEnd /\ nChars' = CharsAtEnd /\ Unread
      /\ lastAccepting' = known
      /\ IF next # JAM
         THEN /\ state' = next /\ cBufP' = end + 1 /\ pc' = "match"
              /\ bufs' = SetBuf(AtEnd) /\ textPtr' = textPtr /\ holdChar' = holdChar
         ELSE FindAction(AtEnd, lastAccepting'[1], lastAccepting'[2], textPtr)
  BY Zenon DEF NulInText
<1>2. /\ Ready(files, AtEnd, nChars, textPtr) /\ AtEnd.ch = Chars /\ CharsAtEnd = nChars
      /\ AtEnd.file = Buf.file /\ AtEnd.read = Buf.read /\ AtEnd.bol = Buf.bol
      /\ w = WayIn(files[AtEnd.file], AtEnd, nChars, textPtr, condition)
      /\ files[AtEnd.file] = CurText
  BY <1>1, AtEndIs
<1>3. /\ ScanTypes /\ WaitingInv /\ holdChar \in Characters /\ files \in Disks
      /\ condition \in ToSet(StartConditions)
  BY DEF ScanInv, ScanTypes
<1>4. /\ cBufP \in textPtr + 1 .. nChars + 1 /\ textPtr \in 0 .. nChars
      /\ Chars[cBufP - 1] = EOB /\ w[Base + cBufP] # JAM
      /\ IsPart(Chars, Buf.size, nChars, CurText, Base)
      /\ IsTokenWay(w, CurText, Base, textPtr)
      /\ w[Base + textPtr + 1] = StartOf(condition, Buf.bol)
      /\ cBufP \in Nat /\ textPtr \in Nat /\ nChars \in Nat
  BY <1>1, EndIsFound
<1>5. /\ CurText \in Seq(Characters) /\ Base \in Nat /\ Base + nChars = Buf.read
      /\ Len(CurText) \in Nat /\ Base = Buf.read - nChars /\ Buf.read <= Len(CurText)
  BY CurrentIs
<1>6. Base' + Begin' = Buf.read - nChars + textPtr => Base' + Begin' = Base + Begin
  BY <1>1, <1>5 DEF Begin, FoundEnd
<1>7. before = PreviousState(Chars, w[Base + textPtr + 1], textPtr, end, lastAccepting)
  BY <1>2, <1>4
<1>14. /\ cBufP \in Nat /\ textPtr \in Nat /\ nChars \in Nat /\ textPtr < cBufP /\ cBufP <= nChars
       /\ textPtr <= nChars /\ Base \in Nat /\ Len(CurText) \in Nat /\ Base + nChars <= Len(CurText)
  <2>1. cBufP <= nChars /\ textPtr < cBufP
    BY <1>1, <1>2, <1>4
  <2>2. Base + nChars <= Len(CurText)
    BY <1>5
  <2> QED
    BY <1>4, <1>5, <2>1, <2>2
<1>8. /\ end \in textPtr .. nChars /\ end \in Nat /\ end \in 0 .. nChars - 1 /\ end + 1 = cBufP
      /\ Base + end + 1 = Base + cBufP /\ end = cBufP - 1
  BY <1>14
<1>15. /\ known = IF Accepts(before[1]) # 0 THEN <<before[1], end>> ELSE before[2]
       /\ next = NextState[before[1]][ClassOf(0)]
  BY Zenon
<1> HIDE DEF w, end, before, known, next
<1>9. before[1] = w[Base + end + 1] /\ Knows(w, Base, textPtr, end, before[2])
  <2>1. LET found == PreviousState(Chars, w[Base + textPtr + 1], textPtr, end, lastAccepting)
        IN found[1] = w[Base + end + 1] /\ Knows(w, Base, textPtr, end, found[2])
    <3>1. IsPart(Chars, Buf.size, nChars, CurText, Base) /\ CurText \in Seq(Characters)
      BY <1>4, <1>5
    <3> DEFINE ch == Chars
    <3> HIDE DEF ch
    <3>2. /\ IsPart(ch, Buf.size, nChars, CurText, Base) /\ textPtr \in 0 .. nChars
          /\ IsTokenWay(w, CurText, Base, textPtr) /\ end \in textPtr .. nChars
      BY <1>4, <1>8, <3>1 DEF ch
    <3>3. LET found == PreviousState(ch, w[Base + textPtr + 1], textPtr, end, lastAccepting)
          IN found[1] = w[Base + end + 1] /\ Knows(w, Base, textPtr, end, found[2])
      BY <3>1, <3>2, PreviousIs
    <3> QED
      BY <3>3 DEF ch
  <2> QED
    BY <1>7, <2>1, Zenon
<1>10. Knows(w, Base, textPtr, cBufP, known)
  <2>1. Knows(w, Base, textPtr, end + 1,
              IF Accepts(w[Base + end + 1]) # 0 THEN <<w[Base + end + 1], end>> ELSE before[2])
    <3>1. textPtr <= end
      BY <1>14 DEF end
    <3> QED
      BY <1>8, <1>9, <1>14, <3>1, KnowsMore
  <2> QED
    BY <1>8, <1>9, <1>15, <2>1, Zenon
<1>11. next = w[Base + cBufP + 1]
  <2>1. Chars[end] = CurText[Base + end + 1] /\ Chars[end] = 0
    BY <1>4, <1>8 DEF IsPart, EOB, end
  <2>2. /\ Base + cBufP + 1 \in (Base + textPtr + 1) + 1 .. Len(CurText) + 1
        /\ (Base + cBufP + 1) - 1 = Base + cBufP
    BY <1>14
  <2>3. w[Base + cBufP + 1] = Step("text", w[Base + cBufP], CurText[Base + cBufP])
    BY <1>4, <2>2 DEF IsTokenWay, Walks
  <2> QED
    BY <1>8, <1>9, <1>15, <2>1, <2>3 DEF Step
<1>12. CASE next # JAM
  <2>1. /\ state' = w[AtEnd.read - nChars + cBufP + 1] /\ cBufP' = cBufP /\ pc' = "match"
        /\ bufs' = SetBuf(AtEnd) /\ textPtr' = textPtr /\ holdChar' \in Characters
        /\ nChars' = nChars /\ state' # JAM
        /\ Knows(w, AtEnd.read - nChars, textPtr, cBufP, lastAccepting')
    BY <1>1, <1>2, <1>3, <1>5, <1>8, <1>10, <1>11, <1>12
  <2>2. cBufP \in textPtr .. nChars
    BY <1>14
  <2>3. /\ ScanInv' /\ Buf'.file = AtEnd.file /\ Base' + Begin' = AtEnd.read - nChars + textPtr
        /\ OthersStay
    BY <1>1, <1>2, <1>3, <2>1, <2>2, MatchingKeeps
  <2> QED
    BY <1>2, <1>6, <2>3 DEF SamePlace
<1>13. CASE next = JAM
  <2>1. /\ Base + textPtr + 1 \in Nat /\ Len(CurText) + 1 \in Nat
        /\ Base + cBufP + 1 \in Base + textPtr + 1 .. Len(CurText) + 1
        /\ \A q \in Base + cBufP + 1 .. (Len(CurText) + 1) - 1 : q \in 1 .. Len(CurText)
        /\ Base + textPtr < Len(CurText) /\ textPtr <= cBufP /\ Base + cBufP <= Len(CurText) + 1
    BY <1>14
  <2>2. AreCharacters(CurText, Base + cBufP + 1, (Len(CurText) + 1) - 1)
    BY <1>5, <2>1, ElementOfSeq DEF AreCharacters
  <2>3. w[Base + cBufP + 1] = JAM
    BY <1>11, <1>13
  <2>4. JammedFrom(w, Base + cBufP + 1, Len(CurText) + 1)
    BY <1>4, <2>1, <2>2, <2>3, StaysJammed DEF IsTokenWay
  <2>5. \A j \in Base + cBufP + 1 .. Len(CurText) + 1 : Accepts(w[j]) = 0
    BY <2>4, TablesAssumption DEF JammedFrom
  <2>6. PICK k \in textPtr + 1 .. cBufP - 1 :
          Ends(w, CurText, Base, k) /\ known = <<w[Base + k + 1], k>>
    <3>1. CurText \in Seq(Characters) /\ IsTokenWay(w, CurText, Base, textPtr)
      BY <1>4, <1>5
    <3>2. /\ Base \in Nat /\ textPtr \in Nat /\ cBufP \in Nat
          /\ Base + textPtr < Len(CurText) /\ textPtr <= cBufP /\ Base + cBufP <= Len(CurText) + 1
      BY <1>14
    <3> QED
      BY <1>10, <2>5, <3>1, <3>2, KnownEnds
  <2>7. k \in textPtr + 1 .. nChars /\ known[1] = w[Base + k + 1] /\ known[2] = k
    BY <1>14, <2>6
  <2>8. Found(files[AtEnd.file], AtEnd, nChars, textPtr, w, known[2], known[1], known)
    BY <1>2, <1>5, <2>6, <2>7 DEF Found
  <2>9. FindAction(AtEnd, known[1], known[2], textPtr) /\ nChars' = nChars
    BY <1>1, <1>2, <1>13
  <2>10. /\ ScanInv' /\ Buf'.file = AtEnd.file /\ Base' + Begin' = AtEnd.read - nChars + textPtr
         /\ OthersStay
    BY <1>1, <1>2, <1>3, <2>8, <2>9, FindActionKeeps
  <2> QED
    BY <1>2, <1>6, <2>10 DEF SamePlace
<1> QED
  BY <1>12, <1>13

LEMMA EndOfStringKeeps ==
  ASSUME ScanInv, EndOfString
  PROVE  ScanInv' /\ SamePlace
<1>1. /\ FoundEnd /\ cBufP > CharsAtEnd /\ ~Buf.fill /\ Unread
      /\ IF cBufP - textPtr = 1
         THEN EndOfFile(AtEnd, textPtr) /\ nChars' = CharsAtEnd /\ holdChar' = holdChar
         ELSE LastMatch(AtEnd, CharsAtEnd, textPtr)
  BY Zenon DEF EndOfString
<1>2. /\ Ready(files, AtEnd, nChars, textPtr) /\ AtEnd.ch = Chars /\ CharsAtEnd = nChars
      /\ AtEnd.file = Buf.file /\ AtEnd.read = Buf.read /\ AtEnd.fill = Buf.fill
      /\ files[AtEnd.file] = CurText
  BY <1>1, AtEndIs
<1>3. /\ ScanTypes /\ WaitingInv
  BY DEF ScanInv
<1>4. /\ cBufP \in textPtr + 1 .. nChars + 1 /\ cBufP \in Nat /\ textPtr \in Nat /\ nChars \in Nat
      /\ textPtr \in 0 .. nChars /\ nChars <= Buf.size /\ Buf.size \in Nat
  BY <1>1, EndIsFound
<1>5. /\ Base = Buf.read - nChars /\ Base \in Nat /\ Base + nChars = Buf.read /\ Begin = textPtr
      /\ Chars = Put(Buf.ch, cBufP, holdChar) /\ Buf \in Buffers /\ BufferOK(Buf)
      /\ HoldsText(CurText, Buf, Chars, nChars)
  BY <1>1, CurrentIs DEF Begin, FoundEnd
<1>6. cBufP = nChars + 1 /\ AtEnd.read = Len(files[AtEnd.file])
  BY <1>1, <1>2, <1>4, <1>5 DEF HoldsText
<1>7. CASE cBufP - textPtr = 1
  <2>1. /\ bufs' = SetBuf(AtEnd) /\ textPtr' = textPtr /\ cBufP' = textPtr /\ pc' = "eof"
        /\ nChars' = nChars /\ holdChar' = holdChar /\ textPtr = nChars
    BY <1>1, <1>2, <1>4, <1>6, <1>7 DEF EndOfFile
  <2>2. holdChar = EOB
    <3>1. Chars[cBufP] = EOB
      BY <1>5, <1>6 DEF HoldsText
    <3>2. Buf.ch \in [0 .. Buf.size + 1 -> Characters] /\ cBufP \in 0 .. Buf.size + 1
      BY <1>4, <1>5, <1>6 DEF BufferOK
    <3>3. Put(Buf.ch, cBufP, holdChar)[cBufP] = holdChar
      BY <3>2 DEF Put
    <3> QED
      BY <1>5, <3>1, <3>3
  <2>3. /\ ScanInv' /\ Buf'.file = AtEnd.file /\ Base' + Begin' = AtEnd.read /\ OthersStay
    <3>1. Current(files, AtEnd, AtEnd.ch, nChars)
      BY <1>2 DEF Ready
    <3>2. AtEnd.line = LineAt(files[AtEnd.file], AtEnd.read)
      <4>1. AtEnd.read - nChars + textPtr = AtEnd.read
        BY <1>2, <1>4, <1>5, <2>1
      <4> QED
        BY <1>2, <4>1 DEF Ready
    <3> QED
      BY <1>1, <1>3, <1>6, <2>1, <2>2, <3>1, <3>2, EndOfFileKeeps
  <2> QED
    BY <1>2, <1>5, <2>1, <2>3 DEF SamePlace
<1>8. CASE cBufP - textPtr # 1
  <2>1. LastMatch(AtEnd, nChars, textPtr) /\ textPtr < nChars
    BY <1>1, <1>2, <1>4, <1>6, <1>8
  <2>2. /\ ScanInv' /\ Buf'.file = AtEnd.file /\ Base' + Begin' = AtEnd.read - nChars + textPtr
        /\ OthersStay
    BY <1>1, <1>2, <1>3, <1>6, <2>1, LastMatchKeeps
  <2> QED
    BY <1>2, <1>5, <2>2 DEF SamePlace
<1> QED
  BY <1>7, <1>8

-----------------------------------------------------------------------------
(* The next portion of a file.                                             *)

Grows(f, k) == f = [x \in Nat \ {0} |-> IF x - k - 1 <= 0 THEN f[2 * x] ELSE x]

LEMMA GrowingEnds ==
  ASSUME NEW k \in Nat, NEW h, h = CHOOSE f : Grows(f, k)
  PROVE  \A x \in Nat \ {0} : h[x] \in Nat \ {0} /\ h[x] - k - 1 > 0
<1> DEFINE D == Nat \ {0}
           stop == {x \in D : x - k - 1 > 0}
           next == [x \in D \ stop |-> 2 * x]
           same == [x \in D |-> x]
           comb == [p \in D \X D |-> p[2]]
           m == [x \in D |-> IF x <= k + 1 THEN k + 2 - x ELSE 0]
<1>1. stop \in SUBSET D /\ next \in [D \ stop -> D] /\ m \in [D -> Nat]
  OBVIOUS
<1>2. ASSUME NEW x \in D \ stop PROVE m[next[x]] < m[x]
  <2>1. x <= k + 1 /\ next[x] = 2 * x /\ x \in D /\ 2 * x \in D
    OBVIOUS
  <2>2. m[x] = k + 2 - x /\ m[2 * x] = IF 2 * x <= k + 1 THEN k + 2 - 2 * x ELSE 0
    BY <2>1
  <2> HIDE DEF m, next
  <2> QED
    BY <2>1, <2>2
<1>3. Inductive(D, stop, next)
  <2> HIDE DEF D, stop, next, m
  <2> QED
    BY <1>1, <1>2, InductiveByMeasure
<1>4. (\A x \in stop : same[x] \in D) /\ \A x \in D \ stop, v \in D : comb[<<x, v>>] \in D
  OBVIOUS
<1>5. PICK w \in [D -> D] : Recurses(w, D, stop, next, same, comb)
  <2> HIDE DEF D, stop, next, same, comb
  <2> QED
    BY <1>1, <1>3, <1>4, RecursionExists, Zenon
<1>6. \A x \in D : w[x] = IF x \in stop THEN x ELSE w[2 * x]
  <2> SUFFICES ASSUME NEW x \in D PROVE w[x] = IF x \in stop THEN x ELSE w[2 * x]
    OBVIOUS
  <2>1. w = [y \in D |-> IF y \in stop THEN same[y] ELSE comb[<<y, w[next[y]]>>]]
    BY <1>5 DEF Recurses
  <2>2. w[x] = IF x \in stop THEN same[x] ELSE comb[<<x, w[next[x]]>>]
    <3> HIDE DEF stop, same, comb, next, D
    <3> QED
      BY <2>1, Zenon
  <2>3. CASE x \in stop
    BY <2>2, <2>3
  <2>4. CASE x \notin stop
    <3>1. next[x] = 2 * x /\ w[2 * x] \in D
      BY <2>4
    <3>2. comb[<<x, w[2 * x]>>] = w[2 * x]
      BY <3>1
    <3> QED
      BY <2>2, <2>4, <3>1, <3>2
  <2> QED
    BY <2>3, <2>4
<1>7. Grows(w, k)
  <2>1. \A x \in D : w[x] = IF x - k - 1 <= 0 THEN w[2 * x] ELSE x
    BY <1>6
  <2> QED
    BY <2>1 DEF Grows
<1>8. Grows(h, k)
  BY <1>7, Zenon
<1>9. \A x \in D : h[x] = IF x \in stop THEN x ELSE h[2 * x]
  <2>1. \A x \in D : h[x] = IF x - k - 1 <= 0 THEN h[2 * x] ELSE x
    BY <1>8, Zenon DEF Grows
  <2> QED
    BY <2>1
<1> DEFINE T == {x \in D : h[x] \in D /\ h[x] - k - 1 > 0}
<1>10. T \in SUBSET D /\ stop \subseteq T
  BY <1>9
<1>11. \A x \in D \ stop : next[x] \in T => x \in T
  BY <1>9
<1>12. T = D
  <2> HIDE DEF T, D, stop, next
  <2> QED
    BY <1>3, <1>10, <1>11 DEF Inductive
<1> QED
  BY <1>12

Refills == {"NORMAL", "EOF_PENDING"}
(* The buffer b with the text in memory of another size.                   *)
Refilled(b, size, m, e, text, status) ==
  [b EXCEPT !.size = size, !.n = m, !.read = e, !.ch = Filled(b, size, text), !.status = status]

LEMMA FilledIs ==
  ASSUME NEW b, BufferOK(b), NEW size \in Nat, NEW text \in Seq(Characters), Len(text) <= size,
         NEW c, c = Filled(b, size, text)
  PROVE  /\ c \in [0 .. size + 1 -> Characters] /\ c[Len(text)] = EOB /\ c[Len(text) + 1] = EOB
         /\ \A p \in 0 .. Len(text) - 1 : c[p] = text[p + 1]
<1>1. /\ b.ch \in [0 .. b.size + 1 -> Characters] /\ b.size \in Nat
      /\ Len(text) \in Nat /\ \A p \in 1 .. Len(text) : text[p] \in Characters
  BY LenProperties, ElementOfSeq DEF BufferOK, Buffers
<1>2. \A i \in 0 .. b.size + 1 : b.ch[i] \in Characters
  BY <1>1
<1>3. c = [i \in 0 .. size + 1 |->
             IF i < Len(text) THEN text[i + 1]
             ELSE IF i <= Len(text) + 1 THEN EOB
             ELSE IF i \in DOMAIN b.ch THEN b.ch[i] ELSE Garbage]
  BY DEF Filled
<1>4. DOMAIN b.ch = 0 .. b.size + 1 /\ EOB \in Characters
  BY <1>1 DEF EOB, Characters
<1>5. ASSUME NEW i \in 0 .. size + 1
      PROVE  (IF i < Len(text) THEN text[i + 1]
              ELSE IF i <= Len(text) + 1 THEN EOB
              ELSE IF i \in DOMAIN b.ch THEN b.ch[i] ELSE Garbage) \in Characters
  <2>1. i < Len(text) => i + 1 \in 1 .. Len(text)
    BY <1>1
  <2> QED
    BY <1>1, <1>2, <1>4, <2>1, GarbageAssumption
<1>6. c \in [0 .. size + 1 -> Characters]
  BY <1>3, <1>5
<1>7. Len(text) \in 0 .. size + 1 /\ Len(text) + 1 \in 0 .. size + 1
  BY <1>1
<1>8. c[Len(text)] = EOB /\ c[Len(text) + 1] = EOB
  <2>1. ~(Len(text) < Len(text)) /\ Len(text) <= Len(text) + 1 /\ ~(Len(text) + 1 < Len(text))
    BY <1>1
  <2> QED
    BY <1>3, <1>7, <2>1
<1>9. \A p \in 0 .. Len(text) - 1 : c[p] = text[p + 1]
  <2>1. \A p \in 0 .. Len(text) - 1 : p \in 0 .. size + 1 /\ p < Len(text)
    BY <1>1
  <2> QED
    BY <1>3, <2>1
<1> QED
  BY <1>6, <1>8, <1>9

Refillable(size, m, e, text, status) ==
  /\ size \in Nat /\ size > 0 /\ m \in Nat /\ e \in Nat
  /\ text \in Seq(Characters) /\ Len(text) <= size /\ status \in Refills

LEMMA RefilledIs ==
  ASSUME NEW b, BufferOK(b), NEW size, NEW m, NEW e, NEW text, NEW status,
         Refillable(size, m, e, text, status),
         NEW new, new = Refilled(b, size, m, e, text, status)
  PROVE  /\ BufferOK(new) /\ new.ch = Filled(b, size, text) /\ new.size = size /\ new.n = m
         /\ new.pos = b.pos /\ new.bol = b.bol /\ new.line = b.line /\ new.fill = b.fill
         /\ new.status = status /\ new.file = b.file /\ new.read = e
<1>1. /\ b \in Buffers
      /\ size \in Nat /\ size > 0 /\ m \in Nat /\ e \in Nat
      /\ text \in Seq(Characters) /\ Len(text) <= size /\ status \in Refills
  BY DEF BufferOK, Refillable
<1> DEFINE c == Filled(b, size, text)
<1>2. c \in [0 .. size + 1 -> Characters]
  BY <1>1, FilledIs
<1>3. new = [b EXCEPT !.size = size, !.n = m, !.read = e, !.ch = c, !.status = status]
  BY DEF Refilled
<1> HIDE DEF c
<1>4. /\ new.ch = c /\ new.size = size /\ new.n = m
      /\ new.pos = b.pos /\ new.bol = b.bol /\ new.line = b.line /\ new.fill = b.fill
      /\ new.status = status /\ new.file = b.file /\ new.read = e
  BY <1>1, <1>3 DEF Buffers
<1>5. c \in UNION {[0 .. k + 1 -> Characters] : k \in Nat}
  BY <1>1, <1>2
<1>6. new \in Buffers
  BY <1>1, <1>3, <1>5 DEF Buffers, Refills
<1>7. BufferOK(new)
  BY <1>1, <1>2, <1>4, <1>6 DEF BufferOK
<1> QED
  BY <1>4, <1>7 DEF c

(* The characters of a text behind the first u up to the character e.      *)
PartOf(text, u, e) == SubSeq(text, u + 1, e)

(* A buffer that is filled anew with the text from behind the first u      *)
(* characters to the character e.                                          *)
LEMMA RefillHolds ==
  ASSUME NEW cur \in Seq(Characters), NEW old, BufferOK(old),
         NEW size, NEW m, NEW e, NEW text, NEW status, Refillable(size, m, e, text, status),
         NEW u \in Nat, u <= e, e <= Len(cur), text = PartOf(cur, u, e),
         ~old.fill \/ status = "EOF_PENDING" => e = Len(cur),
         NEW b, b = Refilled(old, size, m, e, text, status)
  PROVE  /\ BufferOK(b) /\ HoldsText(cur, b, b.ch, Len(text))
         /\ Len(text) \in Nat /\ Len(text) = e - u /\ b.read - Len(text) = u
         /\ b.size = size /\ b.n = m /\ b.pos = old.pos /\ b.bol = old.bol /\ b.line = old.line
         /\ b.fill = old.fill /\ b.status = status /\ b.file = old.file /\ b.read = e
<1>1. Len(cur) \in Nat /\ (\A p \in 1 .. Len(cur) : cur[p] \in Characters) /\ e \in Nat
  BY LenProperties, ElementOfSeq DEF Refillable
<1>2. /\ text \in Seq(Characters) /\ Len(text) = e - u /\ Len(text) \in Nat
      /\ \A p \in 0 .. Len(text) - 1 : text[p + 1] = cur[u + p + 1]
  <2>1. /\ u + 1 \in Int /\ e \in Int /\ u + 1 <= e + 1
        /\ \A p \in u + 1 .. e : cur[p] \in Characters
    BY <1>1
  <2>2. /\ text \in Seq(Characters) /\ Len(text) = e - (u + 1) + 1
        /\ \A p \in 1 .. e - (u + 1) + 1 : text[p] = cur[u + 1 + p - 1]
    BY <2>1, SubSeqProperties DEF PartOf
  <2>3. e - (u + 1) + 1 = e - u /\ e - u \in Nat
    BY <1>1
  <2>4. \A p \in 0 .. e - u - 1 : p + 1 \in 1 .. e - u /\ u + 1 + (p + 1) - 1 = u + p + 1
    BY <1>1
  <2> QED
    BY <2>2, <2>3, <2>4
<1>7. text \in Seq(Characters) /\ Len(text) <= size /\ Len(text) \in Nat /\ size \in Nat
  BY <1>2 DEF Refillable
<1>3. /\ BufferOK(b) /\ b.ch = Filled(old, size, text) /\ b.size = size /\ b.n = m
      /\ b.pos = old.pos /\ b.bol = old.bol /\ b.line = old.line /\ b.fill = old.fill
      /\ b.status = status /\ b.file = old.file /\ b.read = e
  BY RefilledIs
<1>4. /\ b.ch \in [0 .. size + 1 -> Characters] /\ b.ch[Len(text)] = EOB /\ b.ch[Len(text) + 1] = EOB
      /\ \A p \in 0 .. Len(text) - 1 : b.ch[p] = text[p + 1]
  <2> DEFINE c == b.ch
  <2>1. c = Filled(old, size, text)
    BY <1>3
  <2> HIDE DEF c
  <2>2. /\ c \in [0 .. size + 1 -> Characters] /\ c[Len(text)] = EOB /\ c[Len(text) + 1] = EOB
        /\ \A p \in 0 .. Len(text) - 1 : c[p] = text[p + 1]
    BY <1>7, <2>1, FilledIs
  <2> QED
    BY <2>2 DEF c
<1>5. b.read - Len(text) = u
  BY <1>1, <1>2, <1>3
<1>6. HoldsText(cur, b, b.ch, Len(text))
  <2>1. Len(text) \in 0 .. b.size /\ b.read \in Len(text) .. Len(cur)
    BY <1>1, <1>2, <1>3, <1>7
  <2>2. \A p \in 0 .. Len(text) - 1 : b.ch[p] = cur[b.read - Len(text) + p + 1]
    BY <1>2, <1>4, <1>5
  <2>3. ~b.fill \/ b.status = "EOF_PENDING" => b.read = Len(cur)
    BY <1>3
  <2> QED
    BY <1>3, <1>4, <2>1, <2>2, <2>3 DEF HoldsText
<1> QED
  BY <1>2, <1>3, <1>5, <1>6

(* The current buffer filled anew, with what it has of its token.          *)
IsRefill(b, size, m, e, text, status) ==
  /\ Refillable(size, m, e, text, status)
  /\ Buf.read <= e /\ e <= Len(CurText) /\ text = PartOf(CurText, Base + textPtr, e)
  /\ ~Buf.fill \/ status = "EOF_PENDING" => e = Len(CurText)
  /\ b = Refilled(AtEnd, size, m, e, text, status)

(* Then it is ready for the rest of its token.                             *)
LEMMA RefillIsReady ==
  ASSUME ScanInv, FoundEnd, NEW size, NEW m, NEW e, NEW text, NEW status, NEW b,
         IsRefill(b, size, m, e, text, status)
  PROVE  /\ Ready(files, b, Len(text), 0) /\ b.read = e /\ Len(text) \in Nat
         /\ Len(text) = e - (Base + textPtr) /\ b.read - Len(text) = Base + textPtr
         /\ b.file = Buf.file /\ b.bol = Buf.bol /\ b.size = size /\ b.status = status
         /\ b.line = Buf.line /\ b.fill = Buf.fill /\ BufferOK(b)
         /\ WayIn(files[b.file], b, Len(text), 0, condition) = TokenWay
<1> DEFINE u == Base + textPtr
           old == AtEnd
           cur == CurText
<1>0. /\ Refillable(size, m, e, text, status)
      /\ Buf.read <= e /\ e <= Len(CurText) /\ text = PartOf(CurText, Base + textPtr, e)
      /\ ~Buf.fill \/ status = "EOF_PENDING" => e = Len(CurText)
      /\ b = Refilled(AtEnd, size, m, e, text, status)
  BY DEF IsRefill
<1>1. /\ Ready(files, AtEnd, nChars, textPtr) /\ BufferOK(old)
      /\ old.bol = Buf.bol /\ old.line = Buf.line /\ old.fill = Buf.fill
      /\ old.file = Buf.file /\ AtEnd.read = Buf.read
      /\ files[old.file] = cur
  BY AtEndIs
<1>2. /\ cur \in Seq(Characters) /\ Base \in Nat /\ Base + nChars = Buf.read
      /\ Len(cur) \in Nat /\ Base = Buf.read - nChars
  BY CurrentIs
<1>3. textPtr \in Nat /\ nChars \in Nat /\ textPtr <= nChars
  BY EndIsFound
<1>4. u \in Nat /\ u <= e /\ e <= Len(cur) /\ u = Buf.read - nChars + textPtr
  <2>1. e \in Nat
    BY <1>0 DEF Refillable
  <2> QED
    BY <1>0, <1>2, <1>3, <2>1
<1>5. /\ text = PartOf(cur, u, e) /\ b = Refilled(old, size, m, e, text, status)
      /\ (~old.fill \/ status = "EOF_PENDING" => e = Len(cur))
      /\ Refillable(size, m, e, text, status)
  BY <1>0, <1>1
<1>6. /\ old.file \in DOMAIN files
      /\ old.line = LineAt(cur, u) /\ old.bol = LineStart(cur, u)
  BY <1>1, <1>4 DEF Ready, Current
<1> HIDE DEF u, old, cur
<1>7. /\ BufferOK(b) /\ HoldsText(cur, b, b.ch, Len(text))
      /\ Len(text) \in Nat /\ Len(text) = e - u /\ b.read - Len(text) = u
      /\ b.size = size /\ b.bol = old.bol /\ b.line = old.line
      /\ b.fill = old.fill /\ b.status = status /\ b.file = old.file /\ b.read = e
  <2>1. BufferOK(old) /\ cur \in Seq(Characters) /\ u \in Nat /\ u <= e /\ e <= Len(cur)
    BY <1>1, <1>2, <1>4
  <2> QED
    BY <1>5, <2>1, RefillHolds
<1>8. b.read - Len(text) + 0 = u /\ 0 \in 0 .. Len(text)
  <2>1. b.read - Len(text) = u /\ Len(text) \in Nat /\ u \in Nat
    BY <1>4, <1>7
  <2> HIDE <1>7
  <2> QED
    BY <2>1
<1>9. Ready(files, b, Len(text), 0)
  <2>1. /\ BufferOK(b) /\ HoldsText(cur, b, b.ch, Len(text)) /\ b.line = old.line /\ b.bol = old.bol
        /\ b.file = old.file /\ b.status # "NEW"
    BY <1>5, <1>7 DEF Refillable, Refills
  <2>2. Current(files, b, b.ch, Len(text))
    BY <1>1, <1>6, <2>1 DEF Current
  <2> HIDE <1>7
  <2> QED
    BY <1>1, <1>6, <1>8, <2>1, <2>2 DEF Ready
<1>10. WayIn(files[b.file], b, Len(text), 0, condition) = TokenWay
  BY <1>1, <1>7, <1>8 DEF WayIn, TokenWay, u, cur
<1> QED
  BY <1>1, <1>7, <1>9, <1>10 DEF u

(* Parts of a text.                                                        *)
LEMMA PartOfIs ==
  ASSUME NEW text \in Seq(Characters), NEW u \in Nat, NEW e \in Nat, u <= e, e <= Len(text)
  PROVE  /\ PartOf(text, u, e) \in Seq(Characters) /\ Len(PartOf(text, u, e)) = e - u
         /\ \A j \in 1 .. e - u : PartOf(text, u, e)[j] = text[u + j]
<1> DEFINE part == PartOf(text, u, e)
<1>1. Len(text) \in Nat /\ \A j \in 1 .. Len(text) : text[j] \in Characters
  BY LenProperties, ElementOfSeq
<1>2. u + 1 \in Int /\ e \in Int /\ u + 1 <= e + 1 /\ \A j \in u + 1 .. e : text[j] \in Characters
  BY <1>1
<1>3. /\ part \in Seq(Characters) /\ Len(part) = e - (u + 1) + 1
      /\ \A j \in 1 .. e - (u + 1) + 1 : part[j] = text[u + 1 + j - 1]
  BY <1>2, SubSeqProperties DEF PartOf
<1> HIDE DEF part
<1>4. e - (u + 1) + 1 = e - u /\ \A j \in 1 .. e - u : u + 1 + j - 1 = u + j
  OBVIOUS
<1>5. \A j \in 1 .. e - u : part[j] = text[u + j]
  BY <1>3, <1>4
<1>6. part \in Seq(Characters) /\ Len(part) = e - u
  BY <1>3, <1>4
<1> QED
  BY <1>5, <1>6 DEF part

LEMMA PartsJoin ==
  ASSUME NEW text \in Seq(Characters), NEW u \in Nat, NEW r \in Nat, NEW e \in Nat,
         u <= r, r <= e, e <= Len(text)
  PROVE  PartOf(text, u, r) \o PartOf(text, r, e) = PartOf(text, u, e)
<1> DEFINE a == PartOf(text, u, r)
           b == PartOf(text, r, e)
           c == PartOf(text, u, e)
<1>1. r <= Len(text) /\ u <= e
  BY LenProperties
<1>2. a \in Seq(Characters) /\ Len(a) = r - u /\ \A j \in 1 .. r - u : a[j] = text[u + j]
  BY <1>1, PartOfIs
<1>3. b \in Seq(Characters) /\ Len(b) = e - r /\ \A j \in 1 .. e - r : b[j] = text[r + j]
  BY PartOfIs
<1>4. c \in Seq(Characters) /\ Len(c) = e - u /\ \A j \in 1 .. e - u : c[j] = text[u + j]
  BY <1>1, PartOfIs
<1> HIDE DEF a, b, c
<1>5. /\ a \o b \in Seq(Characters) /\ Len(a \o b) = Len(a) + Len(b)
      /\ \A j \in 1 .. Len(a) + Len(b) :
           (a \o b)[j] = IF j <= Len(a) THEN a[j] ELSE b[j - Len(a)]
  BY <1>2, <1>3, ConcatProperties
<1>6. Len(a) + Len(b) = e - u
  BY <1>2, <1>3
<1>7. ASSUME NEW j \in 1 .. e - u PROVE (a \o b)[j] = c[j]
  <2>1. (a \o b)[j] = IF j <= r - u THEN a[j] ELSE b[j - (r - u)]
    BY <1>2, <1>5, <1>6
  <2>2. CASE j <= r - u
    <3>1. j \in 1 .. r - u
      BY <2>2
    <3> QED
      BY <1>2, <1>4, <2>1, <2>2, <3>1
  <2>3. CASE ~(j <= r - u)
    <3>1. j - (r - u) \in 1 .. e - r /\ r + (j - (r - u)) = u + j
      BY <2>3
    <3>2. b[j - (r - u)] = text[u + j]
      BY <1>3, <3>1
    <3> QED
      BY <1>4, <2>1, <2>3, <3>2
  <2> QED
    BY <2>2, <2>3
<1>8. a \o b = c
  <2> DEFINE d == a \o b
  <2>1. d \in Seq(Characters) /\ Len(d) = Len(c) /\ \A j \in 1 .. Len(d) : d[j] = c[j]
    BY <1>4, <1>5, <1>6, <1>7
  <2> HIDE DEF d
  <2>2. d = c
    BY <1>4, <2>1, SeqEqual
  <2> QED
    BY <2>2 DEF d
<1> QED
  BY <1>8 DEF a, b, c

(* The portion of a text that is read.                                     *)
LEMMA PortionIs ==
  ASSUME NEW text \in Seq(Characters), NEW r \in Nat, r <= Len(text), NEW most \in Nat, most > 0
  PROVE  \E e \in Nat : /\ r <= e /\ e <= Len(text) /\ e <= r + most /\ (e = r => e = Len(text))
                        /\ SubSeq(text, r + 1, Min({r + most, Len(text)})) = PartOf(text, r, e)
<1> DEFINE e == Min({r + most, Len(text)})
<1>1. Len(text) \in Nat /\ r + most \in Nat
  BY LenProperties
<1>2. e \in {r + most, Len(text)} /\ \A y \in {r + most, Len(text)} : e <= y
  <2> DEFINE both == {r + most, Len(text)}
  <2>1. both \in SUBSET Nat /\ both # {}
    BY <1>1
  <2> HIDE DEF both
  <2>2. Min(both) \in both /\ \A y \in both : Min(both) <= y
    BY <2>1, LeastNatural
  <2> QED
    BY <2>2 DEF both
<1>3. SubSeq(text, r + 1, e) = PartOf(text, r, e)
  BY Zenon DEF PartOf
<1> HIDE DEF e
<1>4. e \in Nat /\ r <= e /\ e <= Len(text) /\ e <= r + most /\ (e = r => e = Len(text))
  BY <1>1, <1>2
<1> QED
  BY <1>3, <1>4 DEF e

(* An empty buffer.                                                        *)
LEMMA FlushedIs ==
  ASSUME NEW b, BufferOK(b), NEW f, f = Flushed(b)
  PROVE  /\ BufferOK(f) /\ f.ch \in [0 .. b.size + 1 -> Characters] /\ f.ch[0] = EOB /\ f.ch[1] = EOB
         /\ f.size = b.size /\ f.n = 0 /\ f.pos = 0 /\ f.bol = TRUE /\ f.line = b.line
         /\ f.fill = b.fill /\ f.status = "NEW" /\ f.file = b.file /\ f.read = b.read
<1> DEFINE c == Put(Put(b.ch, 0, EOB), 1, EOB)
<1>1. b \in Buffers /\ b.ch \in [0 .. b.size + 1 -> Characters] /\ b.size \in Nat
  BY DEF BufferOK, Buffers
<1>2. 0 \in 0 .. b.size + 1 /\ 1 \in 0 .. b.size + 1 /\ EOB \in Characters /\ 0 # 1
  BY <1>1 DEF EOB, Characters
<1>3. c \in [0 .. b.size + 1 -> Characters] /\ c[0] = EOB /\ c[1] = EOB
  BY <1>1, <1>2 DEF Put
<1>4. f = [b EXCEPT !.ch = c, !.n = 0, !.pos = 0, !.bol = TRUE, !.status = "NEW"]
  BY DEF Flushed
<1> HIDE DEF c
<1>5. /\ f.ch = c /\ f.size = b.size /\ f.n = 0 /\ f.pos = 0 /\ f.bol = TRUE /\ f.line = b.line
      /\ f.fill = b.fill /\ f.status = "NEW" /\ f.file = b.file /\ f.read = b.read
  BY <1>1, <1>4 DEF Buffers
<1>6. c \in UNION {[0 .. k + 1 -> Characters] : k \in Nat}
  BY <1>1, <1>3
<1>7. f \in Buffers
  <2> DEFINE yes == TRUE
             new == "NEW"
             empty == [b EXCEPT !.ch = c, !.n = 0, !.pos = 0]
  <2>1. f = [empty EXCEPT !.bol = yes, !.status = new]
    BY <1>1, <1>4 DEF Buffers
  <2>2. yes \in BOOLEAN /\ new \in {"NEW", "NORMAL", "EOF_PENDING"}
    OBVIOUS
  <2>3. empty \in Buffers
    BY <1>1, <1>6 DEF Buffers
  <2> HIDE DEF yes, new, empty
  <2> QED
    BY <2>1, <2>2, <2>3 DEF Buffers
<1>8. BufferOK(f)
  BY <1>3, <1>5, <1>7 DEF BufferOK
<1> QED
  BY <1>3, <1>5, <1>8

(* What is read when the end of a file's buffer was found: the buffer b,   *)
(* filled anew up to the character e of the file.                          *)
LEMMA ReadMoreIs ==
  ASSUME ScanInv, ReadMore
  PROVE
    LET pending == Buf.status = "EOF_PENDING"
        size == IF pending THEN Buf.size ELSE GrownSize[Buf.size]
        read == IF pending THEN <<>> ELSE Portion(Buf, NumToRead(size))
        text == Moved \o read
    IN /\ size \in Nat /\ size > 0 /\ Moved = PartOf(CurText, Base + textPtr, Buf.read)
       /\ \E e \in Nat :
            /\ Buf.read <= e /\ e <= Len(CurText) /\ (e = Buf.read => e = Len(CurText))
            /\ (pending => e = Buf.read)
            /\ read = PartOf(CurText, Buf.read, e) /\ text = PartOf(CurText, Base + textPtr, e)
            /\ Len(text) <= size
<1> DEFINE pending == Buf.status = "EOF_PENDING"
           size == IF pending THEN Buf.size ELSE GrownSize[Buf.size]
           read == IF pending THEN <<>> ELSE Portion(Buf, NumToRead(size))
           text == Moved \o read
           u == Base + textPtr
           r == Buf.read
           cur == CurText
<1>1. FoundEnd /\ cBufP > CharsAtEnd /\ Buf.fill
  BY Zenon DEF ReadMore
<1>2. /\ AtEnd.ch = Chars /\ CharsAtEnd = nChars
  BY <1>1, AtEndIs
<1>3. /\ cBufP \in textPtr + 1 .. nChars + 1 /\ textPtr \in 0 .. nChars
      /\ IsPart(Chars, Buf.size, nChars, cur, Base)
      /\ cBufP \in Nat /\ textPtr \in Nat /\ nChars \in Nat /\ nChars <= Buf.size /\ Buf.size \in Nat
  BY <1>1, EndIsFound
<1>4. /\ cur \in Seq(Characters) /\ Base \in Nat /\ Base + nChars = r /\ r <= Len(cur)
      /\ Len(cur) \in Nat /\ Buf \in Buffers /\ BufferOK(Buf)
      /\ HoldsText(cur, Buf, Chars, nChars)
  BY CurrentIs
<1>5. cBufP = nChars + 1 /\ cBufP - 2 = nChars - 1 /\ nChars \in textPtr .. nChars
  BY <1>1, <1>2, <1>3
<1>6. u \in Nat /\ u <= r /\ r \in Nat /\ r - u = nChars - textPtr /\ Base + nChars = r
  BY <1>3, <1>4
<1>7. Moved = PartOf(cur, u, r)
  <2> DEFINE ch == Chars
  <2>1. Moved = Between(ch, textPtr, nChars - 1)
    BY <1>2, <1>5 DEF Moved
  <2>2. IsPart(ch, Buf.size, nChars, cur, Base)
    BY <1>3
  <2> DEFINE room == Buf.size
             base == Base
  <2>5. IsPart(ch, room, nChars, cur, base) /\ cur \in Seq(Characters)
    BY <1>4, <2>2
  <2>7. Within(textPtr, nChars, nChars)
    BY <1>3, <1>5 DEF Within
  <2> HIDE DEF ch, cur, room, base
  <2>6. Between(ch, textPtr, nChars - 1) = SubSeq(cur, base + textPtr + 1, base + nChars)
    BY <2>5, <2>7, TokenIsPart
  <2>3. Between(ch, textPtr, nChars - 1) = SubSeq(cur, Base + textPtr + 1, Base + nChars)
    BY <2>6 DEF base
  <2> QED
    BY <1>6, <2>1, <2>3 DEF PartOf
<1>8. GrownSize = CHOOSE f : Grows(f, Len(Moved))
  BY Zenon DEF GrownSize, Grows
<1>9. read = IF pending THEN <<>> ELSE SubSeq(cur, r + 1, Min({r + NumToRead(size), Len(cur)}))
  BY DEF Portion, CurText
<1>10. (Buf.status = "EOF_PENDING" => r = Len(cur)) /\ Buf.size > 0
  BY <1>1, <1>4 DEF HoldsText, BufferOK
<1>11. size = IF pending THEN Buf.size ELSE GrownSize[Buf.size]
  OBVIOUS
<1>12. text = Moved \o read /\ pending = (Buf.status = "EOF_PENDING")
  OBVIOUS
<1> HIDE DEF pending, size, read, text, u, r, cur
<1>13. Len(Moved) = r - u /\ Len(Moved) \in Nat /\ Len(Moved) <= Buf.size
  <2>1. Len(PartOf(cur, u, r)) = r - u
    BY <1>4, <1>6, PartOfIs
  <2>2. r - u \in Nat /\ r - u <= Buf.size
    BY <1>3, <1>6
  <2> QED
    BY <1>7, <2>1, <2>2
<1>14. /\ size \in Nat /\ size > 0 /\ Len(Moved) <= size
       /\ ~pending => size - Len(Moved) - 1 > 0
  <2>1. CASE pending
    BY <1>3, <1>10, <1>11, <1>13, <2>1
  <2>2. CASE ~pending
    <3> DEFINE k == Len(Moved)
               h == GrownSize
    <3>1. k \in Nat /\ h = CHOOSE f : Grows(f, k)
      BY <1>8, <1>13
    <3> HIDE DEF k, h
    <3>2. \A x \in Nat \ {0} : h[x] \in Nat \ {0} /\ h[x] - k - 1 > 0
      BY <3>1, GrowingEnds
    <3>3. Buf.size \in Nat \ {0}
      BY <1>3, <1>10
    <3>4. size = h[Buf.size]
      BY <1>11, <2>2 DEF h
    <3>5. size \in Nat \ {0} /\ size - k - 1 > 0
      BY <3>2, <3>3, <3>4
    <3> QED
      BY <3>1, <3>5 DEF k
  <2> QED
    BY <2>1, <2>2
<1>15. \E e \in Nat :
         /\ r <= e /\ e <= Len(cur) /\ (e = r => e = Len(cur)) /\ (pending => e = r)
         /\ read = PartOf(cur, r, e) /\ e - u <= size
  <2>1. CASE pending
    <3>1. PartOf(cur, r, r) = <<>>
      <4>1. Len(PartOf(cur, r, r)) = r - r /\ PartOf(cur, r, r) \in Seq(Characters)
        BY <1>4, <1>6, PartOfIs
      <4>2. Len(PartOf(cur, r, r)) = 0
        BY <1>6, <4>1
      <4> QED
        BY <4>1, <4>2, EmptySeq
    <3>2. r = Len(cur) /\ r - u <= size /\ read = <<>> /\ r <= r
      <4>1. r = Len(cur) /\ read = <<>>
        BY <1>9, <1>10, <1>12, <2>1
      <4>2. r - u <= size /\ r <= r
        BY <1>6, <1>13, <1>14
      <4> QED
        BY <4>1, <4>2
    <3> QED
      BY <1>4, <1>6, <3>1, <3>2
  <2>2. CASE ~pending
    <3> DEFINE most == NumToRead(size)
    <3>1. most \in Nat /\ most > 0 /\ most <= size - Len(Moved) - 1
      <4> DEFINE both == {size - Len(Moved) - 1, ReadSize}
      <4>1. both \in SUBSET Nat /\ both # {} /\ size - Len(Moved) - 1 \in both
            /\ \A y \in both : y > 0
        BY <1>13, <1>14, <2>2, SizeAssumption
      <4> HIDE DEF both
      <4>2. Min(both) \in both /\ \A y \in both : Min(both) <= y
        BY <4>1, LeastNatural
      <4>3. most = Min(both)
        BY DEF NumToRead, both
      <4> HIDE DEF most
      <4> QED
        BY <4>1, <4>2, <4>3
    <3>2. read = SubSeq(cur, r + 1, Min({r + most, Len(cur)}))
      BY <1>9, <2>2
    <3> HIDE DEF most
    <3>3. PICK e \in Nat : /\ r <= e /\ e <= Len(cur) /\ e <= r + most /\ (e = r => e = Len(cur))
                           /\ SubSeq(cur, r + 1, Min({r + most, Len(cur)})) = PartOf(cur, r, e)
      BY <1>4, <1>6, <3>1, PortionIs
    <3>4. e - u <= size
      BY <1>6, <1>13, <1>14, <3>1, <3>3
    <3>5. read = PartOf(cur, r, e)
      BY <3>2, <3>3, Zenon
    <3> QED
      BY <2>2, <3>3, <3>4, <3>5
  <2> QED
    BY <2>1, <2>2
<1>16. PICK e \in Nat :
         /\ r <= e /\ e <= Len(cur) /\ (e = r => e = Len(cur)) /\ (pending => e = r)
         /\ read = PartOf(cur, r, e) /\ e - u <= size
  BY <1>15
<1>17. text = PartOf(cur, u, e)
  <2>1. PartOf(cur, u, r) \o PartOf(cur, r, e) = PartOf(cur, u, e)
    BY <1>4, <1>6, <1>16, PartsJoin
  <2> QED
    BY <1>7, <1>12, <1>16, <2>1, Zenon
<1>18. Len(text) <= size
  <2>1. u <= e
    BY <1>6, <1>16
  <2>2. Len(PartOf(cur, u, e)) = e - u
    BY <1>4, <1>6, <1>16, <2>1, PartOfIs
  <2> QED
    BY <1>16, <1>17, <2>2
<1> QED
  <2>1. \E ee \in Nat :
          /\ r <= ee /\ ee <= Len(cur) /\ (ee = r => ee = Len(cur)) /\ (pending => ee = r)
          /\ read = PartOf(cur, r, ee) /\ text = PartOf(cur, u, ee) /\ Len(text) <= size
    BY <1>16, <1>17, <1>18
  <2> QED
    BY <1>7, <1>14, <2>1, Zenon DEF pending, size, read, text, u, r, cur

LEMMA ReadMoreKeeps ==
  ASSUME ScanInv, ReadMore
  PROVE  ScanInv' /\ SamePlace
<1> DEFINE pending == Buf.status = "EOF_PENDING"
           size == IF pending THEN Buf.size ELSE GrownSize[Buf.size]
           read == IF pending THEN <<>> ELSE Portion(Buf, NumToRead(size))
           text == Moved \o read
           b == [AtEnd EXCEPT !.size = size, !.n = Len(read), !.read = @ + Len(read),
                              !.ch = Filled(AtEnd, size, text)]
           last == [b EXCEPT !.status = "EOF_PENDING"]
           n == Len(text)
           k == Len(Moved)
           w == TokenWay
           cur == CurText
           u == Base + textPtr
           r == Buf.read
           before == PreviousState(Buf'.ch, StartOf(condition, Buf.bol), 0, cBufP', lastAccepting)
<1>1. /\ FoundEnd /\ cBufP > CharsAtEnd /\ Buf.fill /\ Unread
      /\ IF read # <<>>
         THEN /\ bufs' = SetBuf(b)
              /\ textPtr' = 0 /\ cBufP' = k /\ nChars' = n
              /\ state' = before[1] /\ lastAccepting' = before[2]
              /\ pc' = "match" /\ holdChar' = holdChar
         ELSE IF Moved = <<>>
         THEN EndOfFile(Flushed(b), 0) /\ nChars' = 0 /\ holdChar' = EOB
         ELSE LastMatch(last, n, 0)
  BY Zenon DEF ReadMore
<1>2. /\ size \in Nat /\ size > 0 /\ Moved = PartOf(cur, u, r)
      /\ \E e \in Nat :
           /\ r <= e /\ e <= Len(cur) /\ (e = r => e = Len(cur)) /\ (pending => e = r)
           /\ read = PartOf(cur, r, e) /\ text = PartOf(cur, u, e) /\ n <= size
  BY ReadMoreIs, Zenon
<1>3. /\ Ready(files, AtEnd, nChars, textPtr) /\ AtEnd \in Buffers /\ AtEnd.read = r
      /\ AtEnd.status = (IF Buf.status = "NEW" THEN "NORMAL" ELSE Buf.status)
      /\ AtEnd.bol = Buf.bol /\ AtEnd.line = Buf.line /\ AtEnd.fill = Buf.fill
      /\ AtEnd.file = Buf.file /\ files[AtEnd.file] = cur
  BY <1>1, AtEndIs DEF BufferOK
<1>4. /\ cBufP \in textPtr + 1 .. nChars + 1 /\ textPtr \in 0 .. nChars
      /\ cBufP \in Nat /\ textPtr \in Nat /\ nChars \in Nat
      /\ w[Base + cBufP] # JAM /\ cBufP > nChars /\ w[Base + textPtr + 1] = StartOf(condition, Buf.bol)
  BY <1>1, EndIsFound, AtEndIs
<1>5. /\ cur \in Seq(Characters) /\ Base \in Nat /\ Base + nChars = r /\ r <= Len(cur)
      /\ Len(cur) \in Nat /\ r \in Nat
  <2>1. Buf.read \in Nat
    BY CurrentIs DEF Buffers
  <2> QED
    BY <2>1, CurrentIs
<1>6. ScanTypes /\ WaitingInv /\ holdChar \in Characters /\ files \in Disks /\ condition \in ToSet(StartConditions)
  BY DEF ScanInv, ScanTypes
<1>7. u \in Nat /\ u <= r /\ r - u = nChars - textPtr /\ u = Base + textPtr /\ cBufP = nChars + 1
  BY <1>4, <1>5
<1>8. /\ AtEnd.status \in Refills /\ (AtEnd.status = "EOF_PENDING" <=> pending)
  BY <1>3 DEF Refills, Buffers
<1>9. b = Refilled(AtEnd, size, Len(read), r + Len(read), text, AtEnd.status)
  BY <1>3 DEF Refilled, Buffers
<1>10. last = Refilled(AtEnd, size, Len(read), r + Len(read), text, "EOF_PENDING")
  BY <1>3 DEF Refilled, Buffers
<1>11. Base + Begin = u /\ w = TokenWay
  BY <1>1 DEF Begin, FoundEnd
<1>12. /\ before = PreviousState(Buf'.ch, StartOf(condition, Buf.bol), 0, cBufP', lastAccepting)
       /\ n = Len(text) /\ k = Len(Moved)
       /\ cur = CurText /\ r = Buf.read
  BY Zenon
<1> HIDE DEF pending, size, read, text, b, last, n, k, w, cur, u, r, before
<1>13. PICK e \in Nat :
           /\ r <= e /\ e <= Len(cur) /\ (e = r => e = Len(cur)) /\ (pending => e = r)
           /\ read = PartOf(cur, r, e) /\ text = PartOf(cur, u, e) /\ n <= size
  BY <1>2
<1>14. Len(read) = e - r /\ read \in Seq(Characters) /\ Len(read) \in Nat /\ r + Len(read) = e
  <2>1. PartOf(cur, r, e) \in Seq(Characters) /\ Len(PartOf(cur, r, e)) = e - r
    BY <1>5, <1>13, PartOfIs
  <2>2. e - r \in Nat /\ r + (e - r) = e
    BY <1>5, <1>13
  <2> QED
    BY <1>13, <2>1, <2>2
<1>15. n = e - u /\ text \in Seq(Characters) /\ n \in Nat /\ u <= e
  <2>1. u <= e
    BY <1>5, <1>7, <1>13
  <2>2. PartOf(cur, u, e) \in Seq(Characters) /\ Len(PartOf(cur, u, e)) = e - u
    BY <1>5, <1>7, <1>13, <2>1, PartOfIs
  <2>3. e - u \in Nat
    BY <1>7, <2>1
  <2> QED
    BY <1>12, <1>13, <2>1, <2>2, <2>3
<1>16. k = r - u /\ Moved \in Seq(Characters) /\ k \in Nat
  <2>1. PartOf(cur, u, r) \in Seq(Characters) /\ Len(PartOf(cur, u, r)) = r - u
    BY <1>5, <1>7, PartOfIs
  <2>2. r - u \in Nat
    BY <1>5, <1>7
  <2> QED
    BY <1>2, <1>12, <2>1, <2>2
<1>17. /\ Refillable(size, Len(read), e, text, AtEnd.status)
       /\ Refillable(size, Len(read), e, text, "EOF_PENDING")
  <2>1. size \in Nat /\ size > 0 /\ Len(text) <= size
    BY <1>2, <1>12, <1>13
  <2> QED
    BY <1>8, <1>13, <1>14, <1>15, <2>1 DEF Refillable, Refills
<1>18. /\ b = Refilled(AtEnd, size, Len(read), e, text, AtEnd.status)
       /\ last = Refilled(AtEnd, size, Len(read), e, text, "EOF_PENDING")
  BY <1>9, <1>10, <1>14
<1>19. /\ Buf.read <= e /\ e <= Len(CurText) /\ text = PartOf(CurText, Base + textPtr, e)
  BY <1>7, <1>12, <1>13
<1>23. \A status \in Refills : status = "EOF_PENDING" \/ status = AtEnd.status =>
         \A other : (status = "EOF_PENDING" => e = Len(CurText))
                    /\ other = Refilled(AtEnd, size, Len(read), e, text, status)
                      => IsRefill(other, size, Len(read), e, text, status)
  BY <1>1, <1>17, <1>19 DEF IsRefill
<1>20. /\ Ready(files, b, n, 0) /\ b.read = e /\ b.read - n = u
       /\ b.file = Buf.file /\ b.bol = Buf.bol /\ b.line = Buf.line /\ BufferOK(b)
       /\ WayIn(files[b.file], b, n, 0, condition) = w
  <2> DEFINE status == AtEnd.status
             m == Len(read)
  <2>1. status = "EOF_PENDING" => e = Len(CurText)
    BY <1>8, <1>12, <1>13
  <2>3. IsRefill(b, size, m, e, text, status)
    BY <1>8, <1>18, <1>23, <2>1
  <2> HIDE DEF status, m
  <2>2. /\ Ready(files, b, Len(text), 0) /\ b.read = e /\ b.read - Len(text) = Base + textPtr
        /\ b.file = Buf.file /\ b.bol = Buf.bol /\ b.line = Buf.line /\ BufferOK(b)
        /\ WayIn(files[b.file], b, Len(text), 0, condition) = TokenWay
    <3>1. FoundEnd
      BY <1>1
    <3>2. Ready(files, b, Len(text), 0)
      BY <2>3, <3>1, RefillIsReady
    <3>3. b.read = e
      BY <2>3, <3>1, RefillIsReady
    <3>4. b.read - Len(text) = Base + textPtr
      BY <2>3, <3>1, RefillIsReady
    <3>5.  b.file = Buf.file /\ b.bol = Buf.bol /\ b.line = Buf.line /\ BufferOK(b)
      BY <2>3, <3>1, RefillIsReady
    <3>6. WayIn(files[b.file], b, Len(text), 0, condition) = TokenWay
      BY <2>3, <3>1, RefillIsReady
    <3> QED
      BY <3>2, <3>3, <3>4, <3>5, <3>6
  <2> QED
    BY <1>7, <1>11, <1>12, <2>2
<1>21. CASE read # <<>>
  <2>1. /\ bufs' = SetBuf(b)
        /\ textPtr' = 0 /\ cBufP' = k /\ nChars' = n
        /\ state' = before[1] /\ lastAccepting' = before[2]
        /\ pc' = "match" /\ holdChar' \in Characters
    BY <1>1, <1>6, <1>21
  <2>2. Buf' = b
    BY <1>6, <1>20, <2>1, SetBufIs DEF BufferOK, ScanTypes
  <2>3. k \in 0 .. n
    <3>1. r \in Nat /\ u \in Nat /\ u <= r /\ r <= e /\ n = e - u /\ k = r - u
      BY <1>5, <1>7, <1>13, <1>15, <1>16
    <3> QED
      BY <3>1
  <2>4. /\ IsPart(b.ch, b.size, n, cur, u) /\ IsTokenWay(w, cur, u, 0)
        /\ w[u + 0 + 1] = StartOf(condition, Buf.bol) /\ files[b.file] = cur
    <3>1. files[b.file] = cur
      BY <1>3, <1>20
    <3> DEFINE from == condition
               z == 0
               ww == WayIn(files[b.file], b, n, z, from)
    <3>3. Ready(files, b, n, z) /\ from \in ToSet(StartConditions) /\ files \in Disks /\ ww = w
      BY <1>6, <1>20
    <3>4. ww = WayIn(files[b.file], b, n, z, from)
      OBVIOUS
    <3> HIDE DEF from, z, ww
    <3>2. /\ IsPart(b.ch, b.size, n, files[b.file], b.read - n)
          /\ IsTokenWay(ww, files[b.file], b.read - n, z)
          /\ ww[b.read - n + z + 1] = StartOf(from, b.bol)
      BY <3>3, <3>4, WayInIs
    <3> QED
      BY <1>20, <3>1, <3>2, <3>3 DEF z, from
  <2> DEFINE ch == b.ch
             room == b.size
             z == 0
  <2>5. before = PreviousState(ch, w[u + z + 1], z, k, lastAccepting)
    BY <1>12, <2>1, <2>2, <2>4
  <2>6. IsPart(ch, room, n, cur, u) /\ IsTokenWay(w, cur, u, z) /\ z \in 0 .. n /\ k \in z .. n
    <3>1. z \in 0 .. n /\ k \in z .. n
      BY <1>15, <1>16, <2>3
    <3> QED
      BY <2>4, <3>1
  <2> HIDE DEF ch, room, z
  <2>7. before[1] = w[u + k + 1] /\ Knows(w, u, z, k, before[2])
    <3>1. LET found == PreviousState(ch, w[u + z + 1], z, k, lastAccepting)
          IN found[1] = w[u + k + 1] /\ Knows(w, u, z, k, found[2])
      BY <1>5, <2>6, PreviousIs
    <3> QED
      BY <2>5, <3>1, Zenon
  <2>8. u + k + 1 = Base + cBufP
    BY <1>4, <1>5, <1>7, <1>16
  <2>9. /\ state' = w[b.read - n + k + 1] /\ state' # JAM
        /\ Knows(w, b.read - n, 0, k, lastAccepting')
    BY <1>4, <1>20, <2>1, <2>7, <2>8 DEF z
  <2>10. /\ ScanInv' /\ Buf'.file = b.file /\ Base' + Begin' = b.read - n + 0
         /\ OthersStay
    BY <1>1, <1>6, <1>20, <2>1, <2>3, <2>9, MatchingKeeps
  <2>11. b.read - n + 0 = u
    BY <1>7, <1>20
  <2> QED
    BY <1>11, <1>20, <2>10, <2>11 DEF SamePlace
<1>22. CASE read = <<>>
  <2>1. e = r /\ e = Len(cur)
    <3>1. Len(read) = 0
      BY <1>22, EmptySeq
    <3> QED
      BY <1>5, <1>13, <1>14, <3>1
  <2>2. CASE Moved = <<>>
    <3> DEFINE f == Flushed(b)
    <3>1. /\ bufs' = SetBuf(f) /\ textPtr' = 0 /\ cBufP' = 0 /\ nChars' = 0 /\ pc' = "eof"
          /\ holdChar' = EOB
      BY <1>1, <1>22, <2>2 DEF EndOfFile
    <3>2. /\ BufferOK(f) /\ f.ch \in [0 .. b.size + 1 -> Characters] /\ f.ch[0] = EOB /\ f.ch[1] = EOB
          /\ f.size = b.size /\ f.n = 0 /\ f.line = b.line
          /\ f.fill = b.fill /\ f.status = "NEW" /\ f.file = b.file /\ f.read = b.read
      BY <1>20, FlushedIs
    <3> HIDE DEF f
    <3>3. k = 0 /\ u = r
      <4>1. k = 0
        BY <1>12, <2>2, EmptySeq
      <4> QED
        BY <1>5, <1>7, <1>16, <4>1
    <3>4. f.read = Len(files[f.file]) /\ files[f.file] = cur /\ f.read = u
      BY <1>3, <1>20, <2>1, <3>2, <3>3
    <3>5. Current(files, f, f.ch, 0)
      <4>1. b.file \in DOMAIN files /\ b.size \in Nat
        BY <1>20 DEF Ready, Current, BufferOK, Buffers
      <4>2. 0 \in 0 .. f.size /\ f.read \in 0 .. Len(cur) /\ f.ch[0 + 1] = EOB
        BY <1>5, <1>7, <2>1, <3>2, <3>3, <3>4, <4>1
      <4>3. \A p \in 0 .. 0 - 1 : f.ch[p] = cur[f.read - 0 + p + 1]
        OBVIOUS
      <4>4. HoldsText(cur, f, f.ch, 0)
        BY <3>2, <3>4, <4>2, <4>3 DEF HoldsText
      <4> QED
        BY <3>2, <3>4, <4>1, <4>4 DEF Current
    <3>6. f.line = LineAt(files[f.file], f.read)
      <4>1. b.line = LineAt(files[b.file], b.read - n + 0) /\ b.read - n + 0 = u
        BY <1>7, <1>20 DEF Ready
      <4> QED
        BY <1>3, <1>20, <3>2, <3>4, <4>1
    <3>7. /\ ScanInv' /\ Buf'.file = f.file /\ Base' + Begin' = f.read /\ OthersStay
      BY <1>1, <1>6, <3>1, <3>4, <3>5, <3>6, EndOfFileKeeps
    <3> QED
      BY <1>11, <1>20, <3>2, <3>4, <3>7 DEF SamePlace
  <2>3. CASE Moved # <<>>
    <3>1. LastMatch(last, n, 0)
      BY <1>1, <1>22, <2>3
    <3>2. /\ Ready(files, last, n, 0) /\ last.read = e /\ last.read - n = u
          /\ last.file = Buf.file
      <4> DEFINE status == "EOF_PENDING"
                 m == Len(read)
      <4>1. IsRefill(last, size, m, e, text, status)
        BY <1>12, <1>18, <1>23, <2>1 DEF Refills
      <4> HIDE DEF status, m
      <4>2. /\ Ready(files, last, Len(text), 0) /\ last.read = e
            /\ last.read - Len(text) = Base + textPtr /\ last.file = Buf.file
        <5>1. FoundEnd
          BY <1>1
        <5>2. Ready(files, last, Len(text), 0)
          BY <4>1, <5>1, RefillIsReady
        <5>3. last.read = e
          BY <4>1, <5>1, RefillIsReady
        <5>4. last.read - Len(text) = Base + textPtr
          BY <4>1, <5>1, RefillIsReady
        <5>5. last.file = Buf.file
          BY <4>1, <5>1, RefillIsReady
        <5> QED
          BY <5>2, <5>3, <5>4, <5>5
      <4> QED
        BY <1>7, <1>12, <4>2
    <3>3. 0 < n
      <4>1. k # 0
        BY <1>12, <1>16, <2>3, EmptySeq
      <4> QED
        BY <1>15, <1>16, <2>1, <4>1
    <3>4. last.read = Len(files[last.file])
      BY <1>3, <2>1, <3>2
    <3>5. /\ ScanInv' /\ Buf'.file = last.file /\ Base' + Begin' = last.read - n + 0
          /\ OthersStay
      BY <1>1, <1>6, <3>1, <3>2, <3>3, <3>4, LastMatchKeeps
    <3>6. last.read - n + 0 = u
      BY <1>7, <3>2
    <3> QED
      BY <1>11, <3>2, <3>5, <3>6 DEF SamePlace
  <2> QED
    BY <2>2, <2>3
<1> QED
  BY <1>21, <1>22

-----------------------------------------------------------------------------
(* The code of the rules.                                                  *)

(* The token is the longest match of a rule in the text of the file, and   *)
(* yytext is what it matched.                                              *)
LEMMA RuleIs ==
  ASSUME ScanInv, AtRule
  PROVE  /\ pc = "act" /\ cBufP \in textPtr + 1 .. nChars /\ Base + cBufP <= Len(CurText)
         /\ textPtr \in Nat /\ cBufP \in Nat /\ nChars \in Nat /\ Base \in Nat
         /\ YyText = SubSeq(CurText, Base + textPtr + 1, Base + cBufP)
         /\ Longest(CurText, Base + textPtr + 1, condition, Buf.bol) = <<act, cBufP - textPtr>>
         /\ Last(YyText) = CurText[Base + cBufP]
         /\ Buf.line = LineAt(CurText, Base + cBufP)
         /\ Buf.bol = LineStart(CurText, Base + textPtr) /\ Begin = textPtr
<1> DEFINE ch == Chars
           cur == CurText
           base == Base
           room == Buf.size
           u == Base + textPtr
           w == TokenWay
           e == Base + cBufP
<1>1. /\ pc = "act" /\ act # 0 /\ act # YY_END_OF_BUFFER
      /\ cBufP \in textPtr + 1 .. nChars
      /\ Ends(w, cur, base, cBufP) /\ act = Accepts(w[e + 1])
  BY Zenon DEF AtRule, ScanInv, TokenInv, FoundRule
<1>2. /\ cBufP \in Nat /\ textPtr \in Nat /\ nChars \in Nat /\ condition \in ToSet(StartConditions)
      /\ Begin = textPtr /\ Counted = cBufP
  BY <1>1 DEF ScanInv, ScanTypes, Begin, Counted
<1>3. /\ Buf \in Buffers /\ BufferOK(Buf)
      /\ HoldsText(cur, Buf, ch, nChars) /\ cur \in Seq(Characters)
      /\ Base \in Nat /\ Base + nChars = Buf.read /\ Buf.read <= Len(cur)
      /\ Len(cur) \in Nat /\ base = Buf.read - nChars
      /\ ch = Put(Buf.ch, cBufP, holdChar)
  BY <1>1, CurrentIs
<1>4. /\ Buf.line = LineAt(cur, e) /\ Buf.bol = LineStart(cur, u)
  BY <1>1, <1>2 DEF ScanInv, PlaceInv
<1>5. e \in u + 1 .. Len(cur) /\ u \in 0 .. Len(cur) /\ e - u = cBufP - textPtr
      /\ e + 1 \in u + 1 .. Len(cur) + 1 /\ (e + 1) - (u + 1) = cBufP - textPtr
      /\ u \in Nat /\ e \in Nat /\ e = base + cBufP
  <2> DEFINE L == Len(cur)
  <2>1. /\ base \in Nat /\ base + nChars <= L /\ L \in Nat /\ cBufP \in textPtr + 1 .. nChars
        /\ u = base + textPtr /\ e = base + cBufP
    BY <1>1, <1>3
  <2> HIDE DEF L, base, u, e
  <2> QED
    BY <1>2, <2>1 DEF L
<1>6. YyText = Between(ch, textPtr, cBufP - 1)
  <2>1. \A j \in 1 .. (cBufP - 1) - textPtr + 1 :
          textPtr + j - 1 # cBufP /\ textPtr + j - 1 \in 0 .. Buf.size + 1
    <3>1. nChars <= Buf.size /\ Buf.size \in Nat
      BY <1>3 DEF HoldsText, Buffers
    <3> QED
      BY <1>1, <1>2, <3>1
  <2>2. \A p \in 0 .. Buf.size + 1 : p # cBufP => ch[p] = Buf.ch[p]
    <3>1. ch = [Buf.ch EXCEPT ![cBufP] = holdChar] /\ DOMAIN Buf.ch = 0 .. Buf.size + 1
      BY <1>3 DEF Put, BufferOK
    <3> HIDE DEF ch
    <3> QED
      BY <3>1, Zenon
  <2> HIDE DEF ch
  <2> QED
    BY <2>1, <2>2 DEF YyText, Between
<1> HIDE DEF ch, cur, base, room, u, w, e
<1>7. IsPart(ch, room, nChars, cur, base)
  <2>1. IsPart(ch, Buf.size, nChars, cur, Buf.read - nChars)
    BY <1>3, PartIs
  <2> QED
    BY <1>3, <2>1 DEF room
<1>8. Within(textPtr, cBufP, nChars)
  BY <1>1, <1>2 DEF Within
<1>9. Between(ch, textPtr, cBufP - 1) = SubSeq(cur, base + textPtr + 1, base + cBufP)
  BY <1>3, <1>7, <1>8, TokenIsPart
<1>10. Last(YyText) = cur[e]
  <2> DEFINE q == SubSeq(cur, u + 1, e)
  <2>1. u + 1 \in Int /\ e \in Int /\ u + 1 <= e + 1 /\ \A j \in u + 1 .. e : cur[j] \in Characters
    <3>1. \A j \in 1 .. Len(cur) : cur[j] \in Characters
      BY <1>3, ElementOfSeq
    <3> QED
      BY <1>3, <1>5, <3>1
  <2>2. /\ q \in Seq(Characters) /\ Len(q) = e - (u + 1) + 1
        /\ \A j \in 1 .. e - (u + 1) + 1 : q[j] = cur[u + 1 + j - 1]
    BY <2>1, SubSeqProperties
  <2>3. q = YyText
    BY <1>5, <1>6, <1>9 DEF u, base
  <2> HIDE DEF q
  <2>4. e - (u + 1) + 1 \in 1 .. e - (u + 1) + 1 /\ u + 1 + (e - (u + 1) + 1) - 1 = e
    BY <1>5
  <2>5. q[Len(q)] = cur[e]
    BY <2>2, <2>4
  <2> QED
    BY <2>3, <2>5 DEF Last
<1>11. Longest(cur, u + 1, condition, Buf.bol) = <<act, cBufP - textPtr>>
  <2> DEFINE yes == Buf.bol
  <2>1. yes \in BOOLEAN
    BY <1>3 DEF Buffers
  <2>2. StartOf(condition, yes) \in Starts
    BY <1>2, <2>1, StartIsKnown
  <2>3. w = WayFrom(cur, u, StartOf(condition, yes))
    BY DEF w, TokenWay, cur, u
  <2>4. LastOf(w, Len(cur) + 1, e + 1)
    BY <1>1, <1>5 DEF Ends
  <2> HIDE DEF yes
  <2>5. Longest(cur, u + 1, condition, yes) = <<Accepts(w[e + 1]), (e + 1) - (u + 1)>>
    BY <1>3, <1>5, <2>2, <2>3, <2>4, LongestIs
  <2> QED
    BY <1>1, <1>5, <2>5 DEF yes
<1> QED
  <2>1. YyText = SubSeq(cur, base + textPtr + 1, base + cBufP)
    BY <1>6, <1>9
  <2> QED
    BY <1>1, <1>2, <1>3, <1>4, <1>5, <1>10, <1>11, <2>1 DEF cur, base, u, e

(* YY_RULE_SETUP notes whether a line begins behind the token.             *)
LEMMA SetUpIs ==
  ASSUME ScanInv, AtRule
  PROVE  /\ BufferOK(SetUp) /\ SetUp \in Buffers /\ SetUp.ch = Buf.ch /\ SetUp.size = Buf.size
         /\ SetUp.n = Buf.n /\ SetUp.pos = Buf.pos /\ SetUp.line = Buf.line /\ SetUp.fill = Buf.fill
         /\ SetUp.status = Buf.status /\ SetUp.file = Buf.file /\ SetUp.read = Buf.read
         /\ SetUp.bol = LineStart(CurText, Base + cBufP)
<1> DEFINE bol == Last(YyText) = Newline
<1>1. Buf \in Buffers /\ BufferOK(Buf)
  BY CurrentIs
<1>2. bol \in BOOLEAN
  OBVIOUS
<1>3. SetUp = [Buf EXCEPT !.bol = bol]
  BY DEF SetUp
<1>4. bol = LineStart(CurText, Base + cBufP)
  <2>1. Base + cBufP # 0 /\ Last(YyText) = CurText[Base + cBufP]
    <3>1. Base \in Nat /\ cBufP \in textPtr + 1 .. nChars /\ textPtr \in Nat
          /\ Last(YyText) = CurText[Base + cBufP]
      BY RuleIs
    <3> QED
      BY <3>1
  <2> QED
    BY <2>1 DEF LineStart
<1> HIDE DEF bol
<1>5. /\ SetUp \in Buffers /\ SetUp.ch = Buf.ch /\ SetUp.size = Buf.size
      /\ SetUp.n = Buf.n /\ SetUp.pos = Buf.pos /\ SetUp.line = Buf.line /\ SetUp.fill = Buf.fill
      /\ SetUp.status = Buf.status /\ SetUp.file = Buf.file /\ SetUp.read = Buf.read
      /\ SetUp.bol = bol
  BY <1>1, <1>2, <1>3 DEF Buffers
<1>6. BufferOK(SetUp)
  BY <1>1, <1>5 DEF BufferOK
<1> QED
  BY <1>4, <1>5, <1>6

(* The scanner goes on behind the token.                                   *)
LEMMA RuleKeeps ==
  ASSUME ScanInv, AtRule, bufs' = SetBuf(SetUp), UNCHANGED <<files, lists, cursor>>,
         condition' \in ToSet(StartConditions), pc' \in {"token", "failed"}
  PROVE  /\ ScanInv' /\ OthersStay /\ Buf'.file = Buf.file
         /\ Base' + Begin' = Base + cBufP
<1>1. /\ pc = "act" /\ cBufP \in textPtr + 1 .. nChars
      /\ textPtr \in Nat /\ cBufP \in Nat /\ nChars \in Nat
      /\ Buf.line = LineAt(CurText, Base + cBufP)
  BY RuleIs
<1>2. /\ BufferOK(SetUp) /\ SetUp \in Buffers /\ SetUp.ch = Buf.ch /\ SetUp.size = Buf.size
      /\ SetUp.n = Buf.n /\ SetUp.line = Buf.line /\ SetUp.fill = Buf.fill
      /\ SetUp.status = Buf.status /\ SetUp.file = Buf.file /\ SetUp.read = Buf.read
      /\ SetUp.bol = LineStart(CurText, Base + cBufP)
  BY SetUpIs
<1>3. /\ ScanTypes /\ WaitingInv /\ Current(files, Buf, Chars, nChars)
      /\ Chars = Put(Buf.ch, cBufP, holdChar)
  BY <1>1, CurrentIs DEF ScanInv, CurrentInv
<1>4. /\ bufs' \in Seq(Buffers) /\ Len(bufs') = Len(bufs) /\ Buf' = SetUp
      /\ bufs'[Len(bufs)] = SetUp
      /\ \A k \in 1 .. Len(bufs) - 1 : bufs'[k] = bufs[k]
  BY <1>2, <1>3, SetBufIs DEF ScanTypes
<1>5. /\ files' = files /\ lists' = lists /\ cBufP' = cBufP /\ textPtr' = textPtr
      /\ holdChar' = holdChar /\ nChars' = nChars
  BY DEF cursor
<1>6. Chars' = Chars
  BY <1>2, <1>3, <1>4, <1>5 DEF Chars, Restored
<1>7. CurText' = CurText /\ Base' = Base /\ Begin' = cBufP /\ Counted' = cBufP
  BY <1>2, <1>4, <1>5 DEF CurText, Base, Begin, Counted, AtRule
<1>8. ScanTypes'
  BY <1>3, <1>4, <1>5 DEF ScanTypes
<1>9. WaitingInv'
  BY <1>3, <1>4, <1>5, WaitingStays
<1>10. CurrentInv'
  <2>1. Current(files, SetUp, Chars, nChars)
    BY <1>2, <1>3 DEF Current, HoldsText
  <2> QED
    BY <1>4, <1>5, <1>6, <2>1 DEF CurrentInv
<1>11. PlaceInv'
  <2>1. textPtr <= cBufP /\ cBufP \in 0 .. nChars
    BY <1>1
  <2> QED
    BY <1>1, <1>2, <1>4, <1>5, <1>7, <2>1 DEF PlaceInv
<1>12. TokenInv'
  BY DEF TokenInv, AtRule
<1> QED
  BY <1>2, <1>4, <1>7, <1>8, <1>9, <1>10, <1>11, <1>12 DEF ScanInv, OthersStay

(* The start conditions are those that exist.                              *)
LEMMA ConditionsAre ==
  ToSet(StartConditions) =
    {"INITIAL", "SINGLE_LINE_COMMENT", "MULTI_LINE_COMMENT", "STRING", "INCLUDE"}
  BY DEF ToSet, StartConditions

LEMMA ConditionType ==
  ASSUME NEW rule, NEW from \in ToSet(StartConditions)
  PROVE  ConditionAfter(rule, from) \in ToSet(StartConditions)
  BY ConditionsAre DEF ConditionAfter

LEMMA RunRuleKeeps ==
  ASSUME ScanInv, RunRule
  PROVE  /\ ScanInv' /\ OthersStay /\ Buf'.file = Buf.file
         /\ Base' + Begin' = Base + cBufP
<1>1. /\ AtRule /\ bufs' = SetBuf(SetUp) /\ UNCHANGED <<files, lists, cursor>> /\ pc' = "token"
      /\ condition' = ConditionAfter(act, condition)
  BY Zenon DEF RunRule
<1>2. condition' \in ToSet(StartConditions)
  BY <1>1, ConditionType DEF ScanInv, ScanTypes
<1> QED
  BY <1>1, <1>2, RuleKeeps

-----------------------------------------------------------------------------
(* Other files.                                                            *)

(* The buffers after one was loaded: the innermost waits no more.          *)
LEMMA LoadKeeps ==
  ASSUME files \in Disks, files' = files, NEW b, Waits(files, b), Load(b),
         bufs' \in Seq(Buffers), Len(bufs') > 0, bufs'[Len(bufs')] = b,
         \A i \in 1 .. Len(bufs') - 1 : Waits(files, bufs'[i]),
         lists' \in Seq(Seq(STRING)), Len(lists') = Len(bufs') - 1,
         condition' \in ToSet(StartConditions), pc' = "token"
  PROVE  ScanInv' /\ Buf' = b /\ Base' + Begin' = b.read - b.n + b.pos
<1>1. /\ nChars' = b.n /\ textPtr' = b.pos /\ cBufP' = b.pos /\ holdChar' = b.ch[b.pos]
  BY DEF Load
<1>2. /\ Current(files, b, b.ch, b.n) /\ b.pos \in 0 .. b.n
      /\ b.line = LineAt(files[b.file], b.read - b.n + b.pos)
      /\ b.bol = LineStart(files[b.file], b.read - b.n + b.pos)
  BY DEF Waits, Ready
<1>3. /\ BufferOK(b) /\ b \in Buffers /\ b.n \in Nat /\ b.pos \in Nat /\ b.size \in Nat
      /\ b.n <= b.size /\ b.ch \in [0 .. b.size + 1 -> Characters]
  <2>1. BufferOK(b) /\ HoldsText(files[b.file], b, b.ch, b.n)
    BY <1>2 DEF Current
  <2>2. b \in Buffers /\ b.ch \in [0 .. b.size + 1 -> Characters]
    BY <2>1 DEF BufferOK
  <2>3. b.n \in Nat /\ b.pos \in Nat /\ b.size \in Nat
    BY <2>2 DEF Buffers
  <2>4. b.n \in 0 .. b.size
    BY <2>1 DEF HoldsText
  <2>5. b.n <= b.size
    BY <2>3, <2>4
  <2> QED
    BY <2>1, <2>2, <2>3, <2>5
<1>4. Buf' = b
  BY DEF Buf, Last
<1>5. holdChar' \in Characters /\ Put(b.ch, b.pos, b.ch[b.pos]) = b.ch
  <2>1. b.pos \in 0 .. b.size + 1
    BY <1>2, <1>3
  <2> QED
    BY <1>1, <1>3, <2>1 DEF Put
<1>6. Chars' = b.ch
  BY <1>1, <1>5 DEF Chars, Restored
<1>7. CurText' = files[b.file] /\ Base' = b.read - b.n /\ Begin' = b.pos /\ Counted' = b.pos
  BY <1>1, <1>4 DEF CurText, Base, Begin, Counted, AtRule
<1>8. ScanTypes'
  BY <1>1, <1>3, <1>5 DEF ScanTypes
<1>9. WaitingInv'
  BY DEF WaitingInv
<1>10. CurrentInv'
  BY <1>1, <1>2, <1>4, <1>6 DEF CurrentInv
<1>11. PlaceInv'
  BY <1>1, <1>2, <1>3, <1>4, <1>7 DEF PlaceInv
<1>12. TokenInv'
  BY DEF TokenInv, AtRule
<1> QED
  BY <1>4, <1>7, <1>8, <1>9, <1>10, <1>11, <1>12 DEF ScanInv

(* Lines are counted from 1.                                               *)
LEMMA FirstLine ==
  ASSUME NEW text \in Seq(Characters)
  PROVE  LineAt(text, 0) = 1
<1>1. Len(SubSeq(text, 1, 0)) = 0 /\ SubSeq(text, 1, 0) \in Seq(Characters)
  <2>1. Len(text) \in Nat
    BY LenProperties
  <2> QED
    BY <2>1, PartOfIs DEF PartOf
<1>2. SubSeq(text, 1, 0) = <<>>
  BY <1>1, EmptySeq
<1>3. {i \in DOMAIN << >> : << >>[i] = Newline} = {}
  OBVIOUS
<1>4. Newlines(<<>>) = 0
  BY <1>3, FS_EmptySet DEF Newlines
<1>5. LineAt(text, 0) = 1 + Newlines(<<>>)
  BY <1>2, Zenon DEF LineAt
<1> QED
  BY <1>4, <1>5

(* A new buffer is ready for the first token of its file.                  *)
LEMMA CreatedIs ==
  ASSUME NEW fs \in Disks, NEW f \in DOMAIN fs, NEW b, b = Created(f)
  PROVE  /\ Waits(fs, b) /\ b \in Buffers /\ b.file = f /\ b.read = 0 /\ b.n = 0 /\ b.pos = 0
<1> DEFINE ch == [i \in 0 .. BufSize + 1 |-> Garbage]
           yes == TRUE
           new == "NEW"
           empty == [ch |-> ch, size |-> BufSize, n |-> 0, pos |-> 0, bol |-> yes, line |-> 1,
                     fill |-> yes, status |-> new, file |-> f, read |-> 0]
           cur == fs[f]
<1>1. BufSize \in Nat /\ BufSize > 0 /\ Garbage \in Characters
  BY SizeAssumption, GarbageAssumption
<1>2. ch \in [0 .. BufSize + 1 -> Characters]
  BY <1>1
<1>3. yes \in BOOLEAN /\ new \in {"NEW", "NORMAL", "EOF_PENDING"} /\ f \in STRING
  BY FilesAreTexts
<1>4. b = Flushed(empty)
  BY DEF Created
<1>5. cur \in Seq(Characters) /\ Len(cur) \in Nat
  BY FilesAreTexts
<1> HIDE DEF ch, yes, new, cur
<1>6. ch \in UNION {[0 .. k + 1 -> Characters] : k \in Nat}
  BY <1>1, <1>2
<1>7. empty \in Buffers
  BY <1>1, <1>3, <1>6 DEF Buffers
<1>8. /\ empty.ch = ch /\ empty.size = BufSize /\ empty.line = 1 /\ empty.fill = yes
      /\ empty.file = f /\ empty.read = 0
  OBVIOUS
<1> HIDE DEF empty
<1>9. BufferOK(empty)
  BY <1>1, <1>2, <1>7, <1>8 DEF BufferOK
<1>10. /\ BufferOK(b) /\ b.ch \in [0 .. BufSize + 1 -> Characters] /\ b.ch[0] = EOB /\ b.ch[1] = EOB
       /\ b.size = BufSize /\ b.n = 0 /\ b.pos = 0 /\ b.bol = TRUE /\ b.line = 1
       /\ b.fill = yes /\ b.status = "NEW" /\ b.file = f /\ b.read = 0
  BY <1>4, <1>8, <1>9, FlushedIs
<1>11. HoldsText(cur, b, b.ch, 0)
  <2>1. 0 \in 0 .. b.size /\ b.read \in 0 .. Len(cur) /\ b.ch[0 + 1] = EOB
    BY <1>1, <1>5, <1>10
  <2>2. \A p \in 0 .. 0 - 1 : b.ch[p] = cur[b.read - 0 + p + 1]
    OBVIOUS
  <2>3. ~(~b.fill \/ b.status = "EOF_PENDING")
    BY <1>10 DEF yes
  <2> QED
    BY <1>10, <2>1, <2>2, <2>3 DEF HoldsText
<1>12. Current(fs, b, b.ch, b.n)
  BY <1>10, <1>11 DEF Current, cur
<1>13. LineAt(cur, 0) = 1
  BY <1>5, FirstLine
<1>14. Waits(fs, b)
  <2>1. b.read - b.n + b.pos = 0 /\ b.pos \in 0 .. b.n
    BY <1>10
  <2>2. b.bol = LineStart(cur, 0)
    BY <1>10 DEF LineStart
  <2> QED
    BY <1>10, <1>12, <1>13, <2>1, <2>2 DEF Waits, Ready, cur
<1> QED
  BY <1>10, <1>14 DEF BufferOK

(* The buffer of a directive waits behind it.                              *)
LEMMA LeftIs ==
  ASSUME ScanInv, AtRule, NEW b, b = Left(SetUp)
  PROVE  /\ Waits(files, b) /\ b \in Buffers /\ b.file = Buf.file
         /\ b.read - b.n + b.pos = Base + cBufP
<1>1. /\ pc = "act" /\ cBufP \in textPtr + 1 .. nChars
      /\ textPtr \in Nat /\ cBufP \in Nat /\ nChars \in Nat
      /\ Buf.line = LineAt(CurText, Base + cBufP)
  BY RuleIs
<1>2. /\ BufferOK(SetUp) /\ SetUp \in Buffers /\ SetUp.ch = Buf.ch /\ SetUp.size = Buf.size
      /\ SetUp.n = Buf.n /\ SetUp.line = Buf.line /\ SetUp.fill = Buf.fill
      /\ SetUp.status = Buf.status /\ SetUp.file = Buf.file /\ SetUp.read = Buf.read
      /\ SetUp.bol = LineStart(CurText, Base + cBufP)
  BY SetUpIs
<1>3. /\ Buf.file \in DOMAIN files /\ HoldsText(CurText, Buf, Chars, nChars)
      /\ Base = Buf.read - nChars /\ Chars = Put(Buf.ch, cBufP, holdChar)
  BY <1>1, CurrentIs
<1>4. b = [SetUp EXCEPT !.ch = Chars, !.pos = cBufP, !.n = nChars]
  BY <1>2, <1>3 DEF Left, Buffers
<1>5. Chars \in [0 .. Buf.size + 1 -> Characters] /\ SetUp.size \in Nat
  BY <1>2, <1>3 DEF HoldsText, Buffers
<1>6. Chars \in UNION {[0 .. k + 1 -> Characters] : k \in Nat}
  BY <1>2, <1>5
<1>7. /\ b \in Buffers /\ b.ch = Chars /\ b.size = Buf.size /\ b.n = nChars /\ b.pos = cBufP
      /\ b.line = Buf.line /\ b.fill = Buf.fill /\ b.status = Buf.status /\ b.file = Buf.file
      /\ b.read = Buf.read /\ b.bol = LineStart(CurText, Base + cBufP)
  BY <1>1, <1>2, <1>4, <1>6 DEF Buffers
<1>8. BufferOK(b)
  BY <1>2, <1>5, <1>7 DEF BufferOK
<1>9. b.read - b.n + b.pos = Base + cBufP
  BY <1>3, <1>7
<1>10. files[b.file] = CurText
  BY <1>7 DEF CurText
<1>11. HoldsText(CurText, b, b.ch, b.n)
  BY <1>3, <1>7 DEF HoldsText
<1>12. Current(files, b, b.ch, b.n)
  BY <1>3, <1>7, <1>8, <1>10, <1>11 DEF Current
<1>13. b.pos \in 0 .. b.n
  BY <1>1, <1>7
<1>14. Waits(files, b)
  BY <1>1, <1>7, <1>9, <1>10, <1>12, <1>13 DEF Waits, Ready
<1> QED
  BY <1>7, <1>9, <1>14

(* What a directive does to the buffers: nothing when it fails or names no *)
(* file, else the file gets a buffer and the directive's buffer waits.     *)
Pushes(path) == CanInclude(path) /\ Included[path] # <<>>

LEMMA PushIncludeKeeps ==
  ASSUME ScanInv, PushInclude
  PROVE  /\ ScanInv'
         /\ ~Pushes(UpToNul(string)) =>
              /\ OthersStay /\ Buf'.file = Buf.file /\ Base' + Begin' = Base + cBufP
              /\ lists' = lists
         /\ Pushes(UpToNul(string)) =>
              /\ Len(bufs') = Len(bufs) + 1
              /\ \A i \in 1 .. Len(bufs) - 1 : bufs'[i] = bufs[i]
              /\ bufs'[Len(bufs)].file = Buf.file
              /\ bufs'[Len(bufs)].read - bufs'[Len(bufs)].n + bufs'[Len(bufs)].pos = Base + cBufP
              /\ lists' = Append(lists, Tail(Included[UpToNul(string)]))
              /\ Buf'.file = Head(Included[UpToNul(string)]) /\ Base' + Begin' = 0
<1> DEFINE path == UpToNul(string)
           incl == Included[path]
           left == Left(SetUp)
           b == Created(Head(incl))
           N == Len(bufs)
<1>1. /\ AtRule /\ act = 26 /\ files' = files
      /\ IF ~CanInclude(path)
         THEN bufs' = SetBuf(SetUp) /\ pc' = "failed" /\ UNCHANGED <<lists, condition, cursor>>
         ELSE /\ condition' = "INITIAL" /\ pc' = "token"
              /\ IF incl = <<>>
                 THEN bufs' = SetBuf(SetUp) /\ UNCHANGED <<lists, cursor>>
                 ELSE /\ bufs' = Append(SetBuf(left), b) /\ lists' = Append(lists, Tail(incl))
                      /\ Load(b)
  BY Zenon DEF PushInclude
<1>2. /\ files \in Disks /\ bufs \in Seq(Buffers) /\ N \in Nat /\ N > 0
      /\ lists \in Seq(Seq(STRING)) /\ Len(lists) = N - 1 /\ condition \in ToSet(StartConditions)
      /\ WaitingInv
  BY LenProperties DEF ScanInv, ScanTypes
<1>3. "INITIAL" \in ToSet(StartConditions)
  BY ConditionsAre
<1>4. Pushes(path) <=> CanInclude(path) /\ incl # <<>>
  BY DEF Pushes
<1> HIDE DEF path, incl, left, b, N
<1>5. CASE ~Pushes(path)
  <2>1. /\ bufs' = SetBuf(SetUp) /\ UNCHANGED <<files, lists, cursor>>
        /\ condition' \in ToSet(StartConditions) /\ pc' \in {"token", "failed"}
    BY <1>1, <1>2, <1>3, <1>4, <1>5
  <2>2. /\ ScanInv' /\ OthersStay /\ Buf'.file = Buf.file /\ Base' + Begin' = Base + cBufP
    BY <1>1, <2>1, RuleKeeps
  <2> QED
    BY <1>5, <2>1, <2>2 DEF path
<1>6. CASE Pushes(path)
  <2>1. /\ condition' = "INITIAL" /\ pc' = "token" /\ Load(b)
        /\ bufs' = Append(SetBuf(left), b) /\ lists' = Append(lists, Tail(incl))
    BY <1>1, <1>4, <1>6
  <2>2. /\ incl \in Seq(STRING) /\ incl # <<>> /\ Head(incl) \in DOMAIN files
        /\ Tail(incl) \in Seq(STRING)
    <3>1. incl \in Seq(STRING) /\ incl # <<>> /\ Head(incl) \in DOMAIN files
      BY <1>4, <1>6, IncludedAssumption DEF CanInclude, incl
    <3> QED
      BY <3>1, HeadTailProperties
  <2>3. /\ Waits(files, b) /\ b \in Buffers /\ b.file = Head(incl)
        /\ b.read = 0 /\ b.n = 0 /\ b.pos = 0
    BY <1>2, <2>2, CreatedIs DEF b
  <2>4. /\ Waits(files, left) /\ left \in Buffers /\ left.file = Buf.file
        /\ left.read - left.n + left.pos = Base + cBufP
    BY <1>1, LeftIs DEF left
  <2> DEFINE with == SetBuf(left)
  <2>5. /\ with \in Seq(Buffers) /\ Len(with) = N /\ with[N] = left
        /\ \A i \in 1 .. N - 1 : with[i] = bufs[i]
    <3>1. DOMAIN bufs = 1 .. N /\ N \in 1 .. N
      BY <1>2, LenProperties DEF N
    <3>2. with = [bufs EXCEPT ![N] = left]
      BY DEF SetBuf, N
    <3>3. with \in Seq(Buffers) /\ Len(with) = N
      BY <1>2, <2>4, <3>1, <3>2, ExceptSeq DEF N
    <3>4. \A i \in 1 .. N - 1 : i \in 1 .. N /\ i # N
      BY <1>2
    <3> HIDE DEF with
    <3> QED
      BY <3>1, <3>2, <3>3, <3>4
  <2> HIDE DEF with
  <2>6. bufs' = Append(with, b)
    BY <2>1 DEF with
  <2>7. /\ bufs' \in Seq(Buffers) /\ Len(bufs') = N + 1 /\ bufs'[N + 1] = b
        /\ \A i \in 1 .. N : bufs'[i] = with[i]
    BY <2>3, <2>5, <2>6, AppendProperties
  <2>8. /\ lists' \in Seq(Seq(STRING)) /\ Len(lists') = N
    BY <1>2, <2>1, <2>2, AppendProperties
  <2>9. \A i \in 1 .. N : i \in 1 .. N - 1 \/ i = N
    BY <1>2
  <2>10. \A i \in 1 .. N : Waits(files, bufs'[i])
    BY <1>2, <2>4, <2>5, <2>7, <2>9 DEF WaitingInv, N
  <2>11. N \in 1 .. N /\ (\A i \in 1 .. N - 1 : i \in 1 .. N) /\ N = (N + 1) - 1 /\ N + 1 > 0
    BY <1>2
  <2>12. /\ Len(bufs') > 0 /\ bufs'[Len(bufs')] = b /\ Len(lists') = Len(bufs') - 1
         /\ \A i \in 1 .. Len(bufs') - 1 : Waits(files, bufs'[i])
    BY <2>7, <2>8, <2>10, <2>11
  <2>13. condition' \in ToSet(StartConditions)
    BY <1>3, <2>1
  <2>14. ScanInv' /\ Buf' = b /\ Base' + Begin' = b.read - b.n + b.pos
    BY <1>1, <1>2, <2>1, <2>3, <2>7, <2>8, <2>12, <2>13, LoadKeeps
  <2>15. /\ Len(bufs') = N + 1 /\ \A i \in 1 .. N - 1 : bufs'[i] = bufs[i]
    BY <2>5, <2>7, <2>11
  <2>16. bufs'[N] = left
    BY <2>5, <2>7, <2>11
  <2>17. Buf'.file = Head(incl) /\ Base' + Begin' = 0
    BY <2>3, <2>14
  <2> QED
    BY <1>6, <2>1, <2>4, <2>14, <2>15, <2>16, <2>17 DEF path, incl, N
<1> QED
  BY <1>5, <1>6

(* The scanner stops at the end of a file.                                 *)
LEMMA StopKeeps ==
  ASSUME ScanInv, pc = "eof", pc' \in {"ended", "failed"},
         UNCHANGED <<files, bufs, lists, cursor, condition>>
  PROVE  ScanInv' /\ SamePlace
<1>1. /\ textPtr = cBufP /\ cBufP = nChars /\ holdChar = Buf.ch[cBufP] /\ Begin = textPtr
  BY DEF ScanInv, TokenInv, AtEndOfFile, Begin
<1>2. /\ files' = files /\ bufs' = bufs /\ lists' = lists /\ cBufP' = cBufP /\ textPtr' = textPtr
      /\ holdChar' = holdChar /\ nChars' = nChars /\ condition' = condition
  BY DEF cursor
<1>3. Buf' = Buf /\ CurText' = CurText /\ Base' = Base
  BY <1>2 DEF Buf, CurText, Base
<1>4. /\ Chars = Buf.ch /\ HoldsText(CurText, Buf, Chars, nChars)
  BY CurrentIs
<1>5. Put(Buf.ch, cBufP, holdChar) = Buf.ch
  <2>1. Buf.ch \in [0 .. Buf.size + 1 -> Characters]
    BY <1>4 DEF HoldsText
  <2> QED
    BY <1>1, <2>1 DEF Put
<1>6. Chars' = Chars
  <2>1. Chars' = IF pc' # "match" /\ pc' # "eof" THEN Put(Buf.ch, cBufP, holdChar) ELSE Buf.ch
    <3>1. Buf = bufs[Len(bufs)]
      BY DEF Buf, Last
    <3> QED
      BY <1>2, <3>1 DEF Chars, Restored
  <2> QED
    BY <1>4, <1>5, <2>1
<1>7. /\ Begin' = textPtr /\ Counted' = textPtr /\ Counted = textPtr
  BY <1>1, <1>2 DEF Begin, Counted, AtRule
<1>8. ScanTypes'
  BY <1>2 DEF ScanInv, ScanTypes
<1>9. WaitingInv'
  BY <1>2 DEF ScanInv, WaitingInv
<1>10. CurrentInv'
  BY <1>2, <1>3, <1>6 DEF ScanInv, CurrentInv
<1>11. PlaceInv'
  BY <1>1, <1>2, <1>3, <1>7 DEF ScanInv, PlaceInv
<1>12. TokenInv'
  BY <1>1, <1>2 DEF TokenInv, AtRule
<1> QED
  BY <1>1, <1>2, <1>3, <1>7, <1>8, <1>9, <1>10, <1>11, <1>12 DEF ScanInv, SamePlace, OthersStay

(* The sequence without its last element.                                  *)
LEMMA FrontIs ==
  ASSUME NEW S, NEW s \in Seq(S), Len(s) > 0
  PROVE  /\ Front(s) \in Seq(S) /\ Len(Front(s)) = Len(s) - 1
         /\ \A i \in 1 .. Len(s) - 1 : Front(s)[i] = s[i]
<1>1. Len(s) \in Nat /\ \A i \in 1 .. Len(s) : s[i] \in S
  BY LenProperties, ElementOfSeq
<1>2. 1 \in Int /\ Len(s) - 1 \in Int /\ 1 <= (Len(s) - 1) + 1 /\ (\A i \in 1 .. Len(s) - 1 : s[i] \in S)
      /\ (Len(s) - 1) - 1 + 1 = Len(s) - 1 /\ \A i \in 1 .. Len(s) - 1 : 1 + i - 1 = i
  BY <1>1
<1> DEFINE q == SubSeq(s, 1, Len(s) - 1)
<1>3. /\ q \in Seq(S) /\ Len(q) = (Len(s) - 1) - 1 + 1
      /\ \A i \in 1 .. (Len(s) - 1) - 1 + 1 : q[i] = s[1 + i - 1]
  BY <1>2, SubSeqProperties
<1> HIDE DEF q
<1>4. q \in Seq(S) /\ Len(q) = Len(s) - 1 /\ \A i \in 1 .. Len(s) - 1 : q[i] = s[i]
  BY <1>2, <1>3
<1> QED
  BY <1>4 DEF q, Front

(* The next file of a list takes the place of the one that ended.          *)
LEMMA NextFileKeeps ==
  ASSUME ScanInv, NextFile
  PROVE  /\ ScanInv' /\ OthersStay
         /\ Head(Last(lists)) \in DOMAIN files =>
              /\ Buf'.file = Head(Last(lists)) /\ Base' + Begin' = 0
              /\ lists' = [lists EXCEPT ![Len(lists)] = Tail(@)] /\ pc' = "token"
         /\ Head(Last(lists)) \notin DOMAIN files => bufs' = bufs /\ lists' = lists /\ pc' = "failed"
<1> DEFINE rest == Last(lists)
           N == Len(bufs)
           b == Created(Head(rest))
<1>1. /\ pc = "eof" /\ lists # <<>> /\ rest # <<>> /\ files' = files /\ condition' = condition
      /\ IF Head(rest) \in DOMAIN files
         THEN /\ bufs' = SetBuf(b) /\ Load(b)
              /\ lists' = [lists EXCEPT ![Len(lists)] = Tail(@)] /\ pc' = "token"
         ELSE pc' = "failed" /\ UNCHANGED <<bufs, lists, cursor>>
  BY Zenon DEF NextFile
<1>2. /\ files \in Disks /\ bufs \in Seq(Buffers) /\ N \in Nat /\ N > 0
      /\ lists \in Seq(Seq(STRING)) /\ Len(lists) = N - 1 /\ condition \in ToSet(StartConditions)
      /\ WaitingInv /\ ScanTypes
  BY LenProperties DEF ScanInv, ScanTypes
<1>3. N - 1 \in 1 .. N - 1 /\ Len(lists) = N - 1
  <2>1. Len(lists) # 0
    BY <1>1, <1>2, EmptySeq
  <2> QED
    BY <1>2, <2>1
<1>4. rest = lists[Len(lists)] /\ rest \in Seq(STRING)
  <2>1. lists[N - 1] \in Seq(STRING)
    BY <1>2, <1>3, ElementOfSeq
  <2> QED
    BY <1>3, <2>1 DEF Last
<1> HIDE DEF rest, b, N
<1>5. CASE Head(rest) \in DOMAIN files
  <2>1. /\ bufs' = SetBuf(b) /\ Load(b) /\ pc' = "token"
        /\ lists' = [lists EXCEPT ![Len(lists)] = Tail(@)]
    BY <1>1, <1>5
  <2>2. /\ Waits(files, b) /\ b \in Buffers /\ b.file = Head(rest)
        /\ b.read = 0 /\ b.n = 0 /\ b.pos = 0
    BY <1>2, <1>5, CreatedIs DEF b
  <2>3. /\ bufs' \in Seq(Buffers) /\ Len(bufs') = N /\ bufs'[N] = b
        /\ \A i \in 1 .. N - 1 : bufs'[i] = bufs[i]
    BY <1>2, <2>1, <2>2, SetBufIs DEF N
  <2>4. lists' \in Seq(Seq(STRING)) /\ Len(lists') = N - 1
    <3>1. Tail(rest) \in Seq(STRING)
      BY <1>1, <1>4, HeadTailProperties
    <3>2. lists' = [lists EXCEPT ![N - 1] = Tail(rest)]
      BY <1>3, <1>4, <2>1
    <3>3. N - 1 \in 1 .. Len(lists)
      BY <1>3
    <3> QED
      BY <1>2, <1>3, <3>1, <3>2, <3>3, ExceptSeq
  <2>5. \A i \in 1 .. N - 1 : Waits(files, bufs'[i])
    BY <1>2, <2>3 DEF WaitingInv, N
  <2>6. /\ Len(bufs') > 0 /\ bufs'[Len(bufs')] = b /\ Len(lists') = Len(bufs') - 1
        /\ \A i \in 1 .. Len(bufs') - 1 : Waits(files, bufs'[i])
    BY <1>2, <2>3, <2>4, <2>5
  <2>7. ScanInv' /\ Buf' = b /\ Base' + Begin' = b.read - b.n + b.pos
    BY <1>1, <1>2, <2>1, <2>2, <2>3, <2>4, <2>6, LoadKeeps
  <2>8. Buf'.file = Head(rest) /\ Base' + Begin' = 0
    BY <2>2, <2>7
  <2>9. OthersStay
    BY <2>3 DEF OthersStay, N
  <2> QED
    BY <1>5, <2>1, <2>7, <2>8, <2>9 DEF rest
<1>6. CASE Head(rest) \notin DOMAIN files
  <2>1. /\ pc' = "failed" /\ bufs' = bufs /\ lists' = lists /\ cBufP' = cBufP /\ textPtr' = textPtr
        /\ holdChar' = holdChar /\ nChars' = nChars
    BY <1>1, <1>6 DEF cursor
  <2>2. ScanInv' /\ OthersStay
    BY <1>1, <2>1, StopKeeps DEF SamePlace, cursor
  <2> QED
    BY <1>6, <2>1, <2>2 DEF rest
<1> QED
  BY <1>5, <1>6

(* Back to the buffer of the directive, where it was left.                 *)
LEMMA PopIncludeKeeps ==
  ASSUME ScanInv, PopInclude
  PROVE  /\ ScanInv' /\ Len(bufs) > 1 /\ Len(bufs') = Len(bufs) - 1
         /\ \A i \in 1 .. Len(bufs) - 2 : bufs'[i] = bufs[i]
         /\ Buf' = bufs[Len(bufs) - 1] /\ Base' + Begin' = Buf'.read - Buf'.n + Buf'.pos
         /\ lists' = Front(lists)
<1> DEFINE N == Len(bufs)
           b == bufs[N - 1]
<1>1. /\ pc = "eof" /\ lists # <<>> /\ files' = files /\ condition' = condition
      /\ bufs' = Front(bufs) /\ lists' = Front(lists) /\ Load(Last(bufs')) /\ pc' = "token"
  BY Zenon DEF PopInclude
<1>2. /\ files \in Disks /\ bufs \in Seq(Buffers) /\ N \in Nat /\ N > 0
      /\ lists \in Seq(Seq(STRING)) /\ Len(lists) = N - 1 /\ condition \in ToSet(StartConditions)
      /\ WaitingInv
  BY LenProperties DEF ScanInv, ScanTypes
<1>3. N > 1 /\ N - 1 \in 1 .. N - 1
  <2>1. Len(lists) # 0
    BY <1>1, <1>2, EmptySeq
  <2> QED
    BY <1>2, <2>1
<1> HIDE DEF N
<1>4. /\ bufs' \in Seq(Buffers) /\ Len(bufs') = N - 1 /\ \A i \in 1 .. N - 1 : bufs'[i] = bufs[i]
  BY <1>1, <1>2, FrontIs DEF N
<1>5. /\ lists' \in Seq(Seq(STRING)) /\ Len(lists') = (N - 1) - 1
  <2>1. Len(lists) > 0
    BY <1>2, <1>3
  <2> QED
    BY <1>1, <1>2, <2>1, FrontIs
<1>6. bufs'[N - 1] = b /\ Last(bufs') = b
  BY <1>3, <1>4 DEF Last
<1>7. \A i \in 1 .. N - 1 : Waits(files, bufs[i])
  BY <1>2 DEF WaitingInv, N
<1>8. \A i \in 1 .. N - 2 : i \in 1 .. N - 1
  BY <1>2
<1>9. \A i \in 1 .. (N - 1) - 1 : i \in 1 .. N - 1
  BY <1>2
<1>10. Waits(files, b) /\ Load(b)
  BY <1>1, <1>3, <1>6, <1>7
<1> HIDE DEF b
<1>11. /\ Len(bufs') > 0 /\ bufs'[Len(bufs')] = b /\ Len(lists') = Len(bufs') - 1
       /\ \A i \in 1 .. Len(bufs') - 1 : Waits(files, bufs'[i])
  <2>1. Len(bufs') > 0 /\ bufs'[Len(bufs')] = b /\ Len(lists') = Len(bufs') - 1
    BY <1>2, <1>3, <1>4, <1>5, <1>6
  <2>2. \A i \in 1 .. (N - 1) - 1 : Waits(files, bufs'[i])
    BY <1>4, <1>7, <1>9
  <2> QED
    BY <1>4, <2>1, <2>2
<1>12. ScanInv' /\ Buf' = b /\ Base' + Begin' = b.read - b.n + b.pos
  BY <1>1, <1>2, <1>4, <1>5, <1>10, <1>11, LoadKeeps
<1> QED
  BY <1>1, <1>3, <1>4, <1>8, <1>12 DEF b, N

LEMMA TerminateKeeps ==
  ASSUME ScanInv, Terminate
  PROVE  ScanInv' /\ SamePlace
<1>1. pc = "eof" /\ pc' = "ended" /\ UNCHANGED <<files, bufs, lists, cursor, condition>>
  BY DEF Terminate
<1> QED
  BY <1>1, StopKeeps

LEMMA StutterKeeps ==
  ASSUME ScanInv, UNCHANGED vars
  PROVE  ScanInv'
<1>1. /\ files' = files /\ bufs' = bufs /\ lists' = lists /\ cBufP' = cBufP /\ textPtr' = textPtr
      /\ holdChar' = holdChar /\ nChars' = nChars /\ condition' = condition /\ pc' = pc /\ act' = act
      /\ state' = state /\ lastAccepting' = lastAccepting
  BY DEF vars, cursor
<1>2. Buf' = Buf /\ CurText' = CurText /\ Base' = Base /\ Chars' = Chars /\ AtRule' = AtRule
  BY <1>1 DEF Buf, CurText, Base, Chars, Restored, AtRule
<1>3. Begin' = Begin /\ Counted' = Counted /\ TokenWay' = TokenWay
  BY <1>1, <1>2 DEF Begin, Counted, TokenWay
<1>4. ScanTypes' /\ WaitingInv' /\ CurrentInv' /\ PlaceInv'
  BY <1>1, <1>2, <1>3 DEF ScanInv, ScanTypes, WaitingInv, CurrentInv, PlaceInv
<1>5. TokenInv'
  BY <1>1, <1>2, <1>3
     DEF ScanInv, TokenInv, Matching, FoundTheEnd, FoundNothing, FoundRule, AtEndOfFile
<1> QED
  BY <1>4, <1>5 DEF ScanInv

(* A string is a buffer that holds the whole of its text.                  *)
LEMMA ScanStringIs ==
  ASSUME NEW fs \in Disks, NEW b, b = ScanString(fs["main"])
  PROVE  Waits(fs, b) /\ b \in Buffers /\ b.read - b.n + b.pos = 0 /\ b.pos = 0 /\ b.file = "main"
<1> DEFINE text == fs["main"]
           n == Len(text)
           ch == [i \in 0 .. n + 1 |-> IF i < n THEN text[i + 1] ELSE EOB]
           yes == TRUE
           no == FALSE
           new == "NEW"
<1>1. text \in Seq(Characters) /\ n \in Nat /\ "main" \in DOMAIN fs /\ "main" \in STRING
  <2>1. "main" \in DOMAIN fs
    BY DiskAssumption
  <2> QED
    BY <2>1, FilesAreTexts
<1>2. \A p \in 1 .. n : text[p] \in Characters
  BY <1>1, ElementOfSeq
<1>3. b = [ch |-> ch, size |-> n, n |-> n, pos |-> 0, bol |-> yes, line |-> 1, fill |-> no,
           status |-> new, file |-> "main", read |-> n]
  BY DEF ScanString
<1> HIDE DEF text, n
<1>4. ch \in [0 .. n + 1 -> Characters]
  <2>1. EOB \in Characters
    BY DEF EOB, Characters
  <2>2. \A i \in 0 .. n + 1 : i < n => i + 1 \in 1 .. n
    BY <1>1
  <2> QED
    BY <1>2, <2>1, <2>2
<1>5. ch[n] = EOB /\ ch[n + 1] = EOB /\ \A p \in 0 .. n - 1 : ch[p] = text[p + 1]
  <2>1. /\ n \in 0 .. n + 1 /\ n + 1 \in 0 .. n + 1 /\ ~(n < n) /\ ~(n + 1 < n)
        /\ \A p \in 0 .. n - 1 : p \in 0 .. n + 1 /\ p < n
    BY <1>1
  <2> QED
    BY <2>1
<1>6. yes \in BOOLEAN /\ no \in BOOLEAN /\ new \in {"NEW", "NORMAL", "EOF_PENDING"} /\ ~no
  OBVIOUS
<1>7. yes = LineStart(text, 0)
  BY DEF LineStart
<1>8. ch \in UNION {[0 .. k + 1 -> Characters] : k \in Nat}
  BY <1>1, <1>4
<1> HIDE DEF ch, yes, no
<1>9. b \in Buffers
  <2> HIDE DEF new
  <2> QED
    BY <1>1, <1>3, <1>6, <1>8 DEF Buffers
<1>10. /\ b.ch = ch /\ b.size = n /\ b.n = n /\ b.pos = 0 /\ b.bol = yes /\ b.line = 1
       /\ b.fill = no /\ b.status = "NEW" /\ b.file = "main" /\ b.read = n
  BY <1>3
<1>11. BufferOK(b)
  BY <1>4, <1>6, <1>9, <1>10 DEF BufferOK
<1>12. HoldsText(text, b, b.ch, n)
  <2>1. n \in 0 .. b.size /\ b.read \in n .. Len(text) /\ b.read = Len(text) /\ b.read - n = 0
    BY <1>1, <1>10 DEF n
  <2>2. \A p \in 0 .. n - 1 : b.read - n + p + 1 = p + 1
    BY <2>1
  <2>3. \A p \in 0 .. n - 1 : b.ch[p] = text[b.read - n + p + 1]
    BY <1>5, <1>10, <2>2
  <2> QED
    BY <1>4, <1>5, <1>10, <2>1, <2>3 DEF HoldsText
<1>13. Current(fs, b, b.ch, b.n)
  BY <1>1, <1>10, <1>11, <1>12 DEF Current, text
<1>14. LineAt(text, 0) = 1
  BY <1>1, FirstLine
<1>15. b.read - b.n + b.pos = 0 /\ b.pos \in 0 .. b.n
  BY <1>1, <1>10
<1>16. Waits(fs, b)
  BY <1>7, <1>10, <1>13, <1>14, <1>15 DEF Waits, Ready, text
<1> QED
  BY <1>9, <1>10, <1>15, <1>16

LEMMA InitHolds ==
  ASSUME Init
  PROVE  ScanInv /\ Base + Begin = 0 /\ Len(bufs) = 1 /\ Buf.file = "main"
<1>1. /\ files \in Disks /\ lists = <<>>
      /\ nChars = Buf.n /\ textPtr = 0 /\ cBufP = 0 /\ holdChar = Buf.ch[0]
      /\ condition = "INITIAL" /\ pc = "token"
      /\ bufs = <<Created("main")>> \/ bufs = <<ScanString(files["main"])>>
  BY DEF Init
<1>2. PICK b : bufs = <<b>> /\ (b = Created("main") \/ b = ScanString(files["main"]))
  BY <1>1
<1>3. /\ Waits(files, b) /\ b \in Buffers /\ b.read - b.n + b.pos = 0 /\ b.pos = 0 /\ b.file = "main"
  <2>1. CASE b = Created("main")
    <3>1. "main" \in DOMAIN files
      BY <1>1, DiskAssumption
    <3> QED
      BY <1>1, <2>1, <3>1, CreatedIs
  <2>2. CASE b = ScanString(files["main"])
    BY <1>1, <2>2, ScanStringIs
  <2> QED
    BY <1>2, <2>1, <2>2
<1>4. bufs \in Seq(Buffers) /\ Len(bufs) = 1 /\ bufs[1] = b /\ Buf = b
  BY <1>2, <1>3 DEF Buf, Last
<1>5. lists \in Seq(Seq(STRING)) /\ Len(lists) = Len(bufs) - 1
  BY <1>1, <1>4, EmptySeq
<1>6. /\ Current(files, b, b.ch, b.n) /\ b.pos \in 0 .. b.n
      /\ b.line = LineAt(files[b.file], b.read - b.n + b.pos)
      /\ b.bol = LineStart(files[b.file], b.read - b.n + b.pos)
  BY <1>3 DEF Waits, Ready
<1>7. b.n \in Nat /\ b.ch \in [0 .. b.size + 1 -> Characters] /\ b.size \in Nat
  BY <1>3, <1>6 DEF Current, BufferOK, Buffers
<1>8. holdChar \in Characters /\ Put(Buf.ch, 0, Buf.ch[0]) = b.ch
  <2>1. 0 \in 0 .. b.size + 1
    BY <1>7
  <2> QED
    BY <1>1, <1>4, <1>7, <2>1 DEF Put
<1>9. Chars = b.ch
  BY <1>1, <1>4, <1>8 DEF Chars, Restored
<1>10. CurText = files[b.file] /\ Base = b.read - b.n /\ Begin = 0 /\ Counted = 0
  BY <1>1, <1>4 DEF CurText, Base, Begin, Counted, AtRule
<1>11. ScanTypes
  BY <1>1, <1>4, <1>5, <1>7, <1>8, ConditionsAre DEF ScanTypes
<1>12. WaitingInv
  BY <1>4 DEF WaitingInv
<1>13. CurrentInv
  BY <1>1, <1>4, <1>6, <1>9 DEF CurrentInv
<1>14. PlaceInv
  BY <1>1, <1>3, <1>4, <1>6, <1>10 DEF PlaceInv
<1>15. TokenInv
  BY <1>1 DEF TokenInv, AtRule
<1> QED
  BY <1>3, <1>4, <1>10, <1>11, <1>12, <1>13, <1>14, <1>15 DEF ScanInv

-----------------------------------------------------------------------------
(* The invariant of the scanner.                                           *)

LEMMA ScanStep ==
  ASSUME ScanInv, [Next]_vars
  PROVE  ScanInv'
<1>1. CASE BeginToken
  BY <1>1, BeginTokenKeeps
<1>2. CASE ContinueToken
  BY <1>2, ContinueTokenKeeps
<1>3. CASE BackUp
  BY <1>3, BackUpKeeps
<1>4. CASE NulInText
  BY <1>4, NulInTextKeeps
<1>5. CASE EndOfString
  BY <1>5, EndOfStringKeeps
<1>6. CASE ReadMore
  BY <1>6, ReadMoreKeeps
<1>7. CASE RunRule
  BY <1>7, RunRuleKeeps
<1>8. CASE PushInclude
  BY <1>8, PushIncludeKeeps
<1>9. CASE NextFile
  BY <1>9, NextFileKeeps
<1>10. CASE PopInclude
  BY <1>10, PopIncludeKeeps
<1>11. CASE Terminate
  BY <1>11, TerminateKeeps
<1>12. CASE UNCHANGED vars
  BY <1>12, StutterKeeps
<1> QED
  BY <1>1, <1>2, <1>3, <1>4, <1>5, <1>6, <1>7, <1>8, <1>9, <1>10, <1>11, <1>12, Zenon DEF Next

(* At every point of a scan the current buffer and those that wait hold    *)
(* the part of their file that was read last, know their line and its      *)
(* beginning, and the automaton is where the longest match needs it.       *)
THEOREM ScanInvariant == Spec => []ScanInv
<1>1. Init => ScanInv
  BY InitHolds
<1>2. ScanInv /\ [Next]_vars => ScanInv'
  BY ScanStep
<1> QED
  BY <1>1, <1>2, PTL DEF Spec

(* The characters of a buffer are the part of its file that was read last. *)
LEMMA HeldText ==
  ASSUME NEW text \in Seq(Characters), NEW b, BufferOK(b), NEW ch, NEW n, HoldsText(text, b, ch, n)
  PROVE  Between(ch, 0, n - 1) = SubSeq(text, b.read - n + 1, b.read)
<1> DEFINE base == b.read - n
           room == b.size
           z == 0
<1>1. /\ IsPart(ch, room, n, text, base) /\ base \in Nat /\ n \in Nat /\ base + n = b.read
  BY PartIs
<1>2. base + z + 1 = base + 1
  BY <1>1
<1>3. Within(z, n, n)
  BY <1>1 DEF Within
<1> HIDE DEF base, room, z
<1>4. Between(ch, z, n - 1) = SubSeq(text, base + z + 1, base + n)
  <2>1. IsPart(ch, room, n, text, base) /\ text \in Seq(Characters)
    BY <1>1
  <2> QED
    BY <1>3, <2>1, TokenIsPart
<1> QED
  BY <1>1, <1>2, <1>4 DEF base, z

(* The characters in each buffer, and how many of its file were used.      *)
LEMMA UsedIs ==
  ASSUME ScanInv
  PROVE  /\ CharsIn(Len(bufs)) = nChars /\ Used(Len(bufs)) = Base + Begin
         /\ \A i \in 1 .. Len(bufs) - 1 :
              /\ CharsIn(i) = bufs[i].n /\ Restored(i) = bufs[i].ch
              /\ Used(i) = bufs[i].read - bufs[i].n + bufs[i].pos
<1> DEFINE N == Len(bufs)
<1>1. /\ Buf = bufs[N] /\ N \in Nat /\ \A i \in 1 .. N - 1 : i < N /\ i # N
  BY BufIs DEF ScanInv, ScanTypes
<1>2. Buf.status = "NEW" => nChars = Buf.n
  BY DEF ScanInv, CurrentInv, Current
<1>3. ~(N < N)
  BY <1>1
<1> HIDE DEF N
<1>4. CharsIn(N) = nChars
  BY <1>1, <1>2, <1>3 DEF CharsIn, N
<1>5. Used(N) = Base + Begin
  BY <1>1, <1>3, <1>4 DEF Used, Base, Begin, N
<1>6. \A i \in 1 .. N - 1 :
        /\ CharsIn(i) = bufs[i].n /\ Restored(i) = bufs[i].ch
        /\ Used(i) = bufs[i].read - bufs[i].n + bufs[i].pos
  BY <1>1 DEF CharsIn, Restored, Used, N
<1> QED
  BY <1>4, <1>5, <1>6 DEF N

(* What BuffersAreSound says of one buffer.                                *)
LEMMA WaitingIsSound ==
  ASSUME ScanInv, NEW i \in 1 .. Len(bufs) - 1
  PROVE  LET b == bufs[i]
         IN /\ DOMAIN b.ch = 0 .. b.size + 1 /\ CharsIn(i) <= b.size
            /\ Restored(i)[CharsIn(i)] = EOB /\ Restored(i)[CharsIn(i) + 1] = EOB
            /\ Between(Restored(i), 0, CharsIn(i) - 1) =
                 SubSeq(files[b.file], b.read - CharsIn(i) + 1, b.read)
            /\ b.line = LineAt(files[b.file], Used(i)) /\ Used(i) \in Int
<1> DEFINE b == bufs[i]
<1>1. /\ CharsIn(i) = b.n /\ Restored(i) = b.ch /\ Used(i) = b.read - b.n + b.pos
  BY UsedIs
<1>2. Waits(files, b)
  BY DEF ScanInv, WaitingInv
<1> HIDE DEF b
<1>3. /\ BufferOK(b) /\ b.file \in DOMAIN files /\ HoldsText(files[b.file], b, b.ch, b.n)
      /\ b.line = LineAt(files[b.file], b.read - b.n + b.pos)
  BY <1>2 DEF Waits, Ready, Current
<1>4. files[b.file] \in Seq(Characters)
  BY <1>3, FilesAreTexts DEF ScanInv, ScanTypes
<1>5. Between(b.ch, 0, b.n - 1) = SubSeq(files[b.file], b.read - b.n + 1, b.read)
  BY <1>3, <1>4, HeldText
<1>6. /\ DOMAIN b.ch = 0 .. b.size + 1 /\ b.n <= b.size /\ b.ch[b.n] = EOB /\ b.ch[b.n + 1] = EOB
  <2>1. b.size \in Nat /\ b.n \in 0 .. b.size
    BY <1>3 DEF BufferOK, Buffers, HoldsText
  <2>2. b.n <= b.size
    BY <2>1
  <2> QED
    BY <1>3, <2>2 DEF BufferOK, HoldsText
<1>7. Used(i) \in Int
  <2>1. b.read \in Nat /\ b.n \in Nat /\ b.pos \in Nat
    BY <1>3 DEF BufferOK, Buffers
  <2> QED
    BY <1>1, <2>1
<1> QED
  BY <1>1, <1>3, <1>5, <1>6, <1>7, Zenon DEF b

LEMMA CurrentIsSound ==
  ASSUME ScanInv, NEW i, i = Len(bufs)
  PROVE  LET b == bufs[i]
         IN /\ DOMAIN b.ch = 0 .. b.size + 1 /\ CharsIn(i) <= b.size
            /\ Restored(i)[CharsIn(i)] = EOB /\ Restored(i)[CharsIn(i) + 1] = EOB
            /\ Between(Restored(i), 0, CharsIn(i) - 1) =
                 SubSeq(files[b.file], b.read - CharsIn(i) + 1, b.read)
            /\ b.line = LineAt(files[b.file], Used(i) + IF AtRule THEN cBufP - textPtr ELSE 0)
<1> DEFINE b == bufs[i]
           n == nChars
<1>1. /\ CharsIn(i) = n /\ Restored(i) = Chars /\ Used(i) = Base + Begin
  BY UsedIs DEF Chars
<1>2. b = Buf
  BY BufIs DEF ScanInv, ScanTypes
<1> HIDE DEF b, n
<1>3. /\ BufferOK(b) /\ HoldsText(CurText, b, Chars, n) /\ CurText = files[b.file]
      /\ CurText \in Seq(Characters) /\ Base \in Nat
  BY <1>2, CurrentIs DEF CurText, n
<1>4. Between(Chars, 0, n - 1) = SubSeq(files[b.file], b.read - n + 1, b.read)
  BY <1>3, HeldText
<1>5. /\ DOMAIN b.ch = 0 .. b.size + 1 /\ n <= b.size /\ Chars[n] = EOB /\ Chars[n + 1] = EOB
  <2>1. b.size \in Nat /\ n \in 0 .. b.size
    BY <1>3 DEF BufferOK, Buffers, HoldsText
  <2>2. n <= b.size
    BY <2>1
  <2> QED
    BY <1>3, <2>2 DEF BufferOK, HoldsText
<1>6. b.line = LineAt(files[b.file], Used(i) + IF AtRule THEN cBufP - textPtr ELSE 0)
  <2>1. b.line = LineAt(CurText, Base + Counted)
    BY <1>2 DEF ScanInv, PlaceInv
  <2>2. Base + Counted = Used(i) + IF AtRule THEN cBufP - textPtr ELSE 0
    <3>1. cBufP \in Nat /\ textPtr \in Nat /\ Begin \in Nat
      BY DEF ScanInv, ScanTypes, Begin
    <3>2. AtRule => Begin = textPtr
      BY DEF AtRule, Begin
    <3> QED
      BY <1>1, <1>3, <3>1, <3>2 DEF Counted
  <2> QED
    BY <1>3, <2>1, <2>2
<1> QED
  BY <1>1, <1>4, <1>5, <1>6, Zenon DEF b

(* The cursor is never behind the two characters that end the buffer.      *)
LEMMA CursorIsSound ==
  ASSUME ScanInv
  PROVE  textPtr <= cBufP /\ cBufP <= nChars + 1
<1>1. /\ cBufP \in Nat /\ textPtr \in Nat /\ nChars \in Nat /\ textPtr <= cBufP /\ Begin \in 0 .. nChars
      /\ pc \in {"token", "match", "act", "eof", "ended", "failed"} /\ TokenInv
  BY DEF ScanInv, ScanTypes, PlaceInv
<1>2. CASE pc \in {"token", "failed"}
  BY <1>1, <1>2 DEF Begin
<1>3. CASE pc = "match"
  BY <1>1, <1>3 DEF TokenInv, Matching
<1>4. CASE pc = "act"
  BY <1>1, <1>4 DEF TokenInv, FoundTheEnd, FoundNothing, FoundRule, AtRule
<1>5. CASE pc = "eof"
  BY <1>1, <1>5 DEF TokenInv, AtEndOfFile
<1>6. CASE pc = "ended"
  BY <1>1, <1>6 DEF TokenInv, Begin
<1> QED
  BY <1>1, <1>2, <1>3, <1>4, <1>5, <1>6

(* Buffers end with two characters 0 in their memory, where the matching   *)
(* loop stops; they hold the part of their file that was read last, whatever*)
(* was moved, grown, refilled or left for an included file; and the line of*)
(* each is that of its file (yy_get_next_buffer(), yy_switch_to_buffer() and*)
(* YY_DO_BEFORE_ACTION in lib/scanner.c).                                  *)
THEOREM BuffersSound == Spec => []BuffersAreSound
<1>1. ScanInv => BuffersAreSound
  <2> SUFFICES ASSUME ScanInv PROVE BuffersAreSound
    OBVIOUS
  <2> DEFINE N == Len(bufs)
  <2>1. DOMAIN bufs = 1 .. N /\ N \in Nat /\ \A i \in 1 .. N : i = N \/ (i \in 1 .. N - 1 /\ i # N)
    BY BufIs DEF ScanInv, ScanTypes
  <2>2. ASSUME NEW i \in 1 .. N
        PROVE  LET b == bufs[i]
               IN /\ DOMAIN b.ch = 0 .. b.size + 1 /\ CharsIn(i) <= b.size
                  /\ Restored(i)[CharsIn(i)] = EOB /\ Restored(i)[CharsIn(i) + 1] = EOB
                  /\ Between(Restored(i), 0, CharsIn(i) - 1) =
                       SubSeq(files[b.file], b.read - CharsIn(i) + 1, b.read)
    BY <2>1, CurrentIsSound, WaitingIsSound, Zenon
  <2>3. BuffersEnd
    <3>1. textPtr <= cBufP /\ cBufP <= CharsIn(Len(bufs)) + 1
      BY CursorIsSound, UsedIs
    <3> QED
      BY <2>1, <2>2, <3>1, Zenon DEF BuffersEnd
  <2>4. BuffersHoldTheText
    BY <2>1, <2>2, Zenon DEF BuffersHoldTheText
  <2>5. LinesAreCounted
    <3> SUFFICES ASSUME NEW i \in 1 .. N
                 PROVE  LET token == IF i = N /\ AtRule THEN cBufP - textPtr ELSE 0
                        IN bufs[i].line = LineAt(files[bufs[i].file], Used(i) + token)
      BY <2>1, Zenon DEF LinesAreCounted, LineAt
    <3>1. CASE i = N
      BY <3>1, CurrentIsSound
    <3>2. CASE i \in 1 .. N - 1 /\ i # N
      <4>1. bufs[i].line = LineAt(files[bufs[i].file], Used(i))
        BY <3>2, WaitingIsSound
      <4>2. Used(i) + 0 = Used(i)
        BY <3>2, WaitingIsSound
      <4> QED
        BY <3>2, <4>1, <4>2
    <3> QED
      BY <2>1, <3>1, <3>2
  <2> QED
    BY <2>3, <2>4, <2>5 DEF BuffersAreSound
<1> QED
  BY <1>1, ScanInvariant, PTL

-----------------------------------------------------------------------------
(* The scanner implements Lexer.                                           *)

(* A file that is read, and what follows it in its list.                   *)
Seg(f, at, next) == [file |-> f, at |-> at, next |-> next]
NextIn(ls, i) == IF i = 1 THEN <<>> ELSE ls[i - 1]
Segs == [i \in DOMAIN bufs |-> Seg(bufs[i].file, Used(i) + 1, NextIn(lists, i))]
(* The last of N first.                                                    *)
Opened(N, s) == [k \in 1 .. N |-> s[N + 1 - k]]

LEMMA OpenedIs ==
  ASSUME NEW N \in Nat, N > 0, NEW s
  PROVE  /\ Head(Opened(N, s)) = s[N] /\ Len(Opened(N, s)) = N /\ Opened(N, s) # <<>>
         /\ Opened(N, s) = <<s[N]>> \o Opened(N - 1, s)
         /\ Tail(Opened(N, s)) = Opened(N - 1, s)
<1> DEFINE S == {s[i] : i \in 1 .. N}
           o == Opened(N, s)
           p == Opened(N - 1, s)
<1>1. o \in Seq(S) /\ Len(o) = N /\ \A k \in 1 .. N : o[k] = s[N + 1 - k]
  <2>1. \A k \in 1 .. N : N + 1 - k \in 1 .. N
    OBVIOUS
  <2>2. \A k \in 1 .. N : s[N + 1 - k] \in S
    BY <2>1
  <2> HIDE DEF S
  <2> QED
    BY <2>2 DEF Opened
<1>2. p \in Seq(S) /\ Len(p) = N - 1 /\ \A k \in 1 .. N - 1 : p[k] = s[N - k]
  <2>1. \A k \in 1 .. N - 1 : N - k \in 1 .. N /\ (N - 1) + 1 - k = N - k
    OBVIOUS
  <2>2. \A k \in 1 .. N - 1 : s[(N - 1) + 1 - k] \in S /\ s[(N - 1) + 1 - k] = s[N - k]
    BY <2>1
  <2>3. N - 1 \in Nat
    OBVIOUS
  <2> HIDE DEF S
  <2> QED
    BY <2>2, <2>3 DEF Opened
<1> HIDE DEF S, o, p
<1>3. o # <<>> /\ 1 \in 1 .. N /\ N + 1 - 1 = N
  BY <1>1, EmptySeq
<1>4. Head(o) = s[N]
  BY <1>1, <1>3
<1>5. Tail(o) \in Seq(S) /\ Len(Tail(o)) = N - 1 /\ \A k \in 1 .. N - 1 : Tail(o)[k] = o[k + 1]
  BY <1>1, <1>3, HeadTailProperties
<1>6. Tail(o) = p
  <2>1. \A k \in 1 .. N - 1 : k + 1 \in 1 .. N /\ N + 1 - (k + 1) = N - k
    OBVIOUS
  <2>2. \A k \in 1 .. Len(p) : Tail(o)[k] = p[k]
    BY <1>1, <1>2, <1>5, <2>1
  <2> QED
    BY <1>2, <1>5, <2>2, SeqEqual
<1>7. o = <<s[N]>> \o p
  <2> DEFINE one == <<s[N]>>
  <2>1. one \in Seq(S) /\ Len(one) = 1 /\ one[1] = s[N]
    BY <1>3 DEF S
  <2> HIDE DEF one
  <2>2. one \o p \in Seq(S) /\ Len(one \o p) = Len(one) + Len(p)
        /\ \A k \in 1 .. Len(one) + Len(p) : (one \o p)[k] = IF k <= Len(one) THEN one[k] ELSE p[k - Len(one)]
    BY <1>2, <2>1, ConcatProperties
  <2>3. \A k \in 1 .. N : IF k <= 1 THEN k = 1 /\ N + 1 - k = N
                          ELSE k - 1 \in 1 .. N - 1 /\ N - (k - 1) = N + 1 - k
    OBVIOUS
  <2>4. 1 + (N - 1) = N
    OBVIOUS
  <2>5. \A k \in 1 .. N : (one \o p)[k] = o[k]
    <3> DEFINE both == one \o p
    <3>1. \A k \in 1 .. N : both[k] = IF k <= 1 THEN one[k] ELSE p[k - 1]
      BY <1>2, <2>1, <2>2, <2>4
    <3> HIDE DEF both
    <3> SUFFICES ASSUME NEW k \in 1 .. N PROVE both[k] = o[k]
      BY DEF both
    <3>2. CASE k <= 1
      BY <1>1, <2>1, <2>3, <3>1, <3>2
    <3>3. CASE ~(k <= 1)
      <4>1. k - 1 \in 1 .. N - 1 /\ N - (k - 1) = N + 1 - k
        BY <2>3, <3>3
      <4>2. both[k] = p[k - 1] /\ p[k - 1] = s[N + 1 - k]
        BY <1>2, <3>1, <3>3, <4>1
      <4> QED
        BY <1>1, <4>2
    <3> QED
      BY <3>2, <3>3
  <2>6. one \o p = o
    BY <1>1, <1>2, <2>1, <2>2, <2>4, <2>5, SeqEqual
  <2> QED
    BY <2>6 DEF one
<1> QED
  BY <1>1, <1>3, <1>4, <1>6, <1>7 DEF o, p

LEMMA OpenedEqual ==
  ASSUME NEW N \in Nat, NEW s, NEW t, \A i \in 1 .. N : s[i] = t[i]
  PROVE  Opened(N, s) = Opened(N, t)
<1>1. \A k \in 1 .. N : N + 1 - k \in 1 .. N
  OBVIOUS
<1> QED
  BY <1>1 DEF Opened

(* The open files are those of the buffers.                                *)
SegsInv ==
  /\ Len(bufs) \in Nat /\ Len(bufs) > 0 /\ OpenFiles = Opened(Len(bufs), Segs)
  /\ Segs[Len(bufs)] = Seg(Buf.file, Base + Begin + 1, NextIn(lists, Len(bufs)))
  /\ \A i \in 1 .. Len(bufs) - 1 :
       Segs[i] = Seg(bufs[i].file, bufs[i].read - bufs[i].n + bufs[i].pos + 1, NextIn(lists, i))

LEMMA SegsAre == ScanInv => SegsInv
<1> SUFFICES ASSUME ScanInv PROVE SegsInv
  OBVIOUS
<1> DEFINE N == Len(bufs)
<1>1. /\ Buf = bufs[N] /\ N \in Nat /\ N > 0 /\ DOMAIN bufs = 1 .. N /\ N \in 1 .. N
      /\ \A i \in 1 .. N - 1 : i \in 1 .. N
  BY BufIs DEF ScanInv, ScanTypes
<1> HIDE DEF N
<1>2. \A i \in 1 .. N : Segs[i] = Seg(bufs[i].file, Used(i) + 1, NextIn(lists, i))
  BY <1>1 DEF Segs
<1>3. OpenFiles = Opened(N, Segs)
  <2>1. \A k \in 1 .. N : N + 1 - k \in 1 .. N
    BY <1>1
  <2>2. OpenFiles = [k \in 1 .. N |-> Seg(bufs[N + 1 - k].file, Used(N + 1 - k) + 1, NextIn(lists, N + 1 - k))]
    BY <1>1, Zenon DEF OpenFiles, Seg, NextIn, N
  <2> QED
    BY <1>2, <2>1, <2>2 DEF Opened
<1>4. Segs[N] = Seg(Buf.file, Base + Begin + 1, NextIn(lists, N))
  BY <1>1, <1>2, UsedIs DEF N
<1>5. \A i \in 1 .. N - 1 :
        Segs[i] = Seg(bufs[i].file, bufs[i].read - bufs[i].n + bufs[i].pos + 1, NextIn(lists, i))
  BY <1>1, <1>2, UsedIs DEF N
<1> QED
  BY <1>1, <1>3, <1>4, <1>5 DEF SegsInv, N

LEMMA SegsNext == ScanInv' => SegsInv'
  BY SegsAre, PTL

(* A step that leaves the place alone leaves the open files alone.         *)
LEMMA SamePlaceSameFiles ==
  ASSUME ScanInv, ScanInv', SamePlace, lists' = lists
  PROVE  OpenFiles' = OpenFiles
<1> DEFINE N == Len(bufs)
           s == Segs
           t == Segs'
<1>1. /\ N \in Nat /\ OpenFiles = Opened(N, s)
      /\ s[N] = Seg(Buf.file, Base + Begin + 1, NextIn(lists, N))
      /\ \A i \in 1 .. N - 1 :
           s[i] = Seg(bufs[i].file, bufs[i].read - bufs[i].n + bufs[i].pos + 1, NextIn(lists, i))
  BY SegsAre DEF SegsInv
<1>2. /\ Len(bufs') = N /\ \A i \in 1 .. N - 1 : bufs'[i] = bufs[i]
      /\ Buf'.file = Buf.file /\ Base' + Begin' = Base + Begin
  BY DEF SamePlace, OthersStay
<1>3. /\ OpenFiles' = Opened(N, t)
      /\ t[N] = Seg(Buf'.file, Base' + Begin' + 1, NextIn(lists, N))
      /\ \A i \in 1 .. N - 1 :
           t[i] = Seg(bufs'[i].file, bufs'[i].read - bufs'[i].n + bufs'[i].pos + 1, NextIn(lists, i))
  BY <1>2, SegsNext DEF SegsInv
<1> HIDE DEF s, t, N
<1>4. \A i \in 1 .. N - 1 : t[i] = s[i]
  BY <1>1, <1>2, <1>3
<1>5. t[N] = s[N]
  BY <1>1, <1>2, <1>3
<1>6. \A i \in 1 .. N : i = N \/ i \in 1 .. N - 1
  BY <1>1
<1>7. \A i \in 1 .. N : t[i] = s[i]
  BY <1>4, <1>5, <1>6
<1> QED
  BY <1>1, <1>3, <1>7, OpenedEqual

(* The operators of Lexer are those of ScanBuffer.                         *)
LEMMA SameMatch ==
  ASSUME NEW text, NEW i, NEW from, NEW bol
  PROVE  Tokens!Longest(text, i, from, bol) = Longest(text, i, from, bol)
<1>1. \A x, y : Tokens!StartOf(x, y) = StartOf(x, y)
  BY Zenon DEF Tokens!StartOf, StartOf, Tokens!StartConditions, StartConditions
<1>2. \A t, s, first, last : Tokens!Way(t, FALSE, s, first, last) = Way(t, FALSE, s, first, last)
  BY Zenon DEF Tokens!Way, Way
<1>3. \A S : Tokens!Max(S) = Max(S)
  BY Zenon DEF Tokens!Max, Max
<1>4. \A way, last, otherwise : Tokens!LastAccepted(way, last, otherwise) = LastAccepted(way, last, otherwise)
  BY <1>3, Zenon DEF Tokens!LastAccepted, LastAccepted
<1>5. \A t, s, j : Tokens!LastAccepting(t, s, j) = LastAccepting(t, s, j)
  BY <1>2, <1>4, Zenon DEF Tokens!LastAccepting, LastAccepting
<1> QED
  BY <1>1, <1>5, Zenon DEF Tokens!Longest, Longest

LEMMA SameRules ==
  ASSUME NEW rule, NEW from, NEW str, NEW text
  PROVE  /\ Tokens!ConditionAfter(rule, from) = ConditionAfter(rule, from)
         /\ Tokens!UpToNul(str) = UpToNul(str)
         /\ Tokens!StringAfter(rule, str, text) = StringAfter(rule, str, text)
         /\ Tokens!Delivered(rule, str, text) = Delivered(rule, str, text)
<1>1. \A t : Tokens!UpToNul(t) = UpToNul(t)
  BY Zenon DEF Tokens!UpToNul, UpToNul
<1>2. Tokens!ConditionAfter(rule, from) = ConditionAfter(rule, from)
  BY Zenon DEF Tokens!ConditionAfter, ConditionAfter
<1>3. Tokens!Escaped(rule, text) = Escaped(rule, text)
  BY Zenon DEF Tokens!Escaped, Escaped, Tokens!HexDigit, HexDigit
<1>4. Tokens!StringAfter(rule, str, text) = StringAfter(rule, str, text)
  BY <1>1, <1>3, Zenon
     DEF Tokens!StringAfter, StringAfter, Tokens!TextRules, TextRules, Tokens!TakingRules, TakingRules
<1>5. Tokens!Delivered(rule, str, text) = Delivered(rule, str, text)
  <2>1. Tokens!TokenOf(rule) = TokenOf(rule)
    BY Zenon DEF Tokens!TokenOf, TokenOf
  <2> QED
    BY <1>1, <2>1, Zenon DEF Tokens!Delivered, Delivered
<1> QED
  BY <1>1, <1>2, <1>4, <1>5

Status == IF pc \in {"ended", "failed"} THEN pc ELSE "scanning"

(* A step within a token changes nothing that Lexer sees.                  *)
LEMMA UnseenStep ==
  ASSUME ScanInv, ScanInv', SamePlace, Unread, Status' = Status
  PROVE  UNCHANGED Tokens!lexerVars
<1>1. /\ files' = files /\ lists' = lists /\ condition' = condition /\ string' = string /\ out' = out
  BY DEF Unread
<1>2. OpenFiles' = OpenFiles
  BY <1>1, SamePlaceSameFiles
<1> QED
  BY <1>1, <1>2 DEF Status, Tokens!lexerVars

(* The innermost file, and the others.                                     *)
LEMMA InnermostIs ==
  ASSUME ScanInv
  PROVE  /\ Head(OpenFiles) = Seg(Buf.file, Base + Begin + 1, NextIn(lists, Len(bufs)))
         /\ OpenFiles # <<>> /\ Len(OpenFiles) = Len(bufs) /\ Len(bufs) = Len(lists) + 1
         /\ Len(lists) \in Nat /\ Tail(OpenFiles) = Opened(Len(bufs) - 1, Segs)
<1>1. SegsInv
  BY SegsAre
<1>2. /\ Len(bufs) \in Nat /\ Len(lists) \in Nat /\ Len(bufs) = Len(lists) + 1
  <2>1. lists \in Seq(Seq(STRING)) /\ Len(lists) = Len(bufs) - 1 /\ Len(bufs) \in Nat
    BY <1>1 DEF ScanInv, ScanTypes, SegsInv
  <2>2. Len(lists) \in Nat
    BY <2>1, LenProperties
  <2> QED
    BY <2>1, <2>2
<1> DEFINE N == Len(bufs)
<1>3. N \in Nat /\ N > 0 /\ OpenFiles = Opened(N, Segs)
      /\ Segs[N] = Seg(Buf.file, Base + Begin + 1, NextIn(lists, N))
  BY <1>1 DEF SegsInv
<1> HIDE DEF N
<1>4. /\ Head(OpenFiles) = Segs[N] /\ OpenFiles # <<>> /\ Len(OpenFiles) = N
      /\ Tail(OpenFiles) = Opened(N - 1, Segs)
  BY <1>3, OpenedIs
<1> QED
  BY <1>2, <1>3, <1>4 DEF N

(* The open files when the token was read, and when a file was included.   *)
After == <<Seg(Buf.file, Base + cBufP + 1, NextIn(lists, Len(bufs)))>> \o Tail(OpenFiles)

LEMMA FilesAfterToken ==
  ASSUME ScanInv, ScanInv', OthersStay, Buf'.file = Buf.file, Base' + Begin' = Base + cBufP,
         lists' = lists
  PROVE  OpenFiles' = After
<1> DEFINE N == Len(bufs)
           s == Segs
           t == Segs'
<1>1. /\ N \in Nat /\ N > 0 /\ Tail(OpenFiles) = Opened(N - 1, s)
      /\ \A i \in 1 .. N - 1 :
           s[i] = Seg(bufs[i].file, bufs[i].read - bufs[i].n + bufs[i].pos + 1, NextIn(lists, i))
  BY SegsAre, InnermostIs DEF SegsInv
<1>2. /\ Len(bufs') = N /\ \A i \in 1 .. N - 1 : bufs'[i] = bufs[i]
  BY DEF OthersStay
<1>3. /\ OpenFiles' = Opened(N, t)
      /\ t[N] = Seg(Buf'.file, Base' + Begin' + 1, NextIn(lists, N))
      /\ \A i \in 1 .. N - 1 :
           t[i] = Seg(bufs'[i].file, bufs'[i].read - bufs'[i].n + bufs'[i].pos + 1, NextIn(lists, i))
  BY <1>2, SegsNext DEF SegsInv
<1> HIDE DEF s, t, N
<1>4. \A i \in 1 .. N - 1 : t[i] = s[i]
  BY <1>1, <1>2, <1>3
<1>5. Opened(N - 1, t) = Opened(N - 1, s)
  <2>1. N - 1 \in Nat
    BY <1>1
  <2> QED
    BY <1>4, <2>1, OpenedEqual
<1>6. OpenFiles' = <<t[N]>> \o Opened(N - 1, t)
  BY <1>1, <1>3, OpenedIs
<1> QED
  BY <1>1, <1>3, <1>5, <1>6 DEF After, N

LEMMA FilesAfterPush ==
  ASSUME ScanInv, ScanInv', NEW f, NEW rest,
         Len(bufs') = Len(bufs) + 1, \A i \in 1 .. Len(bufs) - 1 : bufs'[i] = bufs[i],
         bufs'[Len(bufs)].file = Buf.file,
         bufs'[Len(bufs)].read - bufs'[Len(bufs)].n + bufs'[Len(bufs)].pos = Base + cBufP,
         lists' = Append(lists, rest), Buf'.file = f, Base' + Begin' = 0
  PROVE  OpenFiles' = <<Seg(f, 1, rest)>> \o After
<1> DEFINE N == Len(bufs)
           s == Segs
           t == Segs'
<1>1. /\ N \in Nat /\ N > 0 /\ Tail(OpenFiles) = Opened(N - 1, s) /\ N = Len(lists) + 1
      /\ \A i \in 1 .. N - 1 :
           s[i] = Seg(bufs[i].file, bufs[i].read - bufs[i].n + bufs[i].pos + 1, NextIn(lists, i))
  BY SegsAre, InnermostIs DEF SegsInv
<1>2. Len(bufs') = N + 1
  OBVIOUS
<1>3. /\ OpenFiles' = Opened(N + 1, t)
      /\ t[N + 1] = Seg(f, 0 + 1, NextIn(lists', N + 1))
      /\ \A i \in 1 .. N :
           t[i] = Seg(bufs'[i].file, bufs'[i].read - bufs'[i].n + bufs'[i].pos + 1, NextIn(lists', i))
  <2>1. (N + 1) - 1 = N
    BY <1>1
  <2> QED
    BY <1>2, <2>1, SegsNext DEF SegsInv
<1>4. NextIn(lists', N + 1) = rest /\ \A i \in 1 .. N : NextIn(lists', i) = NextIn(lists, i)
  <2>1. lists \in Seq(Seq(STRING))
    BY DEF ScanInv, ScanTypes
  <2>2. lists'[N] = rest /\ \A i \in 1 .. N - 1 : lists'[i] = lists[i]
    <3> DEFINE L == Len(lists)
    <3>1. L \in Nat /\ N = L + 1 /\ N - 1 = L
      BY <1>1, InnermostIs
    <3> HIDE DEF N
    <3>2. lists'[L + 1] = rest /\ \A i \in 1 .. L : lists'[i] = lists[i]
      BY <2>1, <3>1
    <3> QED
      BY <3>1, <3>2
  <2>3. /\ N + 1 # 1 /\ (N + 1) - 1 = N
        /\ \A i \in 1 .. N : i = 1 \/ i - 1 \in 1 .. N - 1
    BY <1>1
  <2> QED
    <3> DEFINE new == lists'
    <3> HIDE DEF N, new
    <3>1. NextIn(new, N + 1) = new[N]
      BY <2>3 DEF NextIn
    <3>2. \A i \in 1 .. N : NextIn(new, i) = NextIn(lists, i)
      BY <2>2, <2>3 DEF NextIn, new
    <3> QED
      BY <2>2, <3>1, <3>2 DEF new
<1> HIDE DEF s, t, N
<1>5. \A i \in 1 .. N - 1 : t[i] = s[i]
  <2>1. \A i \in 1 .. N - 1 : i \in 1 .. N
    BY <1>1
  <2>2. \A i \in 1 .. N - 1 : bufs'[i] = bufs[i]
    BY DEF N
  <2> QED
    BY <1>1, <1>3, <1>4, <2>1, <2>2
<1>6. Opened(N - 1, t) = Opened(N - 1, s)
  <2>1. N - 1 \in Nat
    BY <1>1
  <2> QED
    BY <1>5, <2>1, OpenedEqual
<1>7. OpenFiles' = <<t[N + 1]>> \o Opened(N, t)
  <2> DEFINE M == N + 1
  <2>1. M \in Nat /\ M > 0 /\ M - 1 = N /\ OpenFiles' = Opened(M, t)
    BY <1>1, <1>3
  <2> HIDE DEF M
  <2>2. Opened(M, t) = <<t[M]>> \o Opened(M - 1, t)
    BY <2>1, OpenedIs
  <2> QED
    BY <2>1, <2>2 DEF M
<1>8. Opened(N, t) = <<t[N]>> \o Opened(N - 1, t)
  BY <1>1, OpenedIs
<1>9. t[N] = Seg(Buf.file, Base + cBufP + 1, NextIn(lists, N))
  <2>1. N \in 1 .. N
    BY <1>1
  <2> QED
    BY <1>3, <1>4, <2>1 DEF N
<1>10. t[N + 1] = Seg(f, 1, rest)
  BY <1>3, <1>4
<1>11. Opened(N, t) = After
  BY <1>1, <1>6, <1>8, <1>9 DEF After, N
<1> QED
  BY <1>7, <1>10, <1>11

(* A token of the scanner is a token of Lexer.                             *)
LEMMA TokenStep ==
  ASSUME ScanInv, AtRule, files' = files, string' = StringAfter(act, string, YyText),
         IF act = 26 /\ ~CanInclude(UpToNul(string))
         THEN pc' = "failed" /\ OpenFiles' = After /\ condition' = condition /\ out' = out
         ELSE /\ pc' = "token" /\ condition' = ConditionAfter(act, condition)
              /\ out' = out \o Delivered(act, string, YyText)
              /\ OpenFiles' = IF act = 26 /\ Included[UpToNul(string)] # <<>>
                              THEN <<Seg(Head(Included[UpToNul(string)]), 1,
                                         Tail(Included[UpToNul(string)]))>> \o After
                              ELSE After
  PROVE  Tokens!LexToken
<1> DEFINE seg == Head(OpenFiles)
           match == Tokens!Longest(Tokens!TextOf(seg), seg.at, condition, Tokens!AtLineStart(seg))
           rule == match[1]
           last == seg.at + match[2] - 1
           text == SubSeq(Tokens!TextOf(seg), seg.at, last)
           after == <<[seg EXCEPT !.at = last + 1]>> \o Tail(OpenFiles)
           path == Tokens!UpToNul(string)
           u == Base + textPtr
           e == Base + cBufP
<1>1. /\ pc = "act" /\ cBufP \in textPtr + 1 .. nChars /\ e <= Len(CurText)
      /\ textPtr \in Nat /\ cBufP \in Nat /\ nChars \in Nat /\ Base \in Nat
      /\ YyText = SubSeq(CurText, u + 1, e)
      /\ Longest(CurText, u + 1, condition, Buf.bol) = <<act, cBufP - textPtr>>
      /\ Buf.bol = LineStart(CurText, u) /\ Begin = textPtr
  BY RuleIs
<1>2. /\ seg = Seg(Buf.file, u + 1, NextIn(lists, Len(bufs)))
      /\ Len(OpenFiles) = Len(bufs) /\ Len(bufs) = Len(lists) + 1 /\ Len(lists) \in Nat
  BY <1>1, InnermostIs
<1>3. Len(CurText) \in Nat /\ CurText = files[Buf.file]
  BY CurrentIs DEF CurText
<1>4. /\ u \in Nat /\ e \in Nat /\ (u + 1) + (cBufP - textPtr) - 1 = e /\ u + 1 <= Len(CurText)
      /\ (u + 1) - 1 = u /\ (u + 1 = 1 <=> u = 0)
  BY <1>1, <1>3
<1> HIDE DEF u, e
<1>5. seg.file = Buf.file /\ seg.at = u + 1
  BY <1>2 DEF Seg
<1>6. Tokens!TextOf(seg) = CurText
  BY <1>3, <1>5, Zenon DEF Tokens!TextOf
<1>7. Tokens!AtLineStart(seg) = Buf.bol
  <2>1. Tokens!AtLineStart(seg) <=> (seg.at = 1 \/ CurText[seg.at - 1] = Newline)
    BY <1>6, Zenon DEF Tokens!AtLineStart, Tokens!Newline, Newline
  <2>2. (seg.at = 1 \/ CurText[seg.at - 1] = Newline) <=> (u = 0 \/ CurText[u] = Newline)
    BY <1>4, <1>5
  <2>3. Tokens!AtLineStart(seg) <=> LineStart(CurText, u)
    BY <2>1, <2>2, Zenon DEF LineStart
  <2>4. Tokens!AtLineStart(seg) \in BOOLEAN /\ LineStart(CurText, u) \in BOOLEAN
    BY Zenon DEF Tokens!AtLineStart, LineStart
  <2>5. Tokens!AtLineStart(seg) = LineStart(CurText, u)
    <3> DEFINE begins == Tokens!AtLineStart(seg)
               starts == LineStart(CurText, u)
    <3>1. begins \in BOOLEAN /\ starts \in BOOLEAN /\ (begins <=> starts)
      BY <2>3, <2>4
    <3> HIDE DEF begins, starts
    <3>2. begins = starts
      BY <3>1
    <3> QED
      BY <3>2 DEF begins, starts
  <2> QED
    BY <1>1, <2>5, Zenon
<1>8. match = <<act, cBufP - textPtr>>
  <2>1. match = Tokens!Longest(CurText, u + 1, condition, Buf.bol)
    BY <1>5, <1>6, <1>7, Zenon
  <2>2. match = Longest(CurText, u + 1, condition, Buf.bol)
    BY <2>1, SameMatch, Zenon
  <2> QED
    BY <1>1, <2>2, Zenon DEF u
<1> HIDE DEF match
<1>9. rule = act /\ last = e
  <2>1. match[1] = act /\ match[2] = cBufP - textPtr
    BY <1>8
  <2> QED
    BY <1>4, <1>5, <2>1
<1> HIDE DEF rule, last
<1>10. text = YyText
  BY <1>1, <1>5, <1>6, <1>9, Zenon DEF u, e
<1>11. after = After
  <2>1. [seg EXCEPT !.at = last + 1] = Seg(Buf.file, e + 1, NextIn(lists, Len(bufs)))
    BY <1>2, <1>9 DEF Seg
  <2> QED
    BY <2>1, Zenon DEF After, e
<1>12. path = UpToNul(string)
  BY SameRules
<1> HIDE DEF text, after, path
<1>13. Tokens!CanInclude(path) <=> CanInclude(UpToNul(string))
  <2>1. Len(OpenFiles) <= MAX_INCLUDE_DEPTH <=> Len(lists) < MAX_INCLUDE_DEPTH
    BY <1>2, DepthAssumption
  <2> QED
    BY <1>12, <2>1, Zenon DEF Tokens!CanInclude, CanInclude, Tokens!Opens
<1>14. Status = "scanning"
  BY <1>1 DEF Status
<1>15. string' = Tokens!StringAfter(rule, string, text)
  BY <1>9, <1>10, SameRules, Zenon
<1>16. seg.at <= Len(Tokens!TextOf(seg))
  BY <1>4, <1>5, <1>6
<1>17. CASE rule = 26 /\ ~Tokens!CanInclude(path)
  <2>1. /\ Status' = "failed" /\ OpenFiles' = after /\ condition' = condition /\ out' = out
    BY <1>9, <1>11, <1>13, <1>17 DEF Status
  <2> QED
    BY <1>14, <1>15, <1>16, <1>17, <2>1, Zenon
       DEF Tokens!LexToken, Status, match, rule, last, text, after, path
<1>18. CASE ~(rule = 26 /\ ~Tokens!CanInclude(path))
  <2>1. /\ Status' = Status
        /\ condition' = Tokens!ConditionAfter(rule, condition)
        /\ out' = out \o Tokens!Delivered(rule, string, text)
    <3>1. /\ pc' = "token" /\ condition' = ConditionAfter(act, condition)
          /\ out' = out \o Delivered(act, string, YyText)
      BY <1>9, <1>13, <1>18, Zenon
    <3>2. Status' = "scanning"
      BY <3>1 DEF Status
    <3> QED
      BY <1>9, <1>10, <1>14, <3>1, <3>2, SameRules, Zenon
  <2>2. OpenFiles' = IF rule = 26 /\ Included[path] # <<>>
                     THEN <<Tokens!FileAt(Head(Included[path]), Tail(Included[path]))>> \o after
                     ELSE after
    <3>1. OpenFiles' = IF act = 26 /\ Included[UpToNul(string)] # <<>>
                       THEN <<Seg(Head(Included[UpToNul(string)]), 1,
                                  Tail(Included[UpToNul(string)]))>> \o After
                       ELSE After
      BY <1>9, <1>13, <1>18, Zenon
    <3> QED
      BY <1>9, <1>11, <1>12, <3>1, Zenon DEF Tokens!FileAt, Seg
  <2> QED
    BY <1>14, <1>15, <1>16, <1>18, <2>1, <2>2, Zenon
       DEF Tokens!LexToken, Status, match, rule, last, text, after, path
<1> QED
  BY <1>17, <1>18

(* What is returned is a sequence.                                         *)
OutIsSeq == \E S : out \in Seq(S)

LEMMA SequenceJoins ==
  ASSUME NEW s, NEW t, \E S : s \in Seq(S), \E S : t \in Seq(S)
  PROVE  \E S : s \o t \in Seq(S)
<1>1. PICK A : s \in Seq(A)
  OBVIOUS
<1>2. PICK B : t \in Seq(B)
  OBVIOUS
<1> DEFINE C == A \cup B
<1>3. s \in Seq(C) /\ t \in Seq(C)
  <2>1. /\ s \in [1 .. Len(s) -> A] /\ t \in [1 .. Len(t) -> B] /\ Len(s) \in Nat /\ Len(t) \in Nat
    BY <1>1, <1>2, LenProperties
  <2>2. s \in [1 .. Len(s) -> C] /\ t \in [1 .. Len(t) -> C]
    BY <2>1
  <2> HIDE DEF C
  <2> QED
    BY <2>1, <2>2, IsASeq
<1> HIDE DEF C
<1>4. s \o t \in Seq(C)
  BY <1>3, ConcatProperties
<1> QED
  BY <1>4

LEMMA DeliveredIsSeq ==
  ASSUME NEW rule, NEW str, NEW text
  PROVE  \E S : Delivered(rule, str, text) \in Seq(S)
<1> DEFINE token == <<TokenOf(rule), IF rule = 21 THEN UpToNul(str) ELSE text>>
<1>1. Delivered(rule, str, text) = <<>> \/ Delivered(rule, str, text) = <<token>>
  BY Zenon DEF Delivered
<1> HIDE DEF token
<1>2. <<>> \in Seq({token}) /\ <<token>> \in Seq({token})
  OBVIOUS
<1> QED
  BY <1>1, <1>2

THEOREM OutType == Spec => []OutIsSeq
<1>1. Init => OutIsSeq
  <2>1. <<>> \in Seq({})
    OBVIOUS
  <2> QED
    BY <2>1 DEF Init, OutIsSeq
<1>2. OutIsSeq /\ [Next]_vars => OutIsSeq'
  <2> SUFFICES ASSUME OutIsSeq, [Next]_vars PROVE OutIsSeq'
    OBVIOUS
  <2>1. CASE RunRule
    <3>1. out' = out \o Delivered(act, string, YyText)
      BY <2>1, Zenon DEF RunRule
    <3>2. \E S : Delivered(act, string, YyText) \in Seq(S)
      BY DeliveredIsSeq
    <3> QED
      BY <3>1, <3>2, SequenceJoins, Zenon DEF OutIsSeq
  <2>2. CASE Terminate
    <3> DEFINE eof == <<"EOF", <<>> >>
    <3>1. out' = Append(out, eof)
      BY <2>2 DEF Terminate
    <3> HIDE DEF eof
    <3>2. PICK S : out \in Seq(S)
      BY DEF OutIsSeq
    <3>3. <<eof>> \in Seq({eof}) /\ Append(out, eof) = out \o <<eof>>
      BY <3>2, AppendIsConcat
    <3>4. \E T : <<eof>> \in Seq(T)
      BY <3>3
    <3>5. \E T : out \in Seq(T)
      BY <3>2
    <3>6. \E T : out \o <<eof>> \in Seq(T)
      BY <3>4, <3>5, SequenceJoins, Zenon
    <3> QED
      BY <3>1, <3>3, <3>6 DEF OutIsSeq
  <2>3. CASE ~RunRule /\ ~Terminate
    <3>1. out' = out
      BY <2>3 DEF Next, vars, Unread, BeginToken, ContinueToken, BackUp, NulInText, EndOfString,
                  ReadMore, PushInclude, NextFile, PopInclude
    <3> QED
      BY <3>1 DEF OutIsSeq
  <2> QED
    BY <2>1, <2>2, <2>3
<1> QED
  BY <1>1, <1>2, PTL DEF Spec

LEMMA RunRuleIsToken ==
  ASSUME ScanInv, RunRule
  PROVE  Tokens!LexToken
<1>1. /\ AtRule /\ act # 26 /\ UNCHANGED <<files, lists, cursor>> /\ pc' = "token"
      /\ condition' = ConditionAfter(act, condition)
      /\ string' = StringAfter(act, string, YyText)
      /\ out' = out \o Delivered(act, string, YyText)
  BY Zenon DEF RunRule
<1>2. /\ ScanInv' /\ OthersStay /\ Buf'.file = Buf.file /\ Base' + Begin' = Base + cBufP
  BY RunRuleKeeps
<1>3. OpenFiles' = After
  BY <1>1, <1>2, FilesAfterToken
<1> QED
  BY <1>1, <1>3, TokenStep

LEMMA PushIncludeIsToken ==
  ASSUME ScanInv, PushInclude, OutIsSeq
  PROVE  Tokens!LexToken
<1> DEFINE path == UpToNul(string)
           incl == Included[path]
<1>1. /\ AtRule /\ act = 26 /\ files' = files /\ string' = <<>> /\ out' = out
      /\ IF ~CanInclude(path)
         THEN pc' = "failed" /\ UNCHANGED <<lists, condition, cursor>>
         ELSE condition' = "INITIAL" /\ pc' = "token"
  BY Zenon DEF PushInclude
<1>2. /\ ScanInv'
      /\ ~Pushes(path) =>
           /\ OthersStay /\ Buf'.file = Buf.file /\ Base' + Begin' = Base + cBufP
           /\ lists' = lists
      /\ Pushes(path) =>
           /\ Len(bufs') = Len(bufs) + 1
           /\ \A i \in 1 .. Len(bufs) - 1 : bufs'[i] = bufs[i]
           /\ bufs'[Len(bufs)].file = Buf.file
           /\ bufs'[Len(bufs)].read - bufs'[Len(bufs)].n + bufs'[Len(bufs)].pos = Base + cBufP
           /\ lists' = Append(lists, Tail(incl))
           /\ Buf'.file = Head(incl) /\ Base' + Begin' = 0
  BY PushIncludeKeeps
<1>3. string' = StringAfter(act, string, YyText)
  <2>1. 26 \notin TextRules /\ 26 \notin 10 .. 20 \cup {24, 25} /\ 26 \in TakingRules
    BY DEF TextRules, TakingRules
  <2>2. StringAfter(26, string, YyText) = <<>>
    BY <2>1, Zenon DEF StringAfter
  <2> QED
    BY <1>1, <2>2
<1>4. Delivered(act, string, YyText) = <<>>
  <2>1. TokenOf(26) = ""
    BY DEF TokenOf
  <2> QED
    BY <1>1, <2>1 DEF Delivered
<1>5. out' = out \o Delivered(act, string, YyText)
  <2>1. PICK S : out \in Seq(S)
    BY DEF OutIsSeq
  <2>2. out \o <<>> = out
    BY <2>1, ConcatEmptySeq
  <2> QED
    BY <1>1, <1>4, <2>2
<1>6. ConditionAfter(act, condition) = "INITIAL"
  <2>1. ConditionAfter(26, condition) = "INITIAL"
    BY DEF ConditionAfter
  <2> QED
    BY <1>1, <2>1
<1> HIDE DEF incl
<1>7. Pushes(path) <=> CanInclude(path) /\ incl # <<>>
  BY DEF Pushes, incl
<1> HIDE DEF path
<1>8. CASE Pushes(path)
  <2>1. OpenFiles' = <<Seg(Head(incl), 1, Tail(incl))>> \o After
    BY <1>2, <1>8, FilesAfterPush
  <2>2. CanInclude(path) /\ incl # <<>>
    BY <1>7, <1>8
  <2>3. pc' = "token" /\ condition' = ConditionAfter(act, condition)
    BY <1>1, <1>6, <2>2
  <2> QED
    BY <1>1, <1>3, <1>5, <2>1, <2>2, <2>3, TokenStep, Zenon DEF path, incl
<1>9. CASE ~Pushes(path)
  <2>1. OpenFiles' = After
    BY <1>2, <1>9, FilesAfterToken
  <2>2. CASE ~CanInclude(path)
    <3>1. pc' = "failed" /\ condition' = condition
      BY <1>1, <2>2
    <3> QED
      BY <1>1, <1>3, <2>1, <2>2, <3>1, TokenStep, Zenon DEF path, incl
  <2>3. CASE CanInclude(path)
    <3>1. pc' = "token" /\ condition' = ConditionAfter(act, condition) /\ incl = <<>>
      BY <1>1, <1>6, <1>7, <1>9, <2>3
    <3> QED
      BY <1>1, <1>3, <1>5, <2>1, <2>3, <3>1, TokenStep, Zenon DEF path, incl
  <2> QED
    BY <2>2, <2>3
<1> QED
  BY <1>8, <1>9

(* The end of a file is one of Lexer.                                      *)
LEMMA EndIs ==
  ASSUME ScanInv, pc = "eof", NEW seg, seg = Head(OpenFiles)
  PROVE  /\ Status = "scanning" /\ seg.at = Len(Tokens!TextOf(seg)) + 1
         /\ seg.next = (IF lists = <<>> THEN <<>> ELSE Last(lists))
         /\ (Len(OpenFiles) > 1 <=> lists # <<>>)
<1>1. /\ seg = Seg(Buf.file, Base + Begin + 1, NextIn(lists, Len(bufs)))
      /\ Len(OpenFiles) = Len(bufs) /\ Len(bufs) = Len(lists) + 1 /\ Len(lists) \in Nat
  BY InnermostIs
<1>2. /\ seg.file = Buf.file /\ seg.at = Base + Begin + 1
      /\ seg.next = NextIn(lists, Len(lists) + 1)
  BY <1>1 DEF Seg
<1>3. /\ textPtr = cBufP /\ cBufP = nChars /\ Buf.read = Len(CurText) /\ Begin = textPtr
  BY DEF ScanInv, TokenInv, AtEndOfFile, Begin
<1>4. Base + Begin = Len(CurText)
  BY <1>3, CurrentIs
<1>5. Tokens!TextOf(seg) = CurText
  BY <1>2, Zenon DEF Tokens!TextOf, CurText
<1>6. lists = <<>> <=> Len(lists) = 0
  <2>1. lists \in Seq(Seq(STRING))
    BY DEF ScanInv, ScanTypes
  <2> QED
    BY <2>1, EmptySeq
<1>7. seg.next = (IF lists = <<>> THEN <<>> ELSE Last(lists))
  <2> DEFINE L == Len(lists)
  <2>1. (L + 1 = 1 <=> L = 0) /\ (L + 1) - 1 = L
    BY <1>1
  <2>2. seg.next = IF L + 1 = 1 THEN <<>> ELSE lists[L]
    BY <1>2, <2>1 DEF NextIn
  <2> QED
    BY <1>6, <2>1, <2>2 DEF Last
<1>8. Len(OpenFiles) > 1 <=> lists # <<>>
  BY <1>1, <1>6
<1> QED
  BY <1>2, <1>4, <1>5, <1>7, <1>8 DEF Status

LEMMA NextFileIsEnd ==
  ASSUME ScanInv, NextFile
  PROVE  Tokens!LexEndOfFile
<1> DEFINE seg == Head(OpenFiles)
           rest == Last(lists)
           N == Len(bufs)
           s == Segs
           t == Segs'
<1>1. /\ pc = "eof" /\ lists # <<>> /\ rest # <<>>
      /\ UNCHANGED <<files, condition, string, out>>
  BY Zenon DEF NextFile
<1>2. /\ ScanInv' /\ OthersStay
      /\ Head(rest) \in DOMAIN files =>
           /\ Buf'.file = Head(rest) /\ Base' + Begin' = 0
           /\ lists' = [lists EXCEPT ![Len(lists)] = Tail(@)] /\ pc' = "token"
      /\ Head(rest) \notin DOMAIN files => bufs' = bufs /\ lists' = lists /\ pc' = "failed"
  BY NextFileKeeps
<1>3. /\ Status = "scanning" /\ seg.at = Len(Tokens!TextOf(seg)) + 1 /\ seg.next = rest
  BY <1>1, EndIs
<1>4. seg.next # <<>>
  BY <1>1, <1>3
<1>5. CASE Head(rest) \notin DOMAIN files
  <2>1. OpenFiles' = OpenFiles
    <3>1. SamePlace
      <4>1. NextFile /\ cBufP' = cBufP /\ textPtr' = textPtr /\ nChars' = nChars
        BY <1>1, <1>5 DEF NextFile, cursor
      <4>2. /\ Begin = textPtr /\ textPtr = cBufP
        BY <1>1 DEF ScanInv, TokenInv, AtEndOfFile, Begin
      <4>3. Buf' = Buf /\ Base' = Base /\ Begin' = cBufP'
        BY <1>2, <1>5, <4>1 DEF Buf, Base, Begin
      <4> QED
        BY <1>2, <4>1, <4>2, <4>3 DEF SamePlace
    <3> QED
      BY <1>2, <1>5, <3>1, SamePlaceSameFiles
  <2>2. Status' = "failed"
    BY <1>2, <1>5 DEF Status
  <2>3. seg.next # <<>> /\ ~Tokens!Opens(Head(seg.next))
    BY <1>3, <1>4, <1>5, Zenon DEF Tokens!Opens
  <2> QED
    BY <1>1, <1>3, <2>1, <2>2, <2>3, Zenon DEF Tokens!LexEndOfFile, Status
<1>6. CASE Head(rest) \in DOMAIN files
  <2>1. /\ Buf'.file = Head(rest) /\ Base' + Begin' = 0
        /\ lists' = [lists EXCEPT ![Len(lists)] = Tail(@)] /\ pc' = "token"
    BY <1>2, <1>6
  <2>2. /\ N \in Nat /\ N > 0 /\ Tail(OpenFiles) = Opened(N - 1, s) /\ N = Len(lists) + 1
        /\ Len(lists) \in Nat
        /\ \A i \in 1 .. N - 1 :
             s[i] = Seg(bufs[i].file, bufs[i].read - bufs[i].n + bufs[i].pos + 1, NextIn(lists, i))
    BY SegsAre, InnermostIs DEF SegsInv
  <2>3. /\ Len(bufs') = N /\ \A i \in 1 .. N - 1 : bufs'[i] = bufs[i]
    BY <1>2 DEF OthersStay
  <2>4. /\ OpenFiles' = Opened(N, t)
        /\ t[N] = Seg(Head(rest), 0 + 1, NextIn(lists', N))
        /\ \A i \in 1 .. N - 1 :
             t[i] = Seg(bufs'[i].file, bufs'[i].read - bufs'[i].n + bufs'[i].pos + 1, NextIn(lists', i))
    BY <1>2, <2>1, <2>3, SegsNext DEF SegsInv
  <2>5. NextIn(lists', N) = Tail(rest) /\ \A i \in 1 .. N - 1 : NextIn(lists', i) = NextIn(lists, i)
    <3> DEFINE new == lists'
               L == Len(lists)
    <3>1. lists \in Seq(Seq(STRING)) /\ L \in 1 .. L
      <4>1. lists \in Seq(Seq(STRING))
        BY DEF ScanInv, ScanTypes
      <4>2. L # 0
        BY <1>1, <4>1, EmptySeq
      <4> QED
        BY <2>2, <4>1, <4>2
    <3>2. rest = lists[L]
      BY DEF Last
    <3>3. DOMAIN lists = 1 .. L
      BY <3>1, LenProperties
    <3>4. new[L] = Tail(rest) /\ \A i \in 1 .. L : i # L => new[i] = lists[i]
      BY <2>1, <3>1, <3>2, <3>3
    <3> HIDE DEF new, N, L, rest
    <3>5. /\ N # 1 /\ N - 1 = L
          /\ \A i \in 1 .. N - 1 : i = 1 \/ (i - 1 \in 1 .. L /\ i - 1 # L)
      BY <2>2, <3>1 DEF L
    <3>6. NextIn(new, N) = Tail(rest)
      BY <3>4, <3>5 DEF NextIn
    <3>7. \A i \in 1 .. N - 1 : NextIn(new, i) = NextIn(lists, i)
      BY <3>4, <3>5 DEF NextIn
    <3> QED
      BY <3>6, <3>7 DEF new
  <2> HIDE DEF s, t, N
  <2>6. \A i \in 1 .. N - 1 : t[i] = s[i]
    BY <2>2, <2>3, <2>4, <2>5
  <2>7. Opened(N - 1, t) = Opened(N - 1, s)
    <3>1. N - 1 \in Nat
      BY <2>2
    <3> QED
      BY <2>6, <3>1, OpenedEqual
  <2>8. OpenFiles' = <<t[N]>> \o Opened(N - 1, t)
    BY <2>2, <2>4, OpenedIs
  <2>9. t[N] = Tokens!FileAt(Head(seg.next), Tail(seg.next))
    <3>1. t[N] = Seg(Head(rest), 1, Tail(rest))
      BY <2>4, <2>5
    <3> QED
      BY <1>3, <3>1, Zenon DEF Tokens!FileAt, Seg
  <2>10. OpenFiles' = <<Tokens!FileAt(Head(seg.next), Tail(seg.next))>> \o Tail(OpenFiles)
    BY <2>2, <2>7, <2>8, <2>9
  <2>11. Status' = Status
    BY <1>3, <2>1 DEF Status
  <2>12. seg.next # <<>> /\ Tokens!Opens(Head(seg.next))
    BY <1>3, <1>4, <1>6, Zenon DEF Tokens!Opens
  <2> QED
    BY <1>1, <1>3, <2>10, <2>11, <2>12, Zenon DEF Tokens!LexEndOfFile, Status
<1> QED
  BY <1>5, <1>6

LEMMA PopIncludeIsEnd ==
  ASSUME ScanInv, PopInclude
  PROVE  Tokens!LexEndOfFile
<1> DEFINE seg == Head(OpenFiles)
           N == Len(bufs)
           s == Segs
           t == Segs'
<1>1. /\ pc = "eof" /\ lists # <<>> /\ Last(lists) = <<>> /\ pc' = "token"
      /\ UNCHANGED <<files, condition, string, out>>
  BY Zenon DEF PopInclude
<1>2. /\ ScanInv' /\ N > 1 /\ Len(bufs') = N - 1
      /\ \A i \in 1 .. N - 2 : bufs'[i] = bufs[i]
      /\ Buf' = bufs[N - 1] /\ Base' + Begin' = Buf'.read - Buf'.n + Buf'.pos
      /\ lists' = Front(lists)
  BY PopIncludeKeeps
<1>3. /\ Status = "scanning" /\ seg.at = Len(Tokens!TextOf(seg)) + 1
      /\ seg.next = <<>> /\ Len(OpenFiles) > 1
  BY <1>1, EndIs
<1>4. /\ N \in Nat /\ Tail(OpenFiles) = Opened(N - 1, s) /\ N = Len(lists) + 1 /\ Len(lists) \in Nat
      /\ \A i \in 1 .. N - 1 :
           s[i] = Seg(bufs[i].file, bufs[i].read - bufs[i].n + bufs[i].pos + 1, NextIn(lists, i))
  BY SegsAre, InnermostIs DEF SegsInv
<1>5. /\ OpenFiles' = Opened(N - 1, t)
      /\ t[N - 1] = Seg(Buf'.file, Buf'.read - Buf'.n + Buf'.pos + 1, NextIn(lists', N - 1))
      /\ \A i \in 1 .. (N - 1) - 1 :
           t[i] = Seg(bufs'[i].file, bufs'[i].read - bufs'[i].n + bufs'[i].pos + 1, NextIn(lists', i))
  BY <1>2, SegsNext DEF SegsInv
<1>6. \A i \in 1 .. N - 1 : NextIn(lists', i) = NextIn(lists, i)
  <2> DEFINE new == lists'
             L == Len(lists)
  <2>1. lists \in Seq(Seq(STRING)) /\ L > 0
    <3>1. lists \in Seq(Seq(STRING))
      BY DEF ScanInv, ScanTypes
    <3> QED
      BY <1>2, <1>4, <3>1
  <2>2. \A i \in 1 .. L - 1 : new[i] = lists[i]
    BY <1>2, <2>1, FrontIs
  <2>3. \A i \in 1 .. N - 1 : i = 1 \/ i - 1 \in 1 .. L - 1
    BY <1>4
  <2> HIDE DEF new, N, L
  <2>4. \A i \in 1 .. N - 1 : NextIn(new, i) = NextIn(lists, i)
    BY <2>2, <2>3 DEF NextIn
  <2> QED
    BY <2>4 DEF new
<1> HIDE DEF s, t, N
<1>7. \A i \in 1 .. (N - 1) - 1 : t[i] = s[i]
  <2>1. \A i \in 1 .. (N - 1) - 1 : i \in 1 .. N - 1 /\ i \in 1 .. N - 2
    BY <1>4
  <2> QED
    BY <1>2, <1>4, <1>5, <1>6, <2>1
<1>8. t[N - 1] = s[N - 1]
  <2>1. N - 1 \in 1 .. N - 1
    BY <1>2, <1>4
  <2> QED
    BY <1>2, <1>4, <1>5, <1>6, <2>1
<1>9. \A i \in 1 .. N - 1 : i = N - 1 \/ i \in 1 .. (N - 1) - 1
  BY <1>4
<1>10. \A i \in 1 .. N - 1 : t[i] = s[i]
  BY <1>7, <1>8, <1>9
<1>11. OpenFiles' = Tail(OpenFiles)
  <2>1. N - 1 \in Nat
    BY <1>2, <1>4
  <2>2. Opened(N - 1, t) = Opened(N - 1, s)
    BY <1>10, <2>1, OpenedEqual
  <2> QED
    BY <1>4, <1>5, <2>2
<1>12. Status' = Status
  BY <1>1, <1>3 DEF Status
<1> QED
  BY <1>1, <1>3, <1>11, <1>12, Zenon DEF Tokens!LexEndOfFile, Status

LEMMA TerminateIsEnd ==
  ASSUME ScanInv, Terminate
  PROVE  Tokens!LexEndOfFile
<1> DEFINE seg == Head(OpenFiles)
<1>1. /\ pc = "eof" /\ lists = <<>> /\ pc' = "ended" /\ out' = Append(out, <<"EOF", <<>> >>)
      /\ UNCHANGED <<files, condition, string, lists>>
  BY Zenon DEF Terminate
<1>2. ScanInv' /\ SamePlace
  BY TerminateKeeps
<1>3. /\ Status = "scanning" /\ seg.at = Len(Tokens!TextOf(seg)) + 1
      /\ seg.next = <<>> /\ ~(Len(OpenFiles) > 1)
  BY <1>1, EndIs
<1>4. OpenFiles' = OpenFiles
  BY <1>1, <1>2, SamePlaceSameFiles
<1>5. Status' = "ended"
  BY <1>1 DEF Status
<1> QED
  BY <1>1, <1>3, <1>4, <1>5, Zenon DEF Tokens!LexEndOfFile, Status

(* The tables and the buffers go on looking for the end of the token.      *)
Looks ==
  BeginToken \/ ContinueToken \/ BackUp \/ NulInText \/ EndOfString \/ ReadMore

LEMMA LooksIsUnseen ==
  ASSUME ScanInv, Looks
  PROVE  UNCHANGED Tokens!lexerVars
<1> DEFINE during == {"token", "match", "act", "eof"}
<1>1. pc \in during /\ pc' \in during /\ Unread
  <2>1. CASE BeginToken
    BY <2>1, Zenon DEF BeginToken, FindAction
  <2>2. CASE ContinueToken
    BY <2>2, Zenon DEF ContinueToken, FindAction
  <2>3. CASE BackUp
    BY <2>3, Zenon DEF BackUp, FindAction
  <2>4. CASE NulInText
    BY <2>4, Zenon DEF NulInText, FindAction, FoundEnd
  <2>5. CASE EndOfString
    BY <2>5, Zenon DEF EndOfString, EndOfFile, LastMatch, FindAction, FoundEnd
  <2>6. CASE ReadMore
    BY <2>6, Zenon DEF ReadMore, EndOfFile, LastMatch, FindAction, FoundEnd
  <2> QED
    BY <2>1, <2>2, <2>3, <2>4, <2>5, <2>6 DEF Looks
<1>2. Status' = Status
  BY <1>1 DEF Status
<1>3. ScanInv' /\ SamePlace
  BY BeginTokenKeeps, ContinueTokenKeeps, BackUpKeeps, NulInTextKeeps, EndOfStringKeeps,
     ReadMoreKeeps DEF Looks
<1> QED
  BY <1>1, <1>2, <1>3, UnseenStep

LEMMA IdleIsUnseen ==
  ASSUME ScanInv, UNCHANGED vars
  PROVE  UNCHANGED Tokens!lexerVars
<1>1. /\ files' = files /\ bufs' = bufs /\ lists' = lists /\ cBufP' = cBufP /\ textPtr' = textPtr
      /\ nChars' = nChars /\ condition' = condition /\ string' = string /\ out' = out /\ pc' = pc /\ inlined' = inlined
  BY DEF vars, cursor
<1>2. ScanInv'
  BY StutterKeeps
<1>3. Buf' = Buf /\ Base' = Base /\ Begin' = Begin
  BY <1>1 DEF Buf, Base, Begin
<1>4. SamePlace
  BY <1>1, <1>3 DEF SamePlace, OthersStay
<1>5. Unread /\ Status' = Status
  BY <1>1 DEF Unread, Status
<1> QED
  BY <1>2, <1>4, <1>5, UnseenStep

(* libconfig_yyparse() starts with the main file open at its first character.*)
LEMMA StartIsLexers ==
  ASSUME Init
  PROVE  Tokens!LexerInit
<1> DEFINE s == Segs
           main == Seg("main", 1, <<>>)
<1>1. /\ lists = <<>> /\ condition = "INITIAL" /\ string = <<>> /\ out = <<>> /\ pc = "token"
  BY Zenon DEF Init
<1>2. ScanInv /\ Base + Begin = 0 /\ Len(bufs) = 1 /\ Buf.file = "main"
  BY InitHolds
<1>3. OpenFiles = Opened(1, s) /\ s[1] = Seg(Buf.file, Base + Begin + 1, NextIn(lists, 1))
  BY <1>2, SegsAre DEF SegsInv
<1>4. s[1] = main
  <2>1. NextIn(lists, 1) = <<>>
    BY DEF NextIn
  <2>2. Base + Begin + 1 = 1
    BY <1>2
  <2> QED
    BY <1>2, <1>3, <2>1, <2>2
<1> HIDE DEF s, main
<1>5. OpenFiles = <<main>>
  BY <1>3, <1>4 DEF Opened
<1>6. main = Tokens!FileAt("main", <<>>)
  BY Zenon DEF main, Seg, Tokens!FileAt
<1>7. Status = "scanning"
  BY <1>1 DEF Status
<1> QED
  BY <1>1, <1>5, <1>6, <1>7, Zenon DEF Tokens!LexerInit, Status

LEMMA EveryStepIsLexers ==
  ASSUME ScanInv, OutIsSeq, [Next]_vars
  PROVE  [Tokens!LexToken \/ Tokens!LexEndOfFile]_(Tokens!lexerVars)
<1>1. CASE Looks
  BY <1>1, LooksIsUnseen
<1>2. CASE RunRule
  BY <1>2, RunRuleIsToken
<1>3. CASE PushInclude
  BY <1>3, PushIncludeIsToken
<1>4. CASE NextFile
  BY <1>4, NextFileIsEnd
<1>5. CASE PopInclude
  BY <1>5, PopIncludeIsEnd
<1>6. CASE Terminate
  BY <1>6, TerminateIsEnd
<1>7. CASE UNCHANGED vars
  BY <1>7, IdleIsUnseen
<1> QED
  BY <1>1, <1>2, <1>3, <1>4, <1>5, <1>6, <1>7 DEF Next, Looks

(* For every size of the buffers, every portion fread() may return and all *)
(* tables of the kind flex writes: libconfig_yylex(), which meets the end  *)
(* of a buffer within tokens, moves what it has of a token to the front,   *)
(* grows the buffer, goes back to the state before a character 0 and       *)
(* restores the characters it overwrote, yields token by token what the    *)
(* longest match of the rules yields on the texts of the files themselves, *)
(* and enters and leaves the included files where that does.               *)
THEOREM ScannerImplementsLexer == Spec => ImplementsLexer
<1>1. Init => Tokens!LexerInit
  BY StartIsLexers
<1>2. ScanInv /\ OutIsSeq /\ [Next]_vars
        => [Tokens!LexToken \/ Tokens!LexEndOfFile]_(Tokens!lexerVars)
  BY EveryStepIsLexers
<1> QED
  BY <1>1, <1>2, ScanInvariant, OutType, PTL DEF Spec, ImplementsLexer, Tokens!LexerSpec
=============================================================================
