------------------------------- MODULE Lemmas --------------------------------
(***************************************************************************)
(* Facts about recursive functions, numbers and sequences that the proofs  *)
(* of several components use.                                              *)
(***************************************************************************)
EXTENDS SequencesExt, SequenceTheorems, WellFoundedInduction, TLAPS

-----------------------------------------------------------------------------
(* Numbers.                                                                *)

(* A set of naturals that is not empty has a least element.                *)
LEMMA LeastNatural ==
  ASSUME NEW I \in SUBSET Nat, I # {}
  PROVE  Min(I) \in I /\ \A y \in I : Min(I) <= y
<1> DEFINE Less == {ss \in Nat \X Nat : ss[1] < ss[2]}
<1>1. IsWellFoundedOn(Less, Nat)
  BY NatLessThanWellFounded, Zenon DEF OpToRel
<1>2. \E x \in I : \A y \in I : ~(<<y, x>> \in Less)
  <2> HIDE DEF Less
  <2> QED
    BY <1>1, WFMin, Zenon
<1>3. PICK x \in I : \A y \in I : ~(<<y, x>> \in Less)
  BY <1>2
<1>4. ASSUME NEW y \in I PROVE x <= y
  <2>1. x \in Nat /\ y \in Nat
    OBVIOUS
  <2>2. <<y, x>> \in Nat \X Nat /\ <<y, x>>[1] = y /\ <<y, x>>[2] = x
    BY <2>1
  <2>3. ~(y < x)
    BY <1>3, <2>2, Zenon
  <2> QED
    BY <2>1, <2>3
<1> QED
  BY <1>4 DEF Min

(* A bounded one has a greatest element.                                   *)
LEMMA GreatestNatural ==
  ASSUME NEW b \in Nat, NEW I \in SUBSET (0 .. b), I # {}
  PROVE  Max(I) \in I /\ \A y \in I : Max(I) >= y
<1> DEFINE J == {b - y : y \in I}
<1>1. J \in SUBSET Nat /\ J # {}
  <2>1. \A y \in I : b - y \in Nat
    OBVIOUS
  <2> QED
    BY <2>1
<1>2. Min(J) \in J /\ \A y \in J : Min(J) <= y
  <2> HIDE DEF J
  <2> QED
    BY <1>1, LeastNatural
<1>3. PICK x \in I : b - x = Min(J)
  BY <1>2, Zenon
<1>4. ASSUME NEW y \in I PROVE x >= y
  <2>1. b - x <= b - y
    BY <1>2, <1>3
  <2> QED
    BY <2>1
<1> QED
  BY <1>4 DEF Max

(* A number below the modulus is left as it is.                            *)
LEMMA SmallMod ==
  ASSUME NEW a \in Nat, NEW M \in Nat, a < M
  PROVE  a % M = a
OBVIOUS

-----------------------------------------------------------------------------
(***************************************************************************)
(* Recursive functions.  A function on D that is out[x] where x is in      *)
(* `stop', and follows from its value at next[x] elsewhere, exists if each *)
(* x gets to `stop'; `Inductive' states that as a principle of induction.  *)
(***************************************************************************)
Inductive(D, stop, next) ==
  \A T \in SUBSET D :
    stop \subseteq T /\ (\A x \in D \ stop : next[x] \in T => x \in T) => T = D

(* The principle follows from a number that falls at every step.           *)
LEMMA InductiveByMeasure ==
  ASSUME NEW D, NEW stop \in SUBSET D, NEW next \in [D \ stop -> D],
         NEW m \in [D -> Nat], \A x \in D \ stop : m[next[x]] < m[x]
  PROVE  Inductive(D, stop, next)
<1> SUFFICES ASSUME NEW T \in SUBSET D, stop \subseteq T,
                    \A x \in D \ stop : next[x] \in T => x \in T,
                    T # D
             PROVE  FALSE
  BY DEF Inductive
<1> DEFINE I == {m[x] : x \in D \ T}
<1>1. I \in SUBSET Nat /\ I # {}
  OBVIOUS
<1>6. Min(I) \in I /\ \A y \in I : Min(I) <= y
  <2> HIDE DEF I
  <2> QED
    BY <1>1, LeastNatural
<1>2. PICK x \in D \ T : m[x] = Min(I)
  BY <1>6, Zenon
<1>3. next[x] \in D \ T /\ m[next[x]] < m[x]
  OBVIOUS
<1>4. m[next[x]] \in I /\ m[next[x]] \in Nat
  BY <1>3
<1> HIDE DEF I
<1>5. Min(I) <= m[next[x]]
  BY <1>4, <1>6
<1>7. m[x] \in Nat
  OBVIOUS
<1> QED
  BY <1>2, <1>3, <1>4, <1>5, <1>7

Recurses(w, D, stop, next, out, comb) ==
  w = [x \in D |-> IF x \in stop THEN out[x] ELSE comb[<<x, w[next[x]]>>]]

(* The function exists: the least set of pairs that has its values.        *)
LEMMA RecursionExists ==
  ASSUME NEW D, NEW stop \in SUBSET D, NEW next \in [D \ stop -> D],
         NEW V, NEW out, NEW comb,
         Inductive(D, stop, next),
         \A x \in stop : out[x] \in V,
         \A x \in D \ stop, v \in V : comb[<<x, v>>] \in V
  PROVE  \E w \in [D -> V] : Recurses(w, D, stop, next, out, comb)
<1> DEFINE Cl(C) == /\ \A x \in stop : <<x, out[x]>> \in C
                    /\ \A x \in D \ stop, v \in V :
                         <<next[x], v>> \in C => <<x, comb[<<x, v>>]>> \in C
           R == {p \in D \X V : \A C \in SUBSET (D \X V) : Cl(C) => p \in C}
           T == {x \in D : \E v \in V : <<x, v>> \in R /\ \A u \in V : <<x, u>> \in R => u = v}
<1>1. Cl(R)
  OBVIOUS
<1>2. ASSUME NEW x \in D, NEW v \in V, <<x, v>> \in R,
             Cl(R \ {<<x, v>>})
      PROVE  FALSE
  <2>1. R \ {<<x, v>>} \in SUBSET (D \X V)
    OBVIOUS
  <2>2. <<x, v>> \in R \ {<<x, v>>}
    BY <1>2, <2>1, Zenon
  <2> QED
    BY <2>2
<1> HIDE DEF R
<1>3. ASSUME NEW x \in stop PROVE x \in T
  <2>1. <<x, out[x]>> \in R /\ out[x] \in V
    BY <1>1
  <2>2. ASSUME NEW u \in V, <<x, u>> \in R, u # out[x] PROVE FALSE
    <3>1. Cl(R \ {<<x, u>>})
      BY <1>1, <2>2
    <3> QED
      BY <1>2, <2>2, <3>1
  <2> QED
    BY <2>1, <2>2
<1>4. ASSUME NEW x \in D \ stop, next[x] \in T PROVE x \in T
  <2>1. PICK v \in V : /\ <<next[x], v>> \in R
                       /\ \A u \in V : <<next[x], u>> \in R => u = v
    BY <1>4
  <2>2. <<x, comb[<<x, v>>]>> \in R /\ comb[<<x, v>>] \in V
    BY <1>1, <2>1
  <2>3. ASSUME NEW u \in V, <<x, u>> \in R, u # comb[<<x, v>>] PROVE FALSE
    <3>1. Cl(R \ {<<x, u>>})
      BY <1>1, <2>1, <2>3
    <3> QED
      BY <1>2, <2>3, <3>1
  <2> QED
    BY <2>2, <2>3
<1>5. T = D
  BY <1>3, <1>4 DEF Inductive
<1> DEFINE w == [x \in D |-> CHOOSE v \in V : <<x, v>> \in R]
<1>6. \A x \in D : /\ w[x] \in V /\ <<x, w[x]>> \in R
                   /\ \A u \in V : <<x, u>> \in R => u = w[x]
  BY <1>5
<1>7. ASSUME NEW x \in D
      PROVE  w[x] = IF x \in stop THEN out[x] ELSE comb[<<x, w[next[x]]>>]
  <2> HIDE DEF T, w
  <2>1. CASE x \in stop
    BY <1>1, <1>6, <2>1
  <2>2. CASE x \notin stop
    <3>1. next[x] \in D
      BY <2>2
    <3>2. <<x, comb[<<x, w[next[x]]>>]>> \in R /\ comb[<<x, w[next[x]]>>] \in V
      BY <1>1, <1>6, <2>2, <3>1
    <3> QED
      BY <1>6, <2>2, <3>2
  <2> QED
    BY <2>1, <2>2
<1>8. w \in [D -> V]
  BY <1>6
<1> HIDE DEF w
<1>9. Recurses(w, D, stop, next, out, comb)
  BY <1>7, <1>8 DEF Recurses
<1> QED
  BY <1>8, <1>9

(* Counting up to N.                                                       *)
LEMMA Counting ==
  ASSUME NEW N \in Nat
  PROVE  Inductive(0 .. N, {0}, [k \in 1 .. N |-> k - 1])
<1> DEFINE D == 0 .. N
           next == [k \in 1 .. N |-> k - 1]
           m == [k \in D |-> k]
<1>1. D \ {0} = 1 .. N /\ {0} \in SUBSET D
  OBVIOUS
<1>2. next \in [D \ {0} -> D] /\ \A k \in D \ {0} : m[next[k]] < m[k]
  BY <1>1
<1>3. m \in [D -> Nat]
  OBVIOUS
<1> HIDE DEF D, next, m
<1>4. Inductive(D, {0}, next)
  BY <1>1, <1>2, <1>3, InductiveByMeasure
<1> QED
  BY <1>4 DEF D, next

(* What holds of 0, and of a number if of the one before, holds up to N.   *)
LEMMA CountedSet ==
  ASSUME NEW N \in Nat, NEW T \in SUBSET (0 .. N), 0 \in T,
         \A k \in 1 .. N : k - 1 \in T => k \in T
  PROVE  T = 0 .. N
<1> DEFINE next == [k \in 1 .. N |-> k - 1]
<1>1. \A k \in (0 .. N) \ {0} : k \in 1 .. N /\ next[k] = k - 1
  OBVIOUS
<1> HIDE DEF next
<1>2. \A k \in (0 .. N) \ {0} : next[k] \in T => k \in T
  BY <1>1
<1>3. Inductive(0 .. N, {0}, next)
  BY Counting DEF next
<1> QED
  BY <1>2, <1>3 DEF Inductive

(* A value for every number up to N, each from the one before.             *)
Counts(w, N, a, comb) == w[0] = a /\ \A k \in 1 .. N : w[k] = comb[<<k, w[k - 1]>>]

LEMMA CountedExists ==
  ASSUME NEW N \in Nat, NEW V, NEW a \in V, NEW comb,
         \A k \in 1 .. N, v \in V : comb[<<k, v>>] \in V
  PROVE  \E w \in [0 .. N -> V] : Counts(w, N, a, comb)
<1> DEFINE D == 0 .. N
           next == [k \in 1 .. N |-> k - 1]
           out == [k \in {0} |-> a]
<1>1. D \ {0} = 1 .. N /\ {0} \in SUBSET D
  OBVIOUS
<1>2. next \in [D \ {0} -> D] /\ \A k \in 1 .. N : next[k] = k - 1
  BY <1>1
<1>3. \A k \in {0} : out[k] \in V
  OBVIOUS
<1>4. out[0] = a
  OBVIOUS
<1>5. Inductive(D, {0}, next)
  BY Counting
<1>6. \A k \in D \ {0}, v \in V : comb[<<k, v>>] \in V
  BY <1>1
<1> HIDE DEF D, next, out
<1>7. PICK w \in [D -> V] : Recurses(w, D, {0}, next, out, comb)
  BY <1>1, <1>2, <1>3, <1>5, <1>6, RecursionExists, Zenon
<1>8. \A k \in D : w[k] = IF k \in {0} THEN out[k] ELSE comb[<<k, w[next[k]]>>]
  BY <1>7, Zenon DEF Recurses
<1>9. 0 \in D /\ \A k \in 1 .. N : k \in D /\ k \notin {0}
  BY <1>1
<1>10. \A k \in 1 .. N : w[k] = comb[<<k, w[next[k]]>>]
  BY <1>8, <1>9, Zenon
<1>11. \A k \in 1 .. N : w[k] = comb[<<k, w[k - 1]>>]
  BY <1>2, <1>10, Zenon
<1>12. w[0] = a
  BY <1>4, <1>8, <1>9
<1> QED
  BY <1>7, <1>11, <1>12, Zenon DEF D, Counts

-----------------------------------------------------------------------------
(* Sequences.                                                              *)

(* What RemoveAt() leaves of a sequence.                                   *)
LEMMA RemoveAtProperties ==
  ASSUME NEW S, NEW s \in Seq(S), NEW i \in 1 .. Len(s)
  PROVE  /\ RemoveAt(s, i) \in Seq(S)
         /\ Len(RemoveAt(s, i)) = Len(s) - 1
         /\ \A j \in 1 .. Len(s) - 1 :
              RemoveAt(s, i)[j] = IF j < i THEN s[j] ELSE s[j + 1]
<1> DEFINE u == SubSeq(s, 1, i - 1)
           w == SubSeq(s, i + 1, Len(s))
<1>1. Len(s) \in Nat /\ \A j \in 1 .. Len(s) : s[j] \in S
  BY LenProperties, ElementOfSeq
<1>2. /\ u \in Seq(S)
      /\ Len(u) = i - 1
      /\ \A j \in 1 .. i - 1 : u[j] = s[j]
  <2>1. \A j \in 1 .. i - 1 : s[j] \in S
    BY <1>1
  <2>2. QED
    BY <1>1, <2>1, SubSeqProperties
<1>3. /\ w \in Seq(S)
      /\ Len(w) = Len(s) - i
      /\ \A j \in 1 .. Len(s) - i : w[j] = s[i + j]
  <2>1. \A j \in i + 1 .. Len(s) : s[j] \in S
    BY <1>1
  <2>2. QED
    BY <1>1, <2>1, SubSeqProperties
<1>5. RemoveAt(s, i) = u \o w
  BY DEF RemoveAt
<1> HIDE DEF u, w
<1>4. /\ u \o w \in Seq(S)
      /\ Len(u \o w) = Len(u) + Len(w)
      /\ \A j \in 1 .. Len(u) + Len(w) :
           (u \o w)[j] = IF j <= Len(u) THEN u[j] ELSE w[j - Len(u)]
  BY <1>2, <1>3, ConcatProperties
<1>6. Len(u) + Len(w) = Len(s) - 1
  BY <1>1, <1>2, <1>3
<1>7. ASSUME NEW j \in 1 .. Len(s) - 1
      PROVE  (u \o w)[j] = IF j < i THEN s[j] ELSE s[j + 1]
  <2>1. (u \o w)[j] = IF j <= Len(u) THEN u[j] ELSE w[j - Len(u)]
    BY <1>4, <1>6
  <2>2. CASE j < i
    BY <1>1, <1>2, <2>1, <2>2
  <2>3. CASE ~(j < i)
    <3>1. j - (i - 1) \in 1 .. Len(s) - i /\ i + (j - (i - 1)) = j + 1
      BY <1>1, <2>3
    <3>2. w[j - (i - 1)] = s[j + 1]
      BY <1>3, <3>1
    <3> QED
      BY <1>1, <1>2, <2>1, <2>3, <3>2
  <2> QED
    BY <2>2, <2>3
<1> QED
  BY <1>4, <1>5, <1>6, <1>7

(* Without duplicates, one element less.                                   *)
LEMMA RemoveAtToSet ==
  ASSUME NEW S, NEW s \in Seq(S), NEW i \in 1 .. Len(s),
         \A j, k \in 1 .. Len(s) : s[j] = s[k] => j = k
  PROVE  /\ ToSet(RemoveAt(s, i)) = ToSet(s) \ {s[i]}
         /\ \A j, k \in 1 .. Len(RemoveAt(s, i)) :
              RemoveAt(s, i)[j] = RemoveAt(s, i)[k] => j = k
<1> DEFINE r == RemoveAt(s, i)
<1>1. /\ r \in Seq(S) /\ Len(s) \in Nat
      /\ Len(r) = Len(s) - 1
      /\ \A j \in 1 .. Len(s) - 1 : r[j] = IF j < i THEN s[j] ELSE s[j + 1]
  BY RemoveAtProperties, LenProperties
<1>2. DOMAIN r = 1 .. Len(s) - 1 /\ DOMAIN s = 1 .. Len(s)
  BY <1>1, LenProperties
<1> HIDE DEF r
<1>3. ASSUME NEW x \in ToSet(r) PROVE x \in ToSet(s) \ {s[i]}
  <2>1. PICK j \in 1 .. Len(s) - 1 : x = r[j]
    BY <1>2 DEF ToSet
  <2>2. CASE j < i
    BY <1>1, <1>2, <2>1, <2>2 DEF ToSet
  <2>3. CASE ~(j < i)
    BY <1>1, <1>2, <2>1, <2>3 DEF ToSet
  <2> QED
    BY <2>2, <2>3
<1>4. ASSUME NEW x \in ToSet(s) \ {s[i]} PROVE x \in ToSet(r)
  <2>1. PICK j \in 1 .. Len(s) : x = s[j]
    BY <1>2 DEF ToSet
  <2>2. CASE j < i
    BY <1>1, <1>2, <2>1, <2>2 DEF ToSet
  <2>3. CASE j > i
    <3>1. j - 1 \in 1 .. Len(s) - 1 /\ r[j - 1] = s[j]
      BY <1>1, <2>3
    <3> QED
      BY <1>2, <2>1, <3>1 DEF ToSet
  <2> QED
    BY <2>1, <2>2, <2>3
<1>5. ASSUME NEW j \in 1 .. Len(r), NEW k \in 1 .. Len(r), r[j] = r[k]
      PROVE  j = k
  <2>1. /\ r[j] = IF j < i THEN s[j] ELSE s[j + 1]
        /\ r[k] = IF k < i THEN s[k] ELSE s[k + 1]
    BY <1>1
  <2>2. /\ j \in 1 .. Len(s) /\ j + 1 \in 1 .. Len(s)
        /\ k \in 1 .. Len(s) /\ k + 1 \in 1 .. Len(s)
    BY <1>1
  <2>3. CASE j < i /\ k < i
    BY <1>5, <2>1, <2>2, <2>3
  <2>4. CASE ~(j < i) /\ ~(k < i)
    <3>1. s[j + 1] = s[k + 1]
      BY <1>5, <2>1, <2>4
    <3>2. j + 1 = k + 1
      BY <2>2, <3>1
    <3> QED
      BY <3>2
  <2>5. CASE j < i /\ ~(k < i)
    <3>1. s[j] = s[k + 1]
      BY <1>5, <2>1, <2>5
    <3>2. j = k + 1
      BY <2>2, <3>1
    <3> QED
      BY <2>5, <3>2
  <2>6. CASE ~(j < i) /\ k < i
    <3>1. s[j + 1] = s[k]
      BY <1>5, <2>1, <2>6
    <3>2. j + 1 = k
      BY <2>2, <3>1
    <3> QED
      BY <2>6, <3>2
  <2> QED
    BY <2>3, <2>4, <2>5, <2>6
<1> QED
  BY <1>3, <1>4, <1>5 DEF r

(* Appending one more element.                                             *)
LEMMA AppendToSet ==
  ASSUME NEW S, NEW s \in Seq(S), NEW e \in S, e \notin ToSet(s),
         \A i, j \in DOMAIN s : s[i] = s[j] => i = j
  PROVE  /\ Append(s, e) \in Seq(S)
         /\ ToSet(Append(s, e)) = ToSet(s) \cup {e}
         /\ \A i, j \in DOMAIN Append(s, e) :
              Append(s, e)[i] = Append(s, e)[j] => i = j
<1> DEFINE r == Append(s, e)
<1>1. /\ r \in Seq(S) /\ Len(r) = Len(s) + 1 /\ Len(s) \in Nat
      /\ \A i \in 1 .. Len(s) : r[i] = s[i]
      /\ r[Len(s) + 1] = e
      /\ DOMAIN s = 1 .. Len(s)
  BY AppendProperties, LenProperties
<1> HIDE DEF r
<1>2. DOMAIN r = 1 .. Len(s) + 1
  BY <1>1, LenProperties
<1>3. ToSet(r) = ToSet(s) \cup {e}
  BY <1>1, <1>2 DEF ToSet
<1>4. \A i, j \in DOMAIN r : r[i] = r[j] => i = j
  BY <1>1, <1>2 DEF ToSet
<1> QED
  BY <1>1, <1>3, <1>4 DEF r

-----------------------------------------------------------------------------
(* FlattenSeq(): JoinedUpTo(s)[k] joins the first k sequences of s.        *)
Joins(g, s) == g[0] = <<>> /\ \A k \in 1 .. Len(s) : g[k] = g[k - 1] \o s[k]

FlattenBody(s, w) ==
  [i \in 1 .. Len(s) |-> IF i = 1 THEN s[i] ELSE w[i - 1] \o s[i]]
FlattenFun(s) == CHOOSE w : w = FlattenBody(s, w)
JoinedUpTo(s) == [k \in 0 .. Len(s) |-> IF k = 0 THEN <<>> ELSE FlattenFun(s)[k]]

LEMMA FlattenJoins ==
  ASSUME NEW S, NEW s \in Seq(Seq(S))
  PROVE  /\ JoinedUpTo(s) \in [0 .. Len(s) -> Seq(S)]
         /\ Joins(JoinedUpTo(s), s)
         /\ FlattenSeq(s) = JoinedUpTo(s)[Len(s)]
<1> DEFINE N == Len(s)
           V == Seq(S)
           comb == [kv \in (1 .. N) \X V |-> kv[2] \o s[kv[1]]]
<1>1. N \in Nat /\ \A k \in 1 .. N : s[k] \in V
  BY LenProperties, ElementOfSeq
<1>2. \A k \in 1 .. N, v \in V : comb[<<k, v>>] = v \o s[k]
  BY Zenon
<1>3. <<>> \in V
  OBVIOUS
<1>4. \A k \in 1 .. N, v \in V : v \o s[k] \in V
  BY <1>1
<1>5. \A k \in 1 .. N, v \in V : comb[<<k, v>>] \in V
  BY <1>2, <1>4, Zenon
<1>6. \A v \in V : <<>> \o v = v
  BY ConcatEmptySeq
<1> HIDE DEF N, V, comb
<1> DEFINE e == <<>>
<1>17. e \in V
  BY <1>3
<1> HIDE DEF e
<1>18. \E g \in [0 .. N -> V] : Counts(g, N, e, comb)
  <2>1. N \in Nat
    BY <1>1
  <2> QED
    BY <2>1, <1>5, <1>17, CountedExists, Zenon
<1>7. PICK g \in [0 .. N -> V] :
        g[0] = <<>> /\ \A k \in 1 .. N : g[k] = comb[<<k, g[k - 1]>>]
  BY <1>18, Zenon DEF e, Counts
<1>19. 1 \in 1 .. N => g[1] = <<>> \o s[1]
  <2>1. 1 - 1 = 0
    OBVIOUS
  <2> SUFFICES ASSUME 1 \in 1 .. N
               PROVE  g[1] = <<>> \o s[1]
    OBVIOUS
  <2>2. g[1] = comb[<<1, g[1 - 1]>>] /\ <<>> \in V
    BY <1>3, <1>7
  <2>3. g[1] = comb[<<1, <<>>>>]
    BY <1>7, <2>1, <2>2, Zenon
  <2> QED
    BY <1>2, <2>2, <2>3, Zenon
<1>8. \A k \in 1 .. N : g[k - 1] \in V /\ g[k] = g[k - 1] \o s[k]
  <2>1. \A k \in 1 .. N : k - 1 \in 0 .. N
    BY <1>1
  <2> QED
    BY <1>2, <1>7, <2>1
<1>9. Joins(g, s)
  BY <1>7, <1>8, Zenon DEF Joins, N
<1> DEFINE w == [i \in 1 .. N |-> g[i]]
<1>10. \A i \in 1 .. N : w[i] = IF i = 1 THEN s[i] ELSE w[i - 1] \o s[i]
  <2> SUFFICES ASSUME NEW i \in 1 .. N
               PROVE  w[i] = IF i = 1 THEN s[i] ELSE w[i - 1] \o s[i]
    OBVIOUS
  <2>1. CASE i = 1
    <3>1. g[i] = <<>> \o s[i]
      BY <1>19, <2>1, Zenon
    <3> QED
      BY <1>1, <1>6, <2>1, <3>1
  <2>2. CASE i # 1
    <3>1. i - 1 \in 1 .. N
      BY <1>1, <2>2
    <3> QED
      BY <1>8, <2>2, <3>1
  <2> QED
    BY <2>1, <2>2
<1>11. w = FlattenBody(s, w)
  <2>1. w = [i \in 1 .. N |-> w[i]]
    OBVIOUS
  <2> HIDE DEF w
  <2> QED
    BY <1>10, <2>1, Zenon DEF FlattenBody, N
<1> HIDE DEF w
<1> DEFINE h == FlattenFun(s)
<1>12. h = FlattenBody(s, h)
  BY <1>11, Zenon DEF FlattenFun
<1> HIDE DEF h
<1>13. \A i \in 1 .. N : h[i] = IF i = 1 THEN s[i] ELSE h[i - 1] \o s[i]
  BY <1>12, Zenon DEF FlattenBody, N
<1>14. \A k \in 1 .. N : h[k] = g[k]
  <2> DEFINE T == {k \in 0 .. N : k = 0 \/ h[k] = g[k]}
  <2>1. 0 \in T
    BY <1>1
  <2>2. ASSUME NEW k \in 1 .. N, k - 1 \in T
        PROVE  k \in T
    <3>1. CASE k = 1
      <4>1. g[k] = <<>> \o s[k]
        BY <1>19, <3>1, Zenon
      <4> QED
        BY <1>1, <1>6, <1>13, <3>1, <4>1
    <3>2. CASE k # 1
      <4>1. h[k - 1] = g[k - 1]
        <5>1. k - 1 # 0
          BY <1>1, <3>2
        <5> QED
          BY <2>2, <5>1
      <4>2. h[k] = g[k]
        BY <1>8, <1>13, <3>2, <4>1, Zenon
      <4>3. k \in 0 .. N
        BY <1>1
      <4> QED
        BY <4>2, <4>3
    <3> QED
      BY <3>1, <3>2
  <2> HIDE DEF T
  <2>3. T \in SUBSET (0 .. N)
    BY DEF T
  <2>4. T = 0 .. N
    BY <1>1, <2>1, <2>2, <2>3, CountedSet
  <2> QED
    BY <2>4 DEF T
<1>15. FlattenSeq(s) = IF N = 0 THEN s ELSE h[N]
  BY Zenon DEF FlattenSeq, FlattenFun, FlattenBody, N, h
<1>16. FlattenSeq(s) = g[N]
  <2>1. CASE N = 0
    <3>1. s = <<>>
      BY <2>1, EmptySeq DEF N
    <3> QED
      BY <1>7, <1>15, <2>1, <3>1
  <2>2. CASE N # 0
    <3>1. N \in 1 .. N
      BY <1>1, <2>2
    <3> QED
      BY <1>14, <1>15, <2>2, <3>1
  <2> QED
    BY <2>1, <2>2
<1>20. JoinedUpTo(s) = g
  <2> DEFINE j == JoinedUpTo(s)
  <2>1. j = [k \in 0 .. N |-> IF k = 0 THEN <<>> ELSE h[k]]
    BY Zenon DEF JoinedUpTo, N, h
  <2>2. \A k \in 0 .. N : k # 0 => k \in 1 .. N
    BY <1>1
  <2> HIDE DEF j
  <2>3. \A k \in 0 .. N : j[k] = g[k]
    BY <1>7, <1>14, <2>1, <2>2, Zenon
  <2>4. j = g
    BY <2>1, <2>3
  <2> QED
    BY <2>4 DEF j
<1> QED
  BY <1>9, <1>16, <1>20 DEF N, V

(* What is joined is a sequence.                                           *)
LEMMA FlattenIsSeq ==
  ASSUME NEW S, NEW s \in Seq(Seq(S))
  PROVE  FlattenSeq(s) \in Seq(S)
<1>1. JoinedUpTo(s) \in [0 .. Len(s) -> Seq(S)] /\ FlattenSeq(s) = JoinedUpTo(s)[Len(s)]
  BY FlattenJoins
<1>2. Len(s) \in 0 .. Len(s)
  BY LenProperties
<1> QED
  BY <1>1, <1>2
=============================================================================
