---------------------------- MODULE ParserProofs ----------------------------
(***************************************************************************)
(* Whatever text it is given, the parser keeps to the grammar, knows where *)
(* it is, leaves a legal tree wherever it stops, and has built the tree of *)
(* the text when the text ends: proofs for module Parser.                  *)
(*                                                                         *)
(* The texts are those of files, any sequence of tokens, and those that    *)
(* the program has written itself.  That these are sequences of tokens,    *)
(* too, rests on the names in the tree of an accepted text (NamesInv) and  *)
(* on the text that each setting has (TextsExist).                         *)
(***************************************************************************)
EXTENDS Parser, SettingTreeProofs

-----------------------------------------------------------------------------
(* The way from a setting up to the root.                                  *)

(* From p up to r, over settings of lv with the types o.                   *)
WayUp(up, p, o, ty, pa, r) ==
  /\ up[1] = p
  /\ \A i \in DOMAIN o : ty[up[i]] = o[i] /\ pa[up[i]] = up[i + 1]
  /\ up[Len(o) + 1] = r
Up(p, o, lv, ty, pa, r) ==
  \E up \in [1 .. Len(o) + 1 -> lv] : WayUp(up, p, o, ty, pa, r)

(* It stays when nothing that is above p changes.                          *)
LEMMA UpKept ==
  ASSUME NEW p, NEW o \in Seq(Aggregates), NEW lv, NEW ty, NEW pa, NEW r,
         NEW lv2, NEW ty2, NEW pa2, NEW stay,
         Up(p, o, lv, ty, pa, r),
         p \in stay, stay \subseteq lv2,
         \A x \in stay \ {r} : pa[x] \in stay,
         pa[r] \notin lv,
         \A x \in stay : pa2[x] = pa[x] /\ (ty[x] \in Aggregates => ty2[x] = ty[x])
  PROVE  Up(p, o, lv2, ty2, pa2, r)
<1>1. PICK up \in [1 .. Len(o) + 1 -> lv] : WayUp(up, p, o, ty, pa, r)
  BY DEF Up
<1>2. Len(o) \in Nat /\ DOMAIN o = 1 .. Len(o) /\ \A i \in DOMAIN o : o[i] \in Aggregates
  BY LenProperties, ElementOfSeq
<1> DEFINE Off == {i \in 1 .. Len(o) + 1 : up[i] \notin stay}
<1>3. Off = {}
  <2> SUFFICES ASSUME Off # {} PROVE FALSE
    OBVIOUS
  <2>1. Off \in SUBSET Nat
    BY <1>2
  <2>2. PICK m \in Off : \A j \in Off : m <= j
    BY <2>1, LeastNatural
  <2>3. m \in 1 .. Len(o) + 1 /\ m # 1
    BY <1>1, <1>2 DEF WayUp
  <2>4. m - 1 \in DOMAIN o /\ m - 1 \notin Off /\ m - 1 \in 1 .. Len(o) + 1
    BY <1>2, <2>2, <2>3
  <2>5. up[m - 1] \in stay /\ pa[up[m - 1]] = up[m]
    BY <1>1, <1>2, <2>3, <2>4 DEF WayUp
  <2>6. up[m - 1] # r
    BY <1>1, <2>3, <2>5
  <2> QED
    BY <2>5, <2>6, <2>2
<1>4. up \in [1 .. Len(o) + 1 -> lv2] /\ \A i \in 1 .. Len(o) + 1 : up[i] \in stay
  BY <1>1, <1>3
<1>5. WayUp(up, p, o, ty2, pa2, r)
  <2>1. \A i \in DOMAIN o : i \in 1 .. Len(o) + 1
    BY <1>2
  <2> QED
    BY <1>1, <1>2, <1>4, <2>1 DEF WayUp
<1> QED
  BY <1>4, <1>5 DEF Up

(* One more below.                                                         *)
LEMMA UpPushed ==
  ASSUME NEW p, NEW o \in Seq(Aggregates), NEW lv, NEW ty, NEW pa, NEW r,
         Up(p, o, lv, ty, pa, r), NEW c \in lv, NEW t, pa[c] = p, ty[c] = t
  PROVE  Up(c, <<t>> \o o, lv, ty, pa, r)
<1>1. PICK up \in [1 .. Len(o) + 1 -> lv] : WayUp(up, p, o, ty, pa, r)
  BY DEF Up
<1> DEFINE n == Len(o)
           more == <<t>> \o o
           upper == [i \in 1 .. n + 2 |-> IF i = 1 THEN c ELSE up[i - 1]]
<1>2. n \in Nat /\ DOMAIN o = 1 .. n
  BY LenProperties
<1>3. /\ Len(more) = n + 1 /\ DOMAIN more = 1 .. n + 1
      /\ more[1] = t /\ \A i \in 2 .. n + 1 : more[i] = o[i - 1]
  BY <1>2
<1>4. upper \in [1 .. n + 2 -> lv]
  BY <1>1, <1>2
<1>5. /\ upper[1] = c /\ upper[2] = p /\ upper[n + 2] = r
      /\ \A i \in 2 .. n + 1 : /\ upper[i] = up[i - 1] /\ upper[i + 1] = up[i]
                               /\ i - 1 \in DOMAIN o /\ (i - 1) + 1 = i
  BY <1>1, <1>2 DEF WayUp
<1> HIDE DEF n, more, upper
<1>6. WayUp(upper, c, more, ty, pa, r)
  <2>1. upper[Len(more) + 1] = r
    BY <1>2, <1>3, <1>5
  <2>2. ASSUME NEW i \in DOMAIN more
        PROVE  ty[upper[i]] = more[i] /\ pa[upper[i]] = upper[i + 1]
    <3>1. CASE i = 1
      BY <1>3, <1>5, <3>1
    <3>2. CASE i # 1
      <4>1. i \in 2 .. n + 1
        BY <1>2, <1>3, <3>2
      <4>2. ty[up[i - 1]] = o[i - 1] /\ pa[up[i - 1]] = up[i]
        BY <1>1, <1>5, <4>1 DEF WayUp
      <4> QED
        BY <1>3, <1>5, <4>1, <4>2
    <3> QED
      BY <3>1, <3>2
  <2> QED
    BY <1>5, <2>1, <2>2 DEF WayUp
<1>7. upper \in [1 .. Len(more) + 1 -> lv]
  <2>1. Len(more) + 1 = n + 2
    BY <1>2, <1>3
  <2> QED
    BY <1>4, <2>1
<1> QED
  BY <1>6, <1>7 DEF Up, more

(* One less.                                                               *)
LEMMA UpPopped ==
  ASSUME NEW p, NEW o \in Seq(Aggregates), NEW lv, NEW ty, NEW pa, NEW r,
         Up(p, o, lv, ty, pa, r), o # <<>>
  PROVE  Up(pa[p], Tail(o), lv, ty, pa, r)
<1>1. PICK up \in [1 .. Len(o) + 1 -> lv] : WayUp(up, p, o, ty, pa, r)
  BY DEF Up
<1> DEFINE n == Len(o)
           less == Tail(o)
           lower == [i \in 1 .. n |-> up[i + 1]]
<1>2. n \in Nat \ {0} /\ DOMAIN o = 1 .. n
  BY LenProperties, EmptySeq
<1>3. /\ Len(less) = n - 1 /\ DOMAIN less = 1 .. n - 1
      /\ \A i \in 1 .. n - 1 : less[i] = o[i + 1]
  BY <1>2
<1>4. lower \in [1 .. n -> lv]
  BY <1>1, <1>2
<1>5. /\ lower[1] = pa[p] /\ lower[n] = r
      /\ \A i \in 1 .. n - 1 : /\ lower[i] = up[i + 1] /\ lower[i + 1] = up[i + 2]
                               /\ i + 1 \in DOMAIN o /\ (i + 1) + 1 = i + 2
  BY <1>1, <1>2 DEF WayUp
<1> HIDE DEF n, less, lower
<1>6. WayUp(lower, pa[p], less, ty, pa, r)
  <2>1. lower[Len(less) + 1] = r
    BY <1>2, <1>3, <1>5
  <2>2. ASSUME NEW i \in DOMAIN less
        PROVE  ty[lower[i]] = less[i] /\ pa[lower[i]] = lower[i + 1]
    <3>1. i \in 1 .. n - 1
      BY <1>3
    <3>2. ty[up[i + 1]] = o[i + 1] /\ pa[up[i + 1]] = up[i + 2]
      BY <1>1, <1>5, <3>1 DEF WayUp
    <3> QED
      BY <1>3, <1>5, <3>1, <3>2
  <2> QED
    BY <1>5, <2>1, <2>2 DEF WayUp
<1>7. lower \in [1 .. Len(less) + 1 -> lv]
  <2>1. Len(less) + 1 = n
    BY <1>2, <1>3
  <2> QED
    BY <1>4, <2>1
<1> QED
  BY <1>6, <1>7 DEF Up, less

(* Where it starts.                                                        *)
LEMMA UpStarts ==
  ASSUME NEW p, NEW o \in Seq(Aggregates), NEW lv, NEW ty, NEW pa, NEW r,
         Up(p, o, lv, ty, pa, r)
  PROVE  p \in lv /\ ty[p] = IF o = <<>> THEN ty[r] ELSE Head(o)
<1>1. PICK up \in [1 .. Len(o) + 1 -> lv] : WayUp(up, p, o, ty, pa, r)
  BY DEF Up
<1>2. Len(o) \in Nat /\ DOMAIN o = 1 .. Len(o) /\ (o = <<>> <=> Len(o) = 0)
  BY LenProperties, EmptySeq
<1>3. o # <<>> => Head(o) = o[1] /\ 1 \in DOMAIN o
  BY <1>2
<1>4. 1 \in 1 .. Len(o) + 1
  BY <1>2
<1> QED
  BY <1>1, <1>2, <1>3, <1>4 DEF WayUp

-----------------------------------------------------------------------------
(* What the code of the rules does to the tree.                            *)

TreeInv == ArrayInv /\ ValuesFit

LEMMA LifeStepTree == ASSUME TreeInv, LifeStep PROVE TreeInv'
<1>1. IInv /\ ShapeInv /\ ArrayInv /\ TypeOK /\ ValuesFit
  BY DEF TreeInv, ArrayInv, ShapeInv, IInv
<1>2. IInv' /\ ShapeOK' /\ ArraysAreHomogeneous' /\ ValuesFit'
  BY <1>1, LifeStepKeeps, LifeStepShape, LifeStepArrays, LifeStepValues, ValuesStayFit
<1> QED
  BY <1>2 DEF TreeInv, ArrayInv, ShapeInv

LEMMA RefuseTree == ASSUME TreeInv, Refuse PROVE TreeInv'
<1>1. IInv /\ ShapeInv /\ ArrayInv /\ TypeOK /\ ValuesFit
  BY DEF TreeInv, ArrayInv, ShapeInv, IInv
<1>2. ValueStep
  BY DEF Refuse, Unchanged, fields, ValueStep
<1>3. IInv' /\ ShapeOK' /\ ArraysAreHomogeneous' /\ ValuesFit'
  BY <1>1, <1>2, RefuseKeeps, RefuseIsRetyped, RetypedShape, RetypedArrays, ValuesStayFit
<1> QED
  BY <1>3 DEF TreeInv, ArrayInv, ShapeInv

LEMMA StutterTree == ASSUME TreeInv, UNCHANGED vars PROVE TreeInv'
<1>1. IInv /\ ShapeInv /\ ArrayInv /\ TypeOK /\ ValuesFit
  BY DEF TreeInv, ArrayInv, ShapeInv, IInv
<1>2. [Next]_vars
  OBVIOUS
<1>3. Retyped /\ ValueStep
  BY DEF vars, Retyped, ValueStep
<1>4. IInv' /\ ShapeOK' /\ ArraysAreHomogeneous' /\ ValuesFit'
  BY <1>1, <1>2, <1>3, NextKeeps, RetypedShape, RetypedArrays, ValuesStayFit
<1> QED
  BY <1>4 DEF TreeInv, ArrayInv, ShapeInv

LEMMA AddTree ==
  ASSUME TreeInv, NEW p \in live, NEW n \in Names \cup {NULL}, NEW t,
         t \notin ScalarTypes, ConfigSettingAdd(p, n, t)
  PROVE  TreeInv'
<1>1. IInv /\ ShapeInv /\ ArrayInv /\ TypeOK /\ ValuesFit
  BY DEF TreeInv, ArrayInv, ShapeInv, IInv
<1>2. CASE Refuse
  BY <1>2, RefuseTree
<1>3. CASE ~Refuse
  <2>1. IInv' /\ ShapeOK' /\ ArraysAreHomogeneous' /\ ValuesFit'
    BY <1>1, <1>3, ConfigSettingAddKeeps, ConfigSettingAddShape, ConfigSettingAddArrays,
       ConfigSettingAddValues, ValuesStayFit
  <2> QED
    BY <2>1 DEF TreeInv, ArrayInv, ShapeInv
<1> QED
  BY <1>2, <1>3

(* The setting that was named becomes an aggregate.                        *)
LEMMA OpenTree ==
  ASSUME TreeInv, NEW s \in live, type[s] = "NONE", type[parent[s]] = "GROUP",
         NEW t \in Aggregates, type' = [type EXCEPT ![s] = t],
         UNCHANGED <<live, name, value, format, parent, hook, kids, config,
                     finalized, ok>>
  PROVE  TreeInv'
<1>1. IInv /\ ShapeInv /\ ArrayInv /\ TypeOK /\ ValuesFit
  BY DEF TreeInv, ArrayInv, ShapeInv, IInv
<1>2. type'[s] = t /\ \A x \in live \ {s} : type'[x] = type[x]
  BY <1>1 DEF TypeOK
<1>3. TypeOK'
  BY <1>1 DEF TypeOK, config, Types
<1>4. IInv'
  <2>1. \A x \in live : type[x] \in Aggregates => type'[x] = type[x]
    BY <1>2 DEF Aggregates
  <2> QED
    BY <1>1, <1>3, <2>1, LocalStepKeeps DEF config
<1>5. kids[s] = <<>> /\ DOMAIN kids[s] = {}
  BY <1>1 DEF ShapeInv, ShapeOK, Aggregates
<1>6. ASSUME NEW x \in live, type[x] = "ARRAY", NEW i \in DOMAIN kids[x]
      PROVE  kids[x][i] \in live \ {s}
  BY <1>1, <1>6 DEF IInv, TreeOK, ElementsAreLive
<1>7. ShapeOK'
  <2> SUFFICES ASSUME NEW x \in live PROVE Fits(type'[x], kids[x], name, type')
    BY DEF ShapeOK, Fits
  <2>1. CASE x = s
    BY <1>5, <2>1 DEF Fits
  <2>2. CASE x # s
    <3>1. Fits(type[x], kids[x], name, type) /\ type'[x] = type[x]
      BY <1>1, <1>2, <2>2, ShapeIsFits DEF ShapeInv
    <3> QED
      BY <1>2, <1>6, <3>1 DEF Fits
  <2> QED
    BY <2>1, <2>2
<1>8. ArraysAreHomogeneous'
  <2> SUFFICES ASSUME NEW x \in live, type'[x] = "ARRAY" PROVE Uniform(kids[x], type')
    BY DEF ArraysAreHomogeneous, Uniform
  <2>1. CASE x = s
    BY <1>5, <2>1 DEF Uniform
  <2>2. CASE x # s
    <3>1. type[x] = "ARRAY"
      BY <1>2, <2>2
    <3> QED
      BY <1>1, <1>2, <1>6, <3>1 DEF ArrayInv, ArraysAreHomogeneous, Uniform
  <2> QED
    BY <2>1, <2>2
<1>9. ValuesFit'
  <2>1. value[s] \in ValuesOf(t) /\ format[s] = "DEFAULT"
    BY <1>1 DEF ValuesFit, ValuesOf, Aggregates
  <2> QED
    BY <1>1, <1>2, <2>1 DEF ValuesFit
<1> QED
  BY <1>4, <1>7, <1>8, <1>9 DEF TreeInv, ArrayInv, ShapeInv

LEMMA FittingIsValue ==
  ASSUME NEW as \in ScalarTypes, NEW v \in ValuesOf(as)
  PROVE  v \in Values /\ as \in Types
<1>1. Int32 \subseteq Int /\ Int64 \subseteq Int
  BY WidthAssumption DEF Int32, Int64
<1>2. ValuesOf(as) \subseteq Values
  BY <1>1 DEF ValuesOf, Values
<1> QED
  BY <1>2 DEF Types

(* A scalar is appended to the open array or list.                         *)
LEMMA AppendTree ==
  ASSUME TreeInv, NEW p \in live, type[p] \in {"ARRAY", "LIST"},
         NEW as \in ScalarTypes, NEW v \in ValuesOf(as), NEW f \in AllFormats,
         f = "DEFAULT" \/ as \in {"INT", "INT64"}, CheckType(p, as),
         NEW c \in Settings \ live,
         Reshape({}, p, Append(kids[p], c), {c}, NULL, as, v, f),
         UNCHANGED config, ok' = TRUE
  PROVE  TreeInv'
<1>1. IInv /\ ShapeInv /\ ArrayInv /\ TypeOK /\ ValuesFit
  BY DEF TreeInv, ArrayInv, ShapeInv, IInv
<1>2. /\ kids[p] \in Seq(Settings)
      /\ \A i, j \in DOMAIN kids[p] : kids[p][i] = kids[p][j] => i = j
  BY <1>1 DEF IInv, TypeOK, TreeOK, NoDuplicates
<1>3. v \in Values /\ as \in Types
  BY FittingIsValue
<1>4. Closed({}) /\ live \ {} = live
  BY DEF Closed
<1>5. IInv'
  BY <1>1, <1>2, <1>3, <1>4, CreateKeeps
<1>6. ShapeOK' /\ ArraysAreHomogeneous'
  BY <1>1, AppendShape, AppendArrays
<1>7. ValuesFit'
  BY <1>1, CreatedFits, ValuesStayFit
<1> QED
  BY <1>5, <1>6, <1>7 DEF TreeInv, ArrayInv, ShapeInv

(* The setting that was named gets its scalar.                             *)
LEMMA AssignTree ==
  ASSUME TreeInv, NEW s \in live, type[s] = "NONE",
         NEW as \in ScalarTypes, NEW v \in ValuesOf(as), NEW auto \in BOOLEAN,
         NEW r \in Stored(as, type[s], v, auto), NEW f \in AllFormats,
         f = "DEFAULT" \/ r[1] \in {"INT", "INT64"},
         type' = [type EXCEPT ![s] = r[1]],
         value' = [value EXCEPT ![s] = r[2]],
         format' = [format EXCEPT ![s] = f],
         UNCHANGED <<live, name, parent, hook, kids, config, finalized>>,
         ok' = TRUE
  PROVE  TreeInv'
<1>1. IInv /\ ShapeInv /\ ArrayInv /\ TypeOK /\ ValuesFit
  BY DEF TreeInv, ArrayInv, ShapeInv, IInv
<1>2. r[1] \in ScalarTypes /\ r[2] \in ValuesOf(r[1])
  <2>1. type[s] \in Types
    BY <1>1 DEF TypeOK
  <2> QED
    BY <2>1, StoredFits, Zenon
<1>3. r[2] \in Values /\ r[1] \in Types
  BY <1>2, FittingIsValue
<1>4. TypeOK'
  BY <1>1, <1>3 DEF TypeOK, config
<1>5. type'[s] = r[1] /\ \A x \in live \ {s} : type'[x] = type[x]
  BY <1>1 DEF TypeOK
<1>6. IInv'
  <2>1. \A x \in live : type[x] \in Aggregates => type'[x] = type[x]
    BY <1>5 DEF Aggregates
  <2> QED
    BY <1>1, <1>4, <2>1, LocalStepKeeps DEF config
<1>7. Retyped
  BY <1>2, <1>5 DEF Retyped
<1>8. Assigned
  BY <1>2, Zenon DEF Assigned
<1>9. ShapeOK' /\ ArraysAreHomogeneous' /\ ValuesFit'
  BY <1>1, <1>7, <1>8, RetypedShape, RetypedArrays, ValuesStayFit DEF ValueStep
<1> QED
  BY <1>6, <1>9 DEF TreeInv, ArrayInv, ShapeInv

-----------------------------------------------------------------------------
(* What becomes of the way up and of the last element.                     *)

LEMMA LastOfAppend ==
  ASSUME NEW S, NEW ks \in Seq(S), NEW c \in S
  PROVE  Append(ks, c) # <<>> /\ Last(Append(ks, c)) = c
<1>1. /\ Append(ks, c) \in Seq(S) /\ Len(ks) \in Nat
      /\ Len(Append(ks, c)) = Len(ks) + 1 /\ Append(ks, c)[Len(ks) + 1] = c
  BY AppendProperties, LenProperties
<1> QED
  BY <1>1, EmptySeq DEF Last

(* The way stays when a setting is created and others go that are not on it.*)
LEMMA UpAfterReshape ==
  ASSUME IInv, NEW dead \in SUBSET live, Closed(dead), root \notin dead,
         NEW p \in live \ dead, NEW c \in Settings \ (live \ dead), NEW ks, NEW n,
         NEW t, NEW v, NEW f, Reshape(dead, p, ks, {c}, n, t, v, f),
         NEW o \in Seq(Aggregates), Up(p, o, live, type, parent, root)
  PROVE  Up(p, o, live', type', parent', root)
<1> DEFINE stay == live \ dead
<1>1. /\ live' = stay \cup {c}
      /\ \A x \in stay : type'[x] = type[x] /\ parent'[x] = parent[x]
  BY DEF Reshape, IInv, TypeOK
<1>2. root \in live
  BY DEF IInv, TypeOK, TreeOK, RootIsGroup
<1>3. \A x \in stay \ {root} : parent[x] \in stay
  BY DEF IInv, TreeOK, OnlyRootIsLoose, Closed
<1>4. parent[root] \notin live
  BY <1>2, SettingAssumption DEF IInv, TypeOK, TreeOK, OnlyRootIsLoose
<1>5. p \in stay /\ stay \subseteq live'
  BY <1>1
<1>6. \A x \in stay : parent'[x] = parent[x] /\ (type[x] \in Aggregates => type'[x] = type[x])
  BY <1>1
<1> HIDE DEF stay
<1> QED
  BY <1>3, <1>4, <1>5, <1>6, UpKept

(* The way stays when only types change that are none of an aggregate.     *)
LEMMA UpAfterTyping ==
  ASSUME IInv, NEW p \in live, UNCHANGED <<live, root, parent>>,
         \A x \in live : type[x] \in Aggregates => type'[x] = type[x],
         NEW o \in Seq(Aggregates), Up(p, o, live, type, parent, root)
  PROVE  Up(p, o, live', type', parent', root')
<1>1. root \in live
  BY DEF IInv, TypeOK, TreeOK, RootIsGroup
<1>2. \A x \in live \ {root} : parent[x] \in live
  BY DEF IInv, TreeOK, OnlyRootIsLoose
<1>3. parent[root] \notin live
  BY <1>1, SettingAssumption DEF IInv, TypeOK, TreeOK, OnlyRootIsLoose
<1> QED
  BY <1>2, <1>3, UpKept

(* A setting that is added is the last element of its parent; others may   *)
(* go for it, with all below them.                                         *)
LEMMA AddReshapes ==
  ASSUME IInv, NEW p \in live, NEW n, NEW t, MayAdd(p, n, t), ConfigSettingAdd(p, n, t)
  PROVE  \E dead \in SUBSET live, ks \in Seq(Settings) : \E c \in Settings \ (live \ dead) :
           /\ Reshape(dead, p, Append(ks, c), {c}, GivenName(p, n), t, ZeroOf(t), "DEFAULT")
           /\ UNCHANGED config
           /\ Closed(dead) /\ root \notin dead /\ p \in live \ dead
           /\ kids'[p] # <<>> /\ Last(kids'[p]) = c
<1> DEFINE m == GivenName(p, n)
           old == GetMember(p, m)
           dead == IF old = NULL THEN {} ELSE Subtree(old)
           rest == IF old = NULL THEN kids[p] ELSE RemoveAt(kids[p], Position(p, m))
<1>1. PICK c \in Settings \ (live \ dead) :
        /\ Reshape(dead, p, Append(rest, c), {c}, m, t, ZeroOf(t), "DEFAULT")
        /\ UNCHANGED config
  BY Zenon DEF ConfigSettingAdd, Rebuild
<1>2. /\ kids[p] \in Seq(Settings) /\ DOMAIN kids[p] = 1 .. Len(kids[p])
      /\ root \in live /\ live \subseteq Settings
  BY LenProperties DEF IInv, TypeOK, TreeOK, RootIsGroup
<1>3. /\ rest \in Seq(Settings) /\ Closed(dead) /\ dead \in SUBSET live
      /\ root \notin dead /\ p \in live \ dead
  <2>1. CASE old = NULL
    BY <1>2, <2>1 DEF Closed
  <2>2. CASE old # NULL
    <3> DEFINE i == Position(p, m)
    <3>1. old = kids[p][i] /\ i # 0
      BY <2>2 DEF GetMember, ListSearch
    <3>2. i \in DOMAIN kids[p]
      BY <1>2, <3>1, PositionIsElement
    <3>3. dead = Subtree(old) /\ rest = RemoveAt(kids[p], i)
      BY <2>2
    <3> HIDE DEF m, old, dead, rest, i
    <3>4. old \in ToSet(kids[p])
      BY <3>1, <3>2 DEF ToSet
    <3>5. dead \subseteq live /\ Closed(dead) /\ root \notin dead /\ p \notin dead
      BY <3>3, <3>4, SubtreeOfElement DEF IInv
    <3>6. rest \in Seq(Settings)
      BY <1>2, <3>2, <3>3, RemoveAtProperties
    <3> QED
      BY <3>5, <3>6
  <2> QED
    BY <2>1, <2>2
<1> HIDE DEF m, old, dead, rest
<1>4. kids'[p] = Append(rest, c)
  BY <1>1, <1>2, <1>3 DEF Reshape
<1>5. kids'[p] # <<>> /\ Last(kids'[p]) = c
  BY <1>1, <1>3, <1>4, LastOfAppend
<1> QED
  BY <1>1, <1>3, <1>5 DEF m

LEMMA AddEffect ==
  ASSUME IInv, NEW p \in live, NEW n \in Names \cup {NULL, BadName}, NEW t,
         MayAdd(p, n, t), ConfigSettingAdd(p, n, t),
         NEW o \in Seq(Aggregates), Up(p, o, live, type, parent, root)
  PROVE  /\ kids'[p] # <<>> /\ Last(kids'[p]) \in live'
         /\ type'[Last(kids'[p])] = t
         /\ name'[Last(kids'[p])] = GivenName(p, n)
         /\ parent'[Last(kids'[p])] = p
         /\ Up(p, o, live', type', parent', root')
<1>1. PICK dead \in SUBSET live, ks \in Seq(Settings) : \E c \in Settings \ (live \ dead) :
           /\ Reshape(dead, p, Append(ks, c), {c}, GivenName(p, n), t, ZeroOf(t), "DEFAULT")
           /\ UNCHANGED config
           /\ Closed(dead) /\ root \notin dead /\ p \in live \ dead
           /\ kids'[p] # <<>> /\ Last(kids'[p]) = c
  BY AddReshapes
<1>2. PICK c \in Settings \ (live \ dead) :
           /\ Reshape(dead, p, Append(ks, c), {c}, GivenName(p, n), t, ZeroOf(t), "DEFAULT")
           /\ UNCHANGED config
           /\ Closed(dead) /\ root \notin dead /\ p \in live \ dead
           /\ kids'[p] # <<>> /\ Last(kids'[p]) = c
  BY <1>1
<1>3. Up(p, o, live', type', parent', root) /\ root' = root
  BY <1>2, UpAfterReshape DEF config
<1>4. /\ c \in live' /\ type'[c] = t /\ name'[c] = GivenName(p, n) /\ parent'[c] = p
  BY <1>2 DEF Reshape
<1> QED
  BY <1>2, <1>3, <1>4

-----------------------------------------------------------------------------
(* Where the parser is.                                                    *)

(* The setting that was named and has no value yet.                        *)
Waiting ==
  /\ ctxSetting \in live
  /\ kids[ctxParent] # <<>> /\ ctxSetting = Last(kids[ctxParent])
  /\ type[ctxSetting] = "NONE" /\ name[ctxSetting] # NULL

(* The parent is where the brackets say; in a group a value has a setting  *)
(* that waits for it.                                                      *)
Located ==
  /\ Up(ctxParent, open, live, type, parent, root)
  /\ \/ expect \in {"equals", "value"}
     \/ expect = "string" /\ Enclosing = "GROUP"
     => Waiting

(* What is expected is something of the innermost bracket.                 *)
StackOK ==
  /\ open \in Seq(Aggregates)
  /\ expect \in {"setting", "terminator", "equals", "value"} => Enclosing = "GROUP"
  /\ expect \in {"first", "element", "comma"} => Enclosing # "GROUP"

(* What the parser may be given.                                           *)
Vocabulary == AllTokens \cup {Sign("EOF")}

InputOK ==
  /\ written \in Seq(Vocabulary) \cup {NULL}
  /\ text \in Seq(Vocabulary)
  /\ look \in Vocabulary \cup {NULL}
  /\ ctxString \in Strings \cup {NULL}
  /\ ctxString # NULL => phase = "reading" /\ expect = "string"

ParseInv ==
  /\ TreeInv /\ InputOK /\ StackOK
  /\ phase = "reading" => Located

(* What is told by the kind of a token.                                    *)
IsToken(tok) ==
  \/ tok \in [kind : {"EQUALS", "COMMA", "SEMICOLON", "GARBAGE"}]
  \/ tok \in [kind : {"NAME"}, name : Names]
  \/ tok \in [kind : {"START", "END"}, of : Aggregates]
  \/ /\ tok.kind = "SCALAR" /\ tok = Scalar(tok.type, tok.value, tok.format)
     /\ tok.type \in ScalarTypes \ {"STRING"}
     /\ tok.value \in ValuesOf(tok.type) /\ tok.format \in AllFormats
     /\ tok.type = "BOOL" => tok.value \in {0, 1}
     /\ tok.type \notin {"INT", "INT64"} => tok.format = "DEFAULT"
  \/ tok.kind = "STRING" /\ tok.value \in Strings /\ tok = Quoted(tok.value)

LEMMA TokensAre == ASSUME NEW tok \in AllTokens PROVE IsToken(tok)
<1>1. CASE tok \in TokensOf("SCALAR", "BOOL", {0, 1}, {"DEFAULT"})
  <2>1. {0, 1} \subseteq ValuesOf("BOOL")
    BY WidthAssumption, ParserAssumption DEF ValuesOf, Int32
  <2> QED
    BY <1>1, <2>1 DEF IsToken, TokensOf, Scalar, ScalarTypes, AllFormats
<1>2. CASE tok \in TokensOf("SCALAR", "INT", Int32, AllFormats)
  BY <1>2 DEF IsToken, TokensOf, Scalar, ScalarTypes, ValuesOf
<1>3. CASE tok \in TokensOf("SCALAR", "INT64", Int64, AllFormats)
  BY <1>3 DEF IsToken, TokensOf, Scalar, ScalarTypes, ValuesOf
<1>4. CASE tok \in TokensOf("SCALAR", "FLOAT", Int, {"DEFAULT"})
  BY <1>4 DEF IsToken, TokensOf, Scalar, ScalarTypes, ValuesOf, AllFormats
<1>5. CASE tok \in TokensOf("STRING", "STRING", Strings, {"DEFAULT"})
  BY <1>5 DEF IsToken, TokensOf, Scalar, Quoted
<1> QED
  BY <1>1, <1>2, <1>3, <1>4, <1>5 DEF AllTokens, IsToken

LEMMA TokensRead ==
  ASSUME InputOK, NEW tok \in NextTokens
  PROVE  /\ IsToken(tok) \/ tok = Sign("EOF")
         /\ tok \in Vocabulary /\ tok # NULL
         /\ look # NULL => tok = look
<1>1. tok \in Vocabulary
  <2>1. CASE look # NULL
    BY <2>1 DEF NextTokens, InputOK
  <2>2. CASE look = NULL /\ written = NULL
    BY <2>2, ParserAssumption DEF NextTokens, Vocabulary
  <2>3. CASE look = NULL /\ written # NULL /\ Len(text) < Len(written)
    <3>1. Len(text) + 1 \in 1 .. Len(written)
      BY <2>3, LenProperties DEF InputOK
    <3>2. written[Len(text) + 1] \in Vocabulary
      BY <2>3, <3>1, ElementOfSeq DEF InputOK
    <3> QED
      BY <2>3, <3>2 DEF NextTokens
  <2>4. CASE look = NULL /\ written # NULL /\ ~(Len(text) < Len(written))
    BY <2>4 DEF NextTokens, Vocabulary
  <2> QED
    BY <2>1, <2>2, <2>3, <2>4
<1>2. tok # NULL
  BY <1>1, ParserAssumption DEF Sign, Vocabulary
<1>3. look # NULL => tok = look
  BY DEF NextTokens
<1> QED
  BY <1>1, <1>2, <1>3, TokensAre DEF Vocabulary

LEMMA ParentIs ==
  ASSUME ParseInv, phase = "reading"
  PROVE  /\ ctxParent \in live /\ ctxParent # NULL
         /\ type[ctxParent] = Enclosing
         /\ InArray <=> Enclosing = "ARRAY"
         /\ InList <=> Enclosing = "LIST"
<1>1. /\ ctxParent \in live
      /\ type[ctxParent] = IF open = <<>> THEN type[root] ELSE Head(open)
  BY UpStarts DEF ParseInv, Located, StackOK
<1>2. type[root] = "GROUP" /\ ctxParent # NULL
  BY <1>1, SettingAssumption
     DEF ParseInv, TreeInv, ArrayInv, ShapeInv, IInv, TypeOK, TreeOK, RootIsGroup
<1> QED
  BY <1>1, <1>2 DEF Enclosing, InArray, InList

LEMMA TreeFacts ==
  ASSUME TreeInv
  PROVE  IInv /\ TypeOK /\ TreeOK /\ ValuesFit
BY DEF TreeInv, ArrayInv, ShapeInv, IInv

-----------------------------------------------------------------------------
(* What is written within a bracket of the type t: n is the name of the    *)
(* i-th setting, item the text of its value.                               *)

Lead(t, n, i) ==
  IF t = "GROUP" THEN <<Name(n), Sign("EQUALS")>>
  ELSE IF i = 1 THEN <<>> ELSE <<Sign("COMMA")>>
Trail(t) == IF t = "GROUP" THEN <<Sign("SEMICOLON")>> ELSE <<>>
Piece(t, n, i, item) == (Lead(t, n, i) \o item) \o Trail(t)

(* The same of the first m of ks, with the names na and the texts F.       *)
Pieces(t, ks, m, na, F) == [i \in 1 .. m |-> Piece(t, na[ks[i]], i, F[ks[i]])]
Items(t, ks, m, na, F) == FlattenSeq(Pieces(t, ks, m, na, F))

Writable(t, ks, m, na, F) ==
  /\ m \in Nat
  /\ \A i \in 1 .. m : /\ F[ks[i]] \in Seq(Vocabulary)
                       /\ t = "GROUP" => na[ks[i]] \in Names

(* One text behind another; it has a name for the provers to match.        *)
Cat(v, w) == v \o w

LEMMA CatIsSeq ==
  ASSUME NEW S, NEW v \in Seq(S), NEW w \in Seq(S)
  PROVE  Cat(v, w) \in Seq(S)
BY ConcatProperties DEF Cat

LEMMA CatAssociates ==
  ASSUME NEW S, NEW v \in Seq(S), NEW w \in Seq(S), NEW z \in Seq(S)
  PROVE  Cat(Cat(v, w), z) = Cat(v, Cat(w, z))
BY ConcatAssociative, SMTT(60) DEF Cat

LEMMA JoinsAgree ==
  ASSUME NEW S, NEW s \in Seq(Seq(S)), NEW e \in Seq(S)
  PROVE  FlattenSeq(Append(s, e)) = FlattenSeq(s) \o e
<1> DEFINE N == Len(s)
           u == Append(s, e)
           g == JoinedUpTo(s)
           h == JoinedUpTo(u)
           T == {k \in 0 .. N : g[k] = h[k]}
<1>1. N \in Nat
  BY LenProperties
<1>2. /\ u \in Seq(Seq(S)) /\ Len(u) = N + 1
      /\ u[N + 1] = e /\ \A k \in 1 .. N : u[k] = s[k]
  BY AppendProperties
<1>3. Joins(g, s) /\ FlattenSeq(s) = g[N]
  BY FlattenJoins
<1>4. Joins(h, u) /\ FlattenSeq(u) = h[N + 1]
  <2> HIDE DEF u
  <2> QED
    BY <1>2, FlattenJoins
<1> HIDE DEF g, h, u
<1>5. 0 \in T
  BY <1>1, <1>3, <1>4 DEF Joins
<1>6. ASSUME NEW k \in 1 .. N, k - 1 \in T PROVE k \in T
  <2>1. k \in 1 .. N + 1 /\ k \in 0 .. N
    BY <1>1
  <2>2. g[k] = g[k - 1] \o s[k]
    BY <1>3 DEF Joins
  <2>3. h[k] = h[k - 1] \o u[k]
    BY <1>2, <1>4, <2>1 DEF Joins
  <2> QED
    BY <1>2, <1>6, <2>1, <2>2, <2>3
<1>7. T = 0 .. N
  <2>1. T \in SUBSET (0 .. N)
    OBVIOUS
  <2> HIDE DEF T, N
  <2> QED
    BY <1>1, <1>5, <1>6, <2>1, CountedSet
<1>8. N \in 0 .. N /\ N + 1 \in 1 .. N + 1 /\ (N + 1) - 1 = N
  BY <1>1
<1>9. g[N] = h[N]
  BY <1>7, <1>8
<1>10. h[N + 1] = h[N] \o e
  BY <1>2, <1>4, <1>8 DEF Joins
<1> QED
  BY <1>3, <1>4, <1>9, <1>10 DEF u

LEMMA SignsAreTokens ==
  /\ \A k \in {"EQUALS", "COMMA", "SEMICOLON", "GARBAGE", "EOF"} : Sign(k) \in Vocabulary
  /\ \A n \in Names : Name(n) \in Vocabulary
  /\ \A t \in Aggregates : Start(t) \in Vocabulary /\ End(t) \in Vocabulary
BY DEF Vocabulary, AllTokens, Sign, Name, Start, End

LEMMA LeadIsText ==
  ASSUME NEW t, NEW n, NEW i, t = "GROUP" => n \in Names
  PROVE  Lead(t, n, i) \in Seq(Vocabulary) /\ Trail(t) \in Seq(Vocabulary)
<1>1. Sign("COMMA") \in Vocabulary /\ Sign("SEMICOLON") \in Vocabulary
  BY SignsAreTokens
<1>2. t = "GROUP" => Name(n) \in Vocabulary /\ Sign("EQUALS") \in Vocabulary
  BY SignsAreTokens
<1> QED
  BY <1>1, <1>2 DEF Lead, Trail

LEMMA PieceIsText ==
  ASSUME NEW t, NEW n, NEW i, t = "GROUP" => n \in Names, NEW item \in Seq(Vocabulary)
  PROVE  Piece(t, n, i, item) \in Seq(Vocabulary)
<1>1. Lead(t, n, i) \in Seq(Vocabulary) /\ Trail(t) \in Seq(Vocabulary)
  BY LeadIsText
<1>2. Lead(t, n, i) \o item \in Seq(Vocabulary)
  BY <1>1, ConcatProperties
<1> QED
  BY <1>1, <1>2, ConcatProperties DEF Piece

LEMMA PiecesAreTexts ==
  ASSUME NEW t, NEW ks, NEW m, NEW na, NEW F, Writable(t, ks, m, na, F)
  PROVE  /\ Pieces(t, ks, m, na, F) \in Seq(Seq(Vocabulary))
         /\ Len(Pieces(t, ks, m, na, F)) = m
<1> DEFINE p == Pieces(t, ks, m, na, F)
           S == Seq(Vocabulary)
<1>1. \A i \in 1 .. m : Piece(t, na[ks[i]], i, F[ks[i]]) \in S
  BY PieceIsText DEF Writable
<1> HIDE DEF S
<1>2. p \in [1 .. m -> S] /\ m \in Nat
  BY <1>1 DEF Pieces, Writable
<1> HIDE DEF p
<1>3. p \in Seq(S) /\ Len(p) = m
  BY <1>2
<1> QED
  BY <1>3 DEF p, S

LEMMA ItemsAreText ==
  ASSUME NEW t, NEW ks, NEW m, NEW na, NEW F, Writable(t, ks, m, na, F)
  PROVE  Items(t, ks, m, na, F) \in Seq(Vocabulary)
BY PiecesAreTexts, FlattenIsSeq DEF Items

LEMMA NoItems ==
  ASSUME NEW t, NEW ks, NEW na, NEW F PROVE Items(t, ks, 0, na, F) = <<>>
<1> DEFINE p == Pieces(t, ks, 0, na, F)
<1>1. Writable(t, ks, 0, na, F)
  BY DEF Writable
<1>2. p \in Seq(Seq(Vocabulary)) /\ Len(p) = 0
  BY <1>1, PiecesAreTexts
<1> HIDE DEF p
<1>3. FlattenSeq(p) = JoinedUpTo(p)[0] /\ JoinedUpTo(p)[0] = <<>>
  BY <1>2, FlattenJoins DEF Joins
<1> QED
  BY <1>3 DEF Items, p

(* One more.                                                               *)
LEMMA NextItem ==
  ASSUME NEW t, NEW ks, NEW m \in Nat, NEW na, NEW F, Writable(t, ks, m + 1, na, F)
  PROVE  /\ Writable(t, ks, m, na, F)
         /\ Items(t, ks, m + 1, na, F)
              = Items(t, ks, m, na, F) \o Piece(t, na[ks[m + 1]], m + 1, F[ks[m + 1]])
<1> DEFINE p == Pieces(t, ks, m, na, F)
           q == Pieces(t, ks, m + 1, na, F)
           e == Piece(t, na[ks[m + 1]], m + 1, F[ks[m + 1]])
<1>1. Writable(t, ks, m, na, F)
  BY DEF Writable
<1>2. e \in Seq(Vocabulary)
  <2>1. m + 1 \in 1 .. m + 1
    OBVIOUS
  <2> QED
    BY <2>1, PieceIsText DEF Writable
<1>3. p \in Seq(Seq(Vocabulary)) /\ Len(p) = m
  BY <1>1, PiecesAreTexts
<1>4. q \in Seq(Seq(Vocabulary)) /\ Len(q) = m + 1
  BY PiecesAreTexts
<1>5. \A i \in 1 .. m + 1 : q[i] = IF i = m + 1 THEN e ELSE p[i]
  <2>1. \A i \in 1 .. m + 1 : i = m + 1 \/ i \in 1 .. m
    OBVIOUS
  <2> QED
    BY <2>1 DEF Pieces
<1> HIDE DEF p, q, e
<1>6. q = Append(p, e)
  <2> DEFINE u == Append(p, e)
  <2>1. /\ u \in Seq(Seq(Vocabulary)) /\ Len(u) = m + 1
        /\ \A i \in 1 .. m : u[i] = p[i]
        /\ u[m + 1] = e
    BY <1>2, <1>3, AppendProperties
  <2> HIDE DEF u
  <2>2. ASSUME NEW i \in 1 .. Len(q) PROVE q[i] = u[i]
    <3>1. i \in 1 .. m + 1 /\ (i # m + 1 => i \in 1 .. m)
      BY <1>4
    <3> QED
      BY <1>5, <2>1, <3>1
  <2>3. q = u
    BY <1>4, <2>1, <2>2, SeqEqual
  <2> QED
    BY <2>3 DEF u
<1>7. FlattenSeq(q) = FlattenSeq(p) \o e
  BY <1>2, <1>3, <1>6, JoinsAgree
<1> QED
  BY <1>1, <1>7 DEF Items, p, q, e

(* Only the settings that are written matter.                              *)
LEMMA SameItems ==
  ASSUME NEW t, NEW ks, NEW m, NEW na, NEW F, NEW ks2, NEW na2, NEW F2,
         \A i \in 1 .. m : /\ ks2[i] = ks[i] /\ na2[ks2[i]] = na[ks[i]]
                           /\ F2[ks2[i]] = F[ks[i]]
  PROVE  Items(t, ks2, m, na2, F2) = Items(t, ks, m, na, F)
<1>1. Pieces(t, ks2, m, na2, F2) = Pieces(t, ks, m, na, F)
  BY DEF Pieces
<1> QED
  BY <1>1 DEF Items

-----------------------------------------------------------------------------
(* The text that config_write() makes.                                     *)

(* Separators behind all elements but the last, or before all but the first*)
Behind(s, comma) ==
  [i \in 1 .. Len(s) |-> s[i] \o (IF i < Len(s) THEN comma ELSE <<>>)]
Before(s, comma) ==
  [i \in 1 .. Len(s) |-> ((IF i = 1 THEN <<>> ELSE comma) \o s[i]) \o <<>>]

AreTexts(s, comma, S) == s \in Seq(Seq(S)) /\ comma \in Seq(S)

LEMMA Separators ==
  ASSUME NEW S, NEW s, NEW comma, AreTexts(s, comma, S)
  PROVE  FlattenSeq(Behind(s, comma)) = FlattenSeq(Before(s, comma))
<1> DEFINE N == Len(s)
           V == Seq(S)
           behind(i) == IF i < N THEN comma ELSE <<>>
           before(i) == IF i = 1 THEN <<>> ELSE comma
           A == [i \in 1 .. N |-> s[i] \o behind(i)]
           B == [i \in 1 .. N |-> (before(i) \o s[i]) \o <<>>]
           g == JoinedUpTo(A)
           h == JoinedUpTo(B)
           sep(k) == IF k = 0 THEN <<>> ELSE behind(k)
           T == {k \in 0 .. N : g[k] = h[k] \o sep(k)}
<1>1. N \in Nat /\ \A i \in 1 .. N : s[i] \in V
  BY LenProperties, ElementOfSeq DEF AreTexts
<1>2. <<>> \in V
  OBVIOUS
<1>3. \A i : behind(i) \in V /\ before(i) \in V /\ sep(i) \in V
  BY <1>2 DEF AreTexts
<1>4. \A i \in 1 .. N : A[i] = s[i] \o behind(i) /\ s[i] \o behind(i) \in V
  <2> HIDE DEF behind
  <2> QED
    BY <1>1, <1>3, ConcatProperties
<1>5. \A i \in 1 .. N : B[i] = before(i) \o s[i] /\ before(i) \o s[i] \in V
  <2>1. \A i \in 1 .. N : B[i] = (before(i) \o s[i]) \o <<>>
    OBVIOUS
  <2> HIDE DEF B, before
  <2>2. \A i \in 1 .. N : before(i) \o s[i] \in V
    BY <1>1, <1>3, ConcatProperties
  <2>3. \A i \in 1 .. N : (before(i) \o s[i]) \o <<>> = before(i) \o s[i]
    BY <2>2, ConcatEmptySeq
  <2> QED
    BY <2>1, <2>2, <2>3
<1>6. A \in Seq(V) /\ Len(A) = N
  <2>1. A \in [1 .. N -> V]
    <3> HIDE DEF behind, V
    <3> QED
      BY <1>4
  <2> HIDE DEF A, V, N
  <2> QED
    BY <1>1, <2>1
<1>7. B \in Seq(V) /\ Len(B) = N
  <2>1. B = [i \in 1 .. N |-> B[i]]
    OBVIOUS
  <2>2. B \in [1 .. N -> V]
    <3> HIDE DEF B, before, V
    <3> QED
      BY <1>5, <2>1
  <2> HIDE DEF B, V, N
  <2> QED
    BY <1>1, <2>2
<1> HIDE DEF A, B
<1>8. g \in [0 .. N -> V] /\ Joins(g, A) /\ FlattenSeq(A) = g[N]
  BY <1>6, FlattenJoins
<1>9. h \in [0 .. N -> V] /\ Joins(h, B) /\ FlattenSeq(B) = h[N]
  BY <1>7, FlattenJoins
<1> HIDE DEF g, h
<1>10. 0 \in T
  <2>1. g[0] = <<>> /\ h[0] = <<>> /\ 0 \in 0 .. N
    BY <1>1, <1>8, <1>9 DEF Joins
  <2>2. sep(0) = <<>> /\ <<>> \o <<>> = <<>>
    OBVIOUS
  <2> HIDE DEF sep, V, N
  <2> QED
    BY <2>1, <2>2
<1>11. ASSUME NEW k \in 1 .. N, k - 1 \in T PROVE k \in T
  <2>1. k \in 0 .. N /\ k - 1 \in 0 .. N /\ k \in Nat
    BY <1>1
  <2>2. g[k] = g[k - 1] \o (s[k] \o behind(k))
    BY <1>4, <1>6, <1>8 DEF Joins
  <2>3. h[k] = h[k - 1] \o (before(k) \o s[k])
    BY <1>5, <1>7, <1>9 DEF Joins
  <2>4. sep(k - 1) = before(k)
    BY <1>1, <2>1
  <2>5. sep(k) = behind(k)
    BY <2>1
  <2>6. g[k - 1] = h[k - 1] \o sep(k - 1)
    BY <1>11
  <2>7. /\ h[k - 1] \in Seq(S) /\ before(k) \in Seq(S)
        /\ s[k] \in Seq(S) /\ behind(k) \in Seq(S)
    BY <1>1, <1>3, <1>9, <2>1
  <2> HIDE DEF behind, before, sep, T
  <2>8. PICK x \in Seq(S), b \in Seq(S), y \in Seq(S), e \in Seq(S) :
          x = h[k - 1] /\ b = before(k) /\ y = s[k] /\ e = behind(k)
    BY <2>7
  <2>9. Cat(Cat(x, b), Cat(y, e)) = Cat(Cat(x, Cat(b, y)), e)
    <3>1. Cat(x, b) \in Seq(S)
      BY CatIsSeq
    <3>2. Cat(Cat(x, b), Cat(y, e)) = Cat(Cat(Cat(x, b), y), e)
      BY <3>1, CatAssociates
    <3>3. Cat(Cat(x, b), y) = Cat(x, Cat(b, y))
      BY CatAssociates
    <3> QED
      BY <3>2, <3>3
  <2>11. g[k] = h[k] \o sep(k)
    <3>1. g[k] = Cat(Cat(x, b), Cat(y, e))
      BY <2>2, <2>4, <2>6, <2>8 DEF Cat
    <3>2. h[k] \o sep(k) = Cat(Cat(x, Cat(b, y)), e)
      BY <2>3, <2>5, <2>8 DEF Cat
    <3> QED
      BY <2>9, <3>1, <3>2
  <2> USE DEF T
  <2> QED
    BY <2>1, <2>11
<1>12. T = 0 .. N
  <2>1. T \in SUBSET (0 .. N)
    OBVIOUS
  <2> HIDE DEF T, N
  <2> QED
    BY <1>1, <1>10, <1>11, <2>1, CountedSet
<1>13. N \in T
  <2>1. N \in 0 .. N
    BY <1>1
  <2> HIDE DEF T
  <2> QED
    BY <1>12, <2>1
<1>14. sep(N) = <<>>
  BY <1>1
<1>15. g[N] = h[N] \o <<>>
  <2> HIDE DEF sep, V, N
  <2> QED
    BY <1>13, <1>14
<1>16. h[N] \in V
  BY <1>1, <1>9
<1>17. g[N] = h[N]
  BY <1>15, <1>16, ConcatEmptySeq
<1>18. A = Behind(s, comma) /\ B = Before(s, comma)
  BY DEF A, B, Behind, Before
<1> QED
  BY <1>8, <1>9, <1>17, <1>18

LEMMA WithinBrackets ==
  ASSUME NEW S, NEW a \in S, NEW b \in S, NEW s \in Seq(S)
  PROVE  /\ (<<a>> \o s) \o <<b>> \in Seq(S)
         /\ Len((<<a>> \o s) \o <<b>>) = Len(s) + 2
         /\ SubSeq((<<a>> \o s) \o <<b>>, 2, Len((<<a>> \o s) \o <<b>>) - 1) = s
<1> DEFINE l == <<a>>
           r == <<b>>
           u == l \o s
           w == u \o r
           N == Len(s)
<1>1. l \in Seq(S) /\ Len(l) = 1 /\ r \in Seq(S) /\ Len(r) = 1 /\ N \in Nat
  BY LenProperties
<1> HIDE DEF l, r
<1>9. /\ l \o s \in Seq(S)
      /\ Len(l \o s) = Len(l) + Len(s)
      /\ \A i \in 1 .. Len(l) + Len(s) :
           (l \o s)[i] = IF i <= Len(l) THEN l[i] ELSE s[i - Len(l)]
  BY <1>1, ConcatProperties
<1> HIDE DEF u
<1>2. /\ u \in Seq(S) /\ Len(u) = 1 + N
      /\ \A i \in 1 .. 1 + N : u[i] = IF i <= 1 THEN l[i] ELSE s[i - 1]
  BY <1>1, <1>9 DEF u
<1>10. /\ u \o r \in Seq(S)
       /\ Len(u \o r) = Len(u) + Len(r)
       /\ \A i \in 1 .. Len(u) + Len(r) :
            (u \o r)[i] = IF i <= Len(u) THEN u[i] ELSE r[i - Len(u)]
  BY <1>1, <1>2, ConcatProperties
<1> HIDE DEF w
<1>3. /\ w \in Seq(S) /\ Len(w) = (1 + N) + 1
      /\ \A i \in 1 .. (1 + N) + 1 : w[i] = IF i <= 1 + N THEN u[i] ELSE r[i - (1 + N)]
  BY <1>1, <1>2, <1>10 DEF w
<1>4. \A i \in 1 .. N : s[i] \in S
  BY ElementOfSeq
<1>5. ASSUME NEW i \in 1 .. N PROVE w[i + 1] = s[i]
  <2>1. i + 1 \in 1 .. (1 + N) + 1 /\ i + 1 <= 1 + N /\ i + 1 \in 1 .. 1 + N /\ ~(i + 1 <= 1)
    BY <1>1
  <2>2. (i + 1) - 1 = i
    OBVIOUS
  <2> QED
    BY <1>2, <1>3, <2>1, <2>2
<1> DEFINE v == SubSeq(w, 2, 1 + N)
<1>6. v \in Seq(S) /\ Len(v) = N /\ \A i \in 1 .. N : v[i] = w[i + 1]
  <2>1. \A i \in 2 .. 1 + N : w[i] \in S
    <3>1. \A i \in 2 .. 1 + N : i - 1 \in 1 .. N /\ (i - 1) + 1 = i
      BY <1>1
    <3> QED
      BY <1>4, <1>5, <3>1
  <2>2. /\ v \in Seq(S)
        /\ Len(v) = IF 2 <= 1 + N THEN (1 + N) - 2 + 1 ELSE 0
        /\ \A i \in 1 .. (1 + N) - 2 + 1 : v[i] = w[2 + i - 1]
    BY <1>1, <2>1, SubSeqProperties
  <2> HIDE DEF v
  <2>3. \A i \in 1 .. N : i \in 1 .. (1 + N) - 2 + 1 /\ 2 + i - 1 = i + 1
    BY <1>1
  <2>4. Len(v) = N
    BY <1>1, <2>2
  <2> QED
    BY <2>2, <2>3, <2>4
<1> HIDE DEF v
<1>7. v = s
  BY <1>5, <1>6, SeqEqual
<1>8. Len(w) - 1 = 1 + N /\ Len(w) = N + 2
  BY <1>1, <1>3
<1> QED
  BY <1>3, <1>7, <1>8 DEF v, w, u, l, r

(* The members of groups have names.                                       *)
Named ==
  \A x \in live : type[x] = "GROUP" =>
    \A i \in DOMAIN kids[x] : name[kids[x][i]] \in Names

(* The text F[x] is that of the setting x, whose elements have theirs.     *)
Body(x, F) == Items(type[x], kids[x], Len(kids[x]), name, F)
Finished(x, F) ==
  F[x] = IF type[x] \in Aggregates
         THEN (<<Start(type[x])>> \o Body(x, F)) \o <<End(type[x])>>
         ELSE ScalarText(x)

(* The same of a text that may be without semicolons.                      *)
Ending(t, semicolons) == IF t = "GROUP" /\ semicolons THEN <<Sign("SEMICOLON")>> ELSE <<>>
Part(t, n, i, item, semicolons) == (Lead(t, n, i) \o item) \o Ending(t, semicolons)
Parts(t, ks, na, F, semicolons) ==
  [i \in 1 .. Len(ks) |-> Part(t, na[ks[i]], i, F[ks[i]], semicolons)]
Bracketed(t, ks, na, F, semicolons) ==
  (<<Start(t)>> \o FlattenSeq(Parts(t, ks, na, F, semicolons))) \o <<End(t)>>
IsTextOf(x, F, semicolons) ==
  F[x] = IF type[x] \in Aggregates THEN Bracketed(type[x], kids[x], name, F, semicolons)
         ELSE ScalarText(x)

TextWith(x, items, semicolons) ==
  IF type[x] \in {"ARRAY", "LIST"} THEN ListText(x, items)
  ELSE IF type[x] = "GROUP" THEN GroupText(x, items, semicolons)
  ELSE ScalarText(x)

LEMMA BodyIsWritable ==
  ASSUME IInv, Named, NEW F \in [Settings -> Seq(Vocabulary)], NEW x \in live
  PROVE  /\ Writable(type[x], kids[x], Len(kids[x]), name, F)
         /\ kids[x] \in Seq(Settings) /\ DOMAIN kids[x] = 1 .. Len(kids[x])
         /\ Len(kids[x]) \in Nat
         /\ \A i \in 1 .. Len(kids[x]) : kids[x][i] \in live /\ kids[x][i] \in Settings
<1>1. kids[x] \in Seq(Settings) /\ live \subseteq Settings
  BY DEF IInv, TypeOK
<1>2. DOMAIN kids[x] = 1 .. Len(kids[x]) /\ Len(kids[x]) \in Nat
  BY <1>1, LenProperties
<1>3. \A i \in 1 .. Len(kids[x]) : kids[x][i] \in live /\ kids[x][i] \in Settings
  BY <1>1, <1>2 DEF IInv, TreeOK, ElementsAreLive
<1>4. type[x] = "GROUP" => \A i \in 1 .. Len(kids[x]) : name[kids[x][i]] \in Names
  BY <1>2 DEF Named
<1> QED
  BY <1>1, <1>2, <1>3, <1>4 DEF Writable

LEMMA FinishedIsText == ASSUME NEW x, NEW F PROVE Finished(x, F) <=> IsTextOf(x, F, TRUE)
<1>1. Pieces(type[x], kids[x], Len(kids[x]), name, F) = Parts(type[x], kids[x], name, F, TRUE)
  BY DEF Pieces, Parts, Piece, Part, Trail, Ending
<1> QED
  BY <1>1 DEF Finished, IsTextOf, Bracketed, Body, Items

LEMMA TextIsWritten ==
  ASSUME IInv, Named, NEW F \in [Settings -> Seq(Vocabulary)], NEW x \in live,
         NEW semicolons \in BOOLEAN,
         NEW items, items = [i \in DOMAIN kids[x] |-> F[kids[x][i]]]
  PROVE  IsTextOf(x, F, semicolons) <=> F[x] = TextWith(x, items, semicolons)
<1> DEFINE N == Len(kids[x])
           t == type[x]
           parts == Parts(t, kids[x], name, F, semicolons)
<1>1. /\ Writable(t, kids[x], N, name, F) /\ N \in Nat /\ DOMAIN kids[x] = 1 .. N
      /\ \A i \in 1 .. N : kids[x][i] \in Settings
  BY BodyIsWritable
<1>2. DOMAIN items = 1 .. N /\ \A i \in 1 .. N : items[i] = F[kids[x][i]]
  BY <1>1
<1>3. \A i \in 1 .. N : items[i] \in Seq(Vocabulary)
  BY <1>1, <1>2
<1>4. CASE t = "GROUP"
  <2> DEFINE texts == [i \in DOMAIN items |-> SettingText(kids[x][i], items[i], semicolons)]
  <2>1. \A i \in 1 .. N : name[kids[x][i]] # NULL
    BY <1>1, <1>4, ParserAssumption DEF Writable
  <2>2. \A i \in 1 .. N : SettingText(kids[x][i], items[i], semicolons)
                            = Part(t, name[kids[x][i]], i, F[kids[x][i]], semicolons)
    BY <1>2, <1>4, <2>1 DEF SettingText, Part, Lead, Ending
  <2>3. texts = parts
    <3> HIDE DEF t
    <3> QED
      BY <1>2, <2>2, Zenon DEF Parts
  <2>4. TextWith(x, items, semicolons)
          = (<<Start("GROUP")>> \o FlattenSeq(texts)) \o <<End("GROUP")>>
    BY <1>4 DEF TextWith, GroupText
  <2> HIDE DEF texts, parts
  <2>5. TextWith(x, items, semicolons) = (<<Start(t)>> \o FlattenSeq(parts)) \o <<End(t)>>
    BY <1>4, <2>3, <2>4
  <2> QED
    BY <1>4, <2>5 DEF IsTextOf, Bracketed, Aggregates, parts
<1>5. CASE t \in {"ARRAY", "LIST"}
  <2> DEFINE comma == <<Sign("COMMA")>>
             behind == Behind(items, comma)
             before == Before(items, comma)
  <2>1. items \in Seq(Seq(Vocabulary)) /\ Len(items) = N
    <3> DEFINE S == Seq(Vocabulary)
    <3>1. items = [i \in 1 .. N |-> items[i]]
      BY <1>2
    <3> HIDE DEF S, N
    <3>2. items \in [1 .. N -> S]
      BY <1>3, <3>1 DEF S
    <3>3. items \in Seq(S) /\ Len(items) = N
      BY <1>1, <3>2
    <3> QED
      BY <3>3 DEF S
  <2>2. comma \in Seq(Vocabulary)
    BY SignsAreTokens
  <2>3. FlattenSeq(behind) = FlattenSeq(before)
    <3> HIDE DEF comma
    <3> QED
      BY <2>1, <2>2, Separators, Zenon DEF AreTexts
  <2>4. before = parts
    <3>1. \A i \in 1 .. N : ((IF i = 1 THEN <<>> ELSE comma) \o items[i]) \o <<>>
                              = Part(t, name[kids[x][i]], i, F[kids[x][i]], semicolons)
      BY <1>2, <1>5 DEF Part, Lead, Ending
    <3> HIDE DEF comma, t
    <3> QED
      BY <2>1, <3>1, Zenon DEF Parts, Before
  <2>5. \A i : ElementSeparator(x, i) = IF i < N THEN comma ELSE <<>>
    BY DEF ElementSeparator
  <2>6. [i \in DOMAIN items |-> items[i] \o ElementSeparator(x, i)] = behind
    <3> HIDE DEF comma, N
    <3> QED
      BY <1>2, <2>1, <2>5, Zenon DEF Behind
  <2>7. TextWith(x, items, semicolons)
          = (<<Start(t)>> \o FlattenSeq([i \in DOMAIN items |->
                                           items[i] \o ElementSeparator(x, i)]))
              \o <<End(t)>>
    BY <1>5, Zenon DEF TextWith, ListText
  <2> HIDE DEF behind, before, parts
  <2>8. TextWith(x, items, semicolons) = (<<Start(t)>> \o FlattenSeq(parts)) \o <<End(t)>>
    BY <2>3, <2>4, <2>6, <2>7, Zenon
  <2> QED
    BY <1>5, <2>8 DEF IsTextOf, Bracketed, Aggregates, parts
<1>6. CASE t \notin Aggregates
  BY <1>6 DEF IsTextOf, TextWith, Aggregates
<1> QED
  BY <1>4, <1>5, <1>6 DEF Aggregates

(* A set of settings is empty when each of them lists another.             *)
LEMMA SomeoneListsNone ==
  ASSUME IInv, NEW E \in SUBSET live,
         \A x \in E : \E i \in DOMAIN kids[x] : kids[x][i] \in E
  PROVE  E = {}
<1> SUFFICES ASSUME E # {} PROVE FALSE
  OBVIOUS
<1> DEFINE size(x) == Cardinality(Subtree(x))
           I == {size(x) : x \in E}
<1>1. TypeOK /\ TreeOK /\ NothingLeaks /\ ElementsAreLive /\ live \subseteq Settings
  BY DEF IInv, TreeOK, TypeOK
<1>2. \A x \in live : IsFiniteSet(Subtree(x)) /\ size(x) \in Nat
  <2>1. IsFiniteSet(live)
    BY <1>1, HeapAssumption, FS_Subset
  <2> QED
    BY <1>1, <2>1, SubtreeIsClosed, FS_Subset, FS_CardinalityType
<1>3. I \in SUBSET Nat /\ I # {}
  BY <1>2
<1>4. Min(I) \in I /\ \A n \in I : Min(I) <= n
  <2> HIDE DEF I
  <2> QED
    BY <1>3, LeastNatural
<1>5. PICK x \in E : size(x) = Min(I)
  BY <1>4
<1>6. PICK i \in DOMAIN kids[x] : kids[x][i] \in E
  OBVIOUS
<1> DEFINE k == kids[x][i]
<1>7. k \in ToSet(kids[x]) /\ k \in live
  BY <1>6 DEF ToSet
<1>8. x \notin Subtree(k)
  BY <1>1, <1>7, SubtreeOfElement
<1>9. Subtree(k) \subseteq Subtree(x) /\ x \in Subtree(x)
  <2>1. x \in Subtree(x) /\ Closed(Subtree(x)) /\ Subtree(x) \in SUBSET live
    BY <1>1, SubtreeIsClosed
  <2>2. k \in Subtree(x)
    BY <1>7, <2>1 DEF Closed
  <2> QED
    BY <1>7, <2>1, <2>2, SubtreeIsLeast
<1>10. size(k) < size(x)
  BY <1>2, <1>7, <1>8, <1>9, FS_Subset
<1>11. Min(I) <= size(k)
  BY <1>4, <1>6
<1> HIDE DEF size, I
<1> QED
  BY <1>2, <1>3, <1>4, <1>5, <1>7, <1>10, <1>11

(* Two texts of the settings agree.                                        *)
LEMMA TextsAreUnique ==
  ASSUME IInv, Named, NEW F \in [Settings -> Seq(Vocabulary)], NEW semicolons \in BOOLEAN,
         \A x \in live : IsTextOf(x, F, semicolons),
         NEW h, \A x \in live :
           h[x] = TextWith(x, [i \in DOMAIN kids[x] |-> h[kids[x][i]]], semicolons)
  PROVE  \A x \in live : h[x] = F[x]
<1> DEFINE items(w, x) == [i \in DOMAIN kids[x] |-> w[kids[x][i]]]
           E == {x \in live : h[x] # F[x]}
<1>1. \A x \in live : F[x] = TextWith(x, items(F, x), semicolons)
  BY TextIsWritten
<1>2. ASSUME NEW x \in E PROVE \E i \in DOMAIN kids[x] : kids[x][i] \in E
  <2> SUFFICES ASSUME \A i \in DOMAIN kids[x] : kids[x][i] \notin E PROVE FALSE
    OBVIOUS
  <2>1. \A i \in DOMAIN kids[x] : kids[x][i] \in live
    BY DEF IInv, TreeOK, ElementsAreLive
  <2>2. items(h, x) = items(F, x)
    BY <2>1
  <2> HIDE DEF items
  <2> QED
    BY <1>1, <2>2 DEF items
<1>3. E = {}
  BY <1>2, SomeoneListsNone
<1> QED
  BY <1>3

-----------------------------------------------------------------------------
(* The texts of settings: each has one, and it is what is written.        *)

LEMMA PartsAreTexts ==
  ASSUME NEW t, NEW ks, NEW na, NEW F, Writable(t, ks, Len(ks), na, F),
         NEW semicolons \in BOOLEAN
  PROVE  /\ Parts(t, ks, na, F, semicolons) \in Seq(Seq(Vocabulary))
         /\ Len(Parts(t, ks, na, F, semicolons)) = Len(ks)
         /\ \A i \in 1 .. Len(ks) : Ending(t, semicolons) \in Seq(Vocabulary)
<1> DEFINE p == Parts(t, ks, na, F, semicolons)
           S == Seq(Vocabulary)
           m == Len(ks)
<1>1. ASSUME NEW i \in 1 .. m PROVE Part(t, na[ks[i]], i, F[ks[i]], semicolons) \in S
  <2>1. Lead(t, na[ks[i]], i) \in S
    BY LeadIsText DEF Writable
  <2>2. Sign("SEMICOLON") \in Vocabulary
    BY SignsAreTokens
  <2>3. Ending(t, semicolons) \in S /\ F[ks[i]] \in S
    BY <2>2 DEF Ending, Writable
  <2>4. Lead(t, na[ks[i]], i) \o F[ks[i]] \in S
    BY <2>1, <2>3, ConcatProperties
  <2> QED
    BY <2>3, <2>4, ConcatProperties DEF Part
<1>2. Ending(t, semicolons) \in S
  <2>1. Sign("SEMICOLON") \in Vocabulary
    BY SignsAreTokens
  <2> QED
    BY <2>1 DEF Ending
<1> HIDE DEF S
<1>3. p \in [1 .. m -> S] /\ m \in Nat
  BY <1>1 DEF Parts, Writable
<1> HIDE DEF p, m
<1>4. p \in Seq(S) /\ Len(p) = m
  BY <1>3
<1> QED
  BY <1>2, <1>4 DEF p, S, m

LEMMA BracketedIsText ==
  ASSUME NEW t \in Aggregates, NEW ks, NEW na, NEW F, Writable(t, ks, Len(ks), na, F),
         NEW semicolons \in BOOLEAN
  PROVE  /\ FlattenSeq(Parts(t, ks, na, F, semicolons)) \in Seq(Vocabulary)
         /\ Bracketed(t, ks, na, F, semicolons) \in Seq(Vocabulary)
<1> DEFINE b == FlattenSeq(Parts(t, ks, na, F, semicolons))
<1>1. b \in Seq(Vocabulary)
  BY PartsAreTexts, FlattenIsSeq
<1>2. Start(t) \in Vocabulary /\ End(t) \in Vocabulary
  BY SignsAreTokens
<1> HIDE DEF b
<1>3. (<<Start(t)>> \o b) \o <<End(t)>> \in Seq(Vocabulary)
  BY <1>1, <1>2, WithinBrackets
<1> QED
  BY <1>1, <1>3 DEF Bracketed, b

(* What is written of a setting without elements is a token.               *)
LEMMA ScalarTextIsToken ==
  ASSUME TypeOK, ValuesFit, NEW x \in live, type[x] \notin Aggregates
  PROVE  /\ \E tok \in AllTokens :
              /\ ScalarText(x) = <<tok>>
              /\ type[x] # "NONE" => tok.kind \in {"SCALAR", "STRING"} /\ tok.type = type[x]
         /\ ScalarText(x) \in Seq(Vocabulary)
<1>1. type[x] \in {"NONE"} \cup ScalarTypes /\ format[x] \in AllFormats
  BY DEF TypeOK, Types
<1>2. value[x] \in ValuesOf(type[x]) /\ (format[x] # "DEFAULT" => type[x] \in {"INT", "INT64"})
  BY DEF ValuesFit
<1>3. ASSUME NEW tok \in AllTokens, ScalarText(x) = <<tok>> PROVE ScalarText(x) \in Seq(Vocabulary)
  BY <1>3 DEF Vocabulary
<1>4. CASE type[x] = "STRING"
  <2> DEFINE v == IF value[x] = NULL THEN EmptyString ELSE value[x]
             tok == Quoted(v)
  <2>1. v \in Strings
    BY <1>2, <1>4, ParserAssumption DEF ValuesOf
  <2> HIDE DEF v
  <2>2. tok \in AllTokens /\ tok.kind = "STRING" /\ tok.type = "STRING"
    BY <2>1 DEF Quoted, Scalar, AllTokens, TokensOf
  <2>3. ScalarText(x) = <<tok>>
    BY <1>4 DEF ScalarText, v
  <2> QED
    BY <1>3, <1>4, <2>2, <2>3
<1>5. CASE type[x] = "BOOL"
  <2> DEFINE v == IF value[x] = 0 THEN 0 ELSE 1
             tok == Scalar("BOOL", v, "DEFAULT")
  <2>1. v \in {0, 1}
    OBVIOUS
  <2> HIDE DEF v
  <2>2. tok \in AllTokens /\ tok.kind = "SCALAR" /\ tok.type = "BOOL"
    BY <2>1 DEF Scalar, AllTokens, TokensOf
  <2>3. ScalarText(x) = <<tok>>
    BY <1>5 DEF ScalarText, v
  <2> QED
    BY <1>3, <1>5, <2>2, <2>3
<1>6. CASE type[x] = "NONE"
  <2>1. ScalarText(x) = <<Sign("GARBAGE")>> /\ Sign("GARBAGE") \in AllTokens
    BY <1>6 DEF ScalarText, AllTokens, Sign
  <2> QED
    BY <1>3, <1>6, <2>1
<1>7. CASE type[x] \in {"INT", "INT64", "FLOAT"}
  <2> DEFINE tok == Scalar(type[x], value[x], format[x])
  <2>1. tok \in AllTokens
    BY <1>1, <1>2, <1>7 DEF Scalar, AllTokens, TokensOf, ValuesOf
  <2>2. tok.kind = "SCALAR" /\ tok.type = type[x]
    BY DEF Scalar
  <2>3. ScalarText(x) = <<tok>>
    BY <1>7 DEF ScalarText
  <2> QED
    BY <1>3, <2>1, <2>2, <2>3
<1> QED
  BY <1>1, <1>4, <1>5, <1>6, <1>7 DEF ScalarTypes

LEMMA SameParts ==
  ASSUME NEW t, NEW ks, NEW na, NEW F, NEW F2, NEW semicolons,
         \A i \in 1 .. Len(ks) : F2[ks[i]] = F[ks[i]]
  PROVE  Parts(t, ks, na, F2, semicolons) = Parts(t, ks, na, F, semicolons)
BY DEF Parts

(* Every setting has its text: it has when its elements have theirs.       *)
LEMMA TextsExist ==
  ASSUME IInv, Named, ValuesFit, NEW semicolons \in BOOLEAN
  PROVE  \E F \in [Settings -> Seq(Vocabulary)] : \A x \in live : IsTextOf(x, F, semicolons)
<1> DEFINE T == [Settings -> Seq(Vocabulary)]
           Have(D, F) == \A x \in D : /\ IsTextOf(x, F, semicolons)
                                      /\ \A i \in 1 .. Len(kids[x]) : kids[x][i] \in D
           I == {Cardinality(D) : D \in {C \in SUBSET live : \E F \in T : Have(C, F)}}
<1>1. TypeOK /\ live \subseteq Settings
  BY DEF IInv, TypeOK
<1>2. IsFiniteSet(live) /\ Cardinality(live) \in Nat
  BY <1>1, HeapAssumption, FS_Subset, FS_CardinalityType
<1>3. \A D \in SUBSET live : /\ IsFiniteSet(D) /\ Cardinality(D) \in Nat
                             /\ Cardinality(D) <= Cardinality(live)
  BY <1>2, FS_Subset, FS_CardinalityType
<1>4. I \in SUBSET Nat /\ I # {} /\ \A n \in I : n <= Cardinality(live)
  <2>1. Have({}, [x \in Settings |-> <<>>]) /\ [x \in Settings |-> <<>>] \in T
    OBVIOUS
  <2> HIDE DEF Have, T
  <2>2. {} \in {C \in SUBSET live : \E F \in T : Have(C, F)}
    BY <2>1
  <2> QED
    BY <1>3, <2>2
<1>5. PICK n \in I : \A m \in I : m <= n
  <2> HIDE DEF I
  <2>1. \A n \in I : n \in Nat /\ n <= Cardinality(live)
    BY <1>4
  <2>2. I \in SUBSET (0 .. Cardinality(live))
    BY <1>2, <2>1
  <2>3. Max(I) \in I /\ \A m \in I : Max(I) >= m
    BY <1>2, <1>4, <2>2, GreatestNatural
  <2> QED
    BY <1>4, <2>3
<1>6. PICK D \in SUBSET live, F \in T : Have(D, F) /\ n = Cardinality(D)
  BY Zenon
<1>7. D = live
  <2> SUFFICES ASSUME live \ D # {} PROVE FALSE
    OBVIOUS
  <2>1. PICK x \in live \ D : \A i \in DOMAIN kids[x] : kids[x][i] \notin live \ D
    BY SomeoneListsNone
  <2>2. /\ Writable(type[x], kids[x], Len(kids[x]), name, F) /\ DOMAIN kids[x] = 1 .. Len(kids[x])
        /\ \A i \in 1 .. Len(kids[x]) : kids[x][i] \in live
    BY BodyIsWritable
  <2>3. \A i \in 1 .. Len(kids[x]) : kids[x][i] \in D
    BY <2>1, <2>2
  <2> DEFINE y == IF type[x] \in Aggregates THEN Bracketed(type[x], kids[x], name, F, semicolons)
                  ELSE ScalarText(x)
             G == [F EXCEPT ![x] = y]
  <2>4. y \in Seq(Vocabulary)
    BY <1>1, <2>2, BracketedIsText, ScalarTextIsToken
  <2> HIDE DEF y
  <2>5. G \in T /\ G[x] = y /\ \A z \in D : G[z] = F[z]
    BY <1>1, <2>4
  <2> HIDE DEF G, T
  <2>6. \A z \in D \cup {x} : \A i \in 1 .. Len(kids[z]) : kids[z][i] \in D
    BY <1>6, <2>3
  <2>7. \A z \in D \cup {x} : Bracketed(type[z], kids[z], name, G, semicolons)
                                = Bracketed(type[z], kids[z], name, F, semicolons)
    <3> SUFFICES ASSUME NEW z \in D \cup {x}
                 PROVE  Parts(type[z], kids[z], name, G, semicolons)
                          = Parts(type[z], kids[z], name, F, semicolons)
      BY DEF Bracketed
    <3> QED
      BY <2>5, <2>6, SameParts
  <2>8. Have(D \cup {x}, G)
    <3>1. \A z \in D : IsTextOf(z, G, semicolons)
      BY <1>6, <2>5, <2>7 DEF IsTextOf
    <3>2. IsTextOf(x, G, semicolons)
      BY <2>5, <2>7 DEF IsTextOf, y
    <3> QED
      BY <2>6, <3>1, <3>2
  <2>9. Cardinality(D \cup {x}) \in I /\ D \cup {x} \in SUBSET live
    <3> HIDE DEF Have
    <3> QED
      BY <2>1, <2>5, <2>8
  <2>10. Cardinality(D \cup {x}) = Cardinality(D) + 1
    BY <1>3, <2>1, FS_AddElement
  <2> HIDE DEF I, Have
  <2> QED
    BY <1>3, <1>5, <1>6, <2>9, <2>10
<1> QED
  BY <1>6, <1>7

(* The recursive function of config_write(), under a name.                 *)
TextsBody(w, semicolons) ==
  [x \in live |-> TextWith(x, [i \in DOMAIN kids[x] |-> w[kids[x][i]]], semicolons)]
WrittenTexts(semicolons) == CHOOSE w : w = TextsBody(w, semicolons)

LEMMA ConfigWriteUnfolds ==
  ASSUME NEW semicolons
  PROVE  ConfigWrite(semicolons) = SubSeq(WrittenTexts(semicolons)[root], 2,
                                          Len(WrittenTexts(semicolons)[root]) - 1)
BY Zenon DEF ConfigWrite, WrittenTexts, TextsBody, TextWith

(* If all settings have their texts, this is what is written.              *)
LEMMA WrittenWhole ==
  ASSUME IInv, Named, root \in live, NEW F \in [Settings -> Seq(Vocabulary)],
         NEW semicolons \in BOOLEAN, \A x \in live : IsTextOf(x, F, semicolons)
  PROVE  /\ ConfigWrite(semicolons)
              = FlattenSeq(Parts("GROUP", kids[root], name, F, semicolons))
         /\ ConfigWrite(semicolons) \in Seq(Vocabulary)
<1> DEFINE items(w, x) == [i \in DOMAIN kids[x] |-> w[kids[x][i]]]
           g == [x \in live |-> F[x]]
           h == WrittenTexts(semicolons)
           body(w) == TextsBody(w, semicolons)
<1>2. \A x \in live : \A i \in DOMAIN kids[x] : kids[x][i] \in live
  BY DEF IInv, TreeOK, ElementsAreLive
<1>3. \A x \in live : F[x] = TextWith(x, items(F, x), semicolons)
  BY TextIsWritten
<1>4. g = body(g)
  <2>1. \A x \in live : items(g, x) = items(F, x)
    BY <1>2
  <2>2. \A x \in live : g[x] = TextWith(x, items(g, x), semicolons)
    <3>1. \A x \in live : g[x] = F[x]
      OBVIOUS
    <3> HIDE DEF g, items
    <3> QED
      BY <1>3, <2>1, <3>1
  <2>3. g = [x \in live |-> g[x]]
    OBVIOUS
  <2> HIDE DEF g
  <2> QED
    BY <2>2, <2>3, Zenon DEF TextsBody
<1>5. h = body(h)
  <2> HIDE DEF g
  <2> QED
    BY <1>4, Zenon DEF WrittenTexts
<1> HIDE DEF g, h
<1>6. \A x \in live : h[x] = TextWith(x, items(h, x), semicolons)
  BY <1>5, Zenon DEF TextsBody
<1>7. h[root] = F[root]
  BY <1>6, TextsAreUnique
<1> DEFINE b == FlattenSeq(Parts("GROUP", kids[root], name, F, semicolons))
<1>8. type[root] = "GROUP"
  BY SettingAssumption DEF IInv, TypeOK, TreeOK, RootIsGroup
<1>9. F[root] = (<<Start("GROUP")>> \o b) \o <<End("GROUP")>>
  BY <1>8 DEF IsTextOf, Bracketed, Aggregates
<1>10. b \in Seq(Vocabulary) /\ Start("GROUP") \in Vocabulary /\ End("GROUP") \in Vocabulary
  <2>1. Writable(type[root], kids[root], Len(kids[root]), name, F)
    BY BodyIsWritable
  <2>2. "GROUP" \in Aggregates
    BY DEF Aggregates
  <2> QED
    BY <1>8, <2>1, <2>2, BracketedIsText, SignsAreTokens
<1> HIDE DEF b, items
<1>11. SubSeq(F[root], 2, Len(F[root]) - 1) = b
  BY <1>9, <1>10, WithinBrackets
<1> QED
  BY <1>7, <1>10, <1>11, ConfigWriteUnfolds DEF h, b

(* A scalar is stored, or the parser gives up.                             *)
LEMMA StoreValueKeeps ==
  ASSUME ParseInv, phase = "reading", NEW tok,
         tok.type \in ScalarTypes, tok.value \in ValuesOf(tok.type),
         tok.format \in AllFormats, Enclosing = "GROUP" => Waiting,
         StoreValue(tok)
  PROVE  /\ TreeInv'
         /\ Up(ctxParent', open', live', type', parent', root')
         /\ \/ phase' = "failed" /\ UNCHANGED stack
            \/ phase' = "reading" /\ open' = open /\ expect' = AfterValue(Enclosing)
<1>1. TreeInv /\ IInv /\ ValuesFit /\ TypeOK /\ open \in Seq(Aggregates)
  BY TreeFacts DEF ParseInv, StackOK
<1>2. /\ ctxParent \in live /\ type[ctxParent] = Enclosing
      /\ InArray <=> Enclosing = "ARRAY"
      /\ InList <=> Enclosing = "LIST"
  BY ParentIs
<1>3. Up(ctxParent, open, live, type, parent, root)
  BY DEF ParseInv, Located
<1>4. /\ ctxParent' = ctxParent /\ open' = open
      /\ \/ phase' = "failed" /\ UNCHANGED stack
         \/ phase' = "reading" /\ open' = open /\ expect' = AfterValue(Enclosing)
  BY DEF StoreValue, Return, stack
<1>5. CASE Refuse
  <2>1. UNCHANGED <<live, root, type, parent>>
    BY <1>5 DEF Refuse, Unchanged, fields, config
  <2>2. Up(ctxParent, open, live', type', parent', root')
    BY <1>3, <2>1
  <2> QED
    BY <1>1, <1>4, <1>5, <2>2, RefuseTree
<1>6. CASE (InArray \/ InList) /\ ~Refuse
  <2>1. PICK c \in Settings \ live :
          Reshape({}, ctxParent, Append(kids[ctxParent], c), {c}, NULL,
                  tok.type, tok.value, FormatAfter(tok, "DEFAULT"))
    BY <1>6 DEF StoreValue, AppendValue
  <2>2. CheckType(ctxParent, tok.type) /\ UNCHANGED config /\ ok' = TRUE
    BY <1>6 DEF StoreValue, AppendValue, Answer
  <2>3. /\ FormatAfter(tok, "DEFAULT") \in AllFormats
        /\ FormatAfter(tok, "DEFAULT") = "DEFAULT" \/ tok.type \in {"INT", "INT64"}
    BY DEF FormatAfter, AllFormats
  <2>4. type[ctxParent] \in {"ARRAY", "LIST"}
    BY <1>2, <1>6
  <2>5. TreeInv'
    BY <1>1, <1>2, <2>1, <2>2, <2>3, <2>4, AppendTree
  <2>6. Up(ctxParent, open, live', type', parent', root)
    <3>1. {} \in SUBSET live /\ Closed({}) /\ root \notin {} /\ live \ {} = live
      BY DEF Closed
    <3> QED
      BY <1>1, <1>2, <1>3, <2>1, <3>1, UpAfterReshape
  <2> QED
    BY <1>4, <2>2, <2>5, <2>6 DEF config
<1>7. CASE ~(InArray \/ InList) /\ ~Refuse
  <2>1. Waiting
    <3>1. Enclosing = "GROUP"
      <4>1. open # <<>> => Head(open) \in Aggregates
        BY <1>1, EmptySeq
      <4> QED
        BY <1>2, <1>7, <4>1 DEF Enclosing, Aggregates
    <3> QED
      BY <3>1
  <2> DEFINE s == ctxSetting
             auto == "AUTOCONVERT" \in opts
             results == Stored(tok.type, type[s], tok.value, auto)
             f == FormatAfter(tok, format[s])
  <2>2. PICK r \in results :
          /\ type' = [type EXCEPT ![s] = r[1]]
          /\ value' = [value EXCEPT ![s] = r[2]]
          /\ format' = [format EXCEPT ![s] = FormatAfter(tok, @)]
          /\ UNCHANGED <<live, name, parent, hook, kids, config, finalized>>
          /\ ok' = TRUE
    BY <1>7, Zenon DEF StoreValue, AssignValue, Answer
  <2>3. s \in live /\ s \in Settings /\ type[s] = "NONE" /\ auto \in BOOLEAN
    BY <1>1, <2>1 DEF Waiting, TypeOK
  <2>4. format' = [format EXCEPT ![s] = f]
    BY <1>1, <2>2, <2>3 DEF TypeOK
  <2>5. format[s] = "DEFAULT"
    BY <1>1, <2>3 DEF ValuesFit
  <2>6. r = <<tok.type, tok.value>>
    BY <2>2, <2>3 DEF Stored, SetInt, SetInt64, SetFloat, SetBool, SetString, ScalarTypes
  <2>7. f \in AllFormats /\ (f = "DEFAULT" \/ r[1] \in {"INT", "INT64"})
    BY <2>5, <2>6 DEF FormatAfter, AllFormats
  <2> HIDE DEF f, auto, results
  <2>8. r \in Stored(tok.type, type[s], tok.value, auto)
    BY <2>2 DEF results
  <2>9. TreeInv'
    BY <1>1, <2>2, <2>3, <2>4, <2>7, <2>8, AssignTree
  <2>10. \A x \in live : type[x] \in Aggregates => type'[x] = type[x]
    BY <1>1, <2>2, <2>3 DEF TypeOK, Aggregates
  <2>11. Up(ctxParent, open, live', type', parent', root')
    BY <1>1, <1>2, <1>3, <2>2, <2>10, UpAfterTyping DEF config
  <2> QED
    BY <1>4, <2>9, <2>11
<1> QED
  BY <1>5, <1>6, <1>7

-----------------------------------------------------------------------------
(* The steps.                                                              *)

(* What becomes of the tokens and the string of a token that is no string. *)
LEMMA ShiftedTokens ==
  ASSUME InputOK, NEW tok \in NextTokens, Shift(tok)
  PROVE  written' = written /\ look' = NULL /\ text' \in Seq(Vocabulary)
<1>1. tok \in Vocabulary
  BY TokensRead
<1> QED
  BY <1>1 DEF InputOK, Shift

LEMMA ShiftedInput ==
  ASSUME InputOK, NEW tok \in NextTokens, Shift(tok), ctxString' = NULL PROVE InputOK'
BY ShiftedTokens DEF InputOK

(* A token that is allowed leaves no string behind unless it is one.       *)
LEMMA NoString ==
  ASSUME InputOK, NEW tok \in NextTokens, Allowed(tok), tok.kind # "STRING"
  PROVE  expect # "string" /\ ctxString = NULL
<1>1. expect # "string"
  <2>1. tok.kind \in {"START", "END"} => tok.of \in Aggregates
    BY TokensRead DEF IsToken, Sign
  <2> QED
    BY <2>1 DEF Allowed, StartsValue, ValueExpected, SettingExpected, Aggregates
<1> QED
  BY <1>1 DEF InputOK

LEMMA AfterValueOK ==
  ASSUME open' \in Seq(Aggregates), expect' = AfterValue(Enclosing')
  PROVE  StackOK' /\ expect' \in {"terminator", "comma"}
<1>1. CASE Enclosing' = "GROUP"
  BY <1>1 DEF StackOK, AfterValue
<1>2. CASE Enclosing' # "GROUP"
  BY <1>2 DEF StackOK, AfterValue
<1> QED
  BY <1>1, <1>2

LEMMA StartReadKeeps ==
  ASSUME ParseInv, NEW w \in Seq(Vocabulary) \cup {NULL}, StartRead(w) PROVE ParseInv'
<1>1. TreeInv'
  BY LifeStepTree DEF ParseInv, StartRead, LifeStep
<1>2. InputOK' /\ StackOK'
  BY DEF StartRead, InputOK, StackOK, Enclosing
<1>3. Located'
  <2>1. root' \in live'
    BY DEF StartRead, ConfigClear, NewRoot, Rebuild, Reshape
  <2> DEFINE up == [i \in 1 .. 1 |-> root']
  <2>2. up \in [1 .. Len(open') + 1 -> live']
    BY <2>1 DEF StartRead
  <2>3. WayUp(up, ctxParent', open', type', parent', root')
    BY DEF WayUp, StartRead
  <2>4. Up(ctxParent', open', live', type', parent', root')
    BY <2>2, <2>3, Zenon DEF Up
  <2> QED
    BY <2>4 DEF Located, StartRead
<1> QED
  BY <1>1, <1>2, <1>3 DEF ParseInv

LEMMA ChangeOptionsKeeps == ASSUME ParseInv, ChangeOptions PROVE ParseInv'
<1>1. TreeInv'
  BY LifeStepTree DEF ParseInv, ChangeOptions, LifeStep
<1>2. InputOK' /\ StackOK' /\ phase' # "reading"
  BY DEF ParseInv, ChangeOptions, InputOK, StackOK, Enclosing, context, stack, input
<1> QED
  BY <1>1, <1>2 DEF ParseInv

LEMMA ParseNameKeeps ==
  ASSUME ParseInv, NEW tok \in NextTokens, ParseName(tok) PROVE ParseInv'
<1>1. /\ TreeInv /\ IInv /\ InputOK /\ StackOK /\ phase = "reading"
      /\ Shift(tok) /\ ctxString' = ctxString
      /\ ConfigSettingAdd(ctxParent, tok.name, "NONE")
  BY TreeFacts DEF ParseInv, ParseName, Shift
<1>2. tok.name \in Names /\ ctxString = NULL
  BY <1>1, TokensRead, NoString DEF ParseName, IsToken, Sign
<1>3. /\ ctxParent \in live /\ type[ctxParent] = Enclosing
      /\ Up(ctxParent, open, live, type, parent, root)
  BY <1>1, ParentIs DEF ParseInv, Located
<1>4. TreeInv'
  BY <1>1, <1>2, <1>3, AddTree DEF ScalarTypes
<1>5. InputOK'
  BY <1>1, <1>2, ShiftedInput
<1>6. CASE ~ok'
  <2>1. phase' = "failed" /\ UNCHANGED stack
    BY <1>6 DEF ParseName, Return
  <2>2. StackOK'
    BY <1>1, <2>1 DEF stack, StackOK, Enclosing
  <2> QED
    BY <1>4, <1>5, <2>1, <2>2 DEF ParseInv
<1>7. CASE ok'
  <2>1. /\ ctxParent' = ctxParent /\ ctxSetting' = Last(kids'[ctxParent])
        /\ expect' = "equals" /\ open' = open
    BY <1>7 DEF ParseName
  <2>2. MayAdd(ctxParent, tok.name, "NONE")
    BY <1>1, <1>7 DEF ConfigSettingAdd, Refuse, Answer
  <2>3. Enclosing = "GROUP"
    BY <1>1 DEF ParseName, Allowed, StartsValue, SettingExpected, StackOK
  <2>4. GivenName(ctxParent, tok.name) # NULL
    BY <1>2, <1>3, <2>3, ParserAssumption DEF GivenName
  <2>5. /\ kids'[ctxParent] # <<>> /\ Last(kids'[ctxParent]) \in live'
        /\ type'[Last(kids'[ctxParent])] = "NONE"
        /\ name'[Last(kids'[ctxParent])] = GivenName(ctxParent, tok.name)
        /\ Up(ctxParent, open, live', type', parent', root')
    BY <1>1, <1>2, <1>3, <2>2, AddEffect DEF StackOK
  <2>6. Located'
    BY <2>1, <2>4, <2>5 DEF Located, Waiting
  <2>7. StackOK'
    BY <1>1, <2>1, <2>3 DEF StackOK, Enclosing
  <2> QED
    BY <1>4, <1>5, <2>6, <2>7 DEF ParseInv
<1> QED
  BY <1>6, <1>7

LEMMA ParseEqualsKeeps ==
  ASSUME ParseInv, NEW tok \in NextTokens, ParseEquals(tok) PROVE ParseInv'
<1>1. /\ phase = "reading" /\ expect = "equals" /\ Enclosing = "GROUP"
      /\ ctxString = NULL /\ Shift(tok) /\ ctxString' = ctxString
      /\ InputOK /\ StackOK /\ Located /\ TreeInv
  BY NoString DEF ParseInv, ParseEquals, Shift, Allowed, StartsValue, StackOK, context
<1>2. TreeInv' /\ InputOK'
  BY <1>1, StutterTree, ShiftedInput DEF ParseEquals
<1>3. StackOK'
  BY <1>1 DEF StackOK, ParseEquals, Enclosing
<1>4. Located'
  BY <1>1 DEF Located, Waiting, ParseEquals, Enclosing, context, vars
<1> QED
  BY <1>2, <1>3, <1>4 DEF ParseInv

(* An aggregate begins: in a list it is a new element, in a group it is the*)
(* setting that waits; an array has none.                                  *)
LEMMA ParseStartKeeps ==
  ASSUME ParseInv, NEW tok \in NextTokens, ParseStart(tok) PROVE ParseInv'
<1>1. /\ TreeInv /\ IInv /\ InputOK /\ StackOK /\ Located /\ phase = "reading"
      /\ Shift(tok) /\ ctxString' = ctxString /\ ctxString = NULL
  BY TreeFacts, NoString DEF ParseInv, ParseStart, Shift
<1>2. tok.of \in Aggregates
  BY <1>1, TokensRead DEF ParseStart, IsToken, Sign
<1>3. /\ ctxParent \in live /\ type[ctxParent] = Enclosing
      /\ InList <=> Enclosing = "LIST"
      /\ Up(ctxParent, open, live, type, parent, root)
      /\ open \in Seq(Aggregates)
  BY <1>1, ParentIs DEF Located, StackOK
<1>4. /\ Enclosing # "ARRAY" /\ expect \in {"value", "first", "element"}
      /\ Enclosing \in Aggregates
  <2>1. open # <<>> => Head(open) \in Aggregates
    BY <1>3, EmptySeq
  <2> QED
    BY <2>1 DEF ParseStart, Allowed, StartsValue, ValueExpected, Enclosing, Aggregates
<1>5. /\ phase' = phase
      /\ open' = <<tok.of>> \o open
      /\ expect' = IF tok.of = "GROUP" THEN "setting" ELSE "first"
  BY DEF ParseStart
<1>6. InputOK'
  BY <1>1, ShiftedInput
<1>7. StackOK'
  <2>1. /\ open' \in Seq(Aggregates) /\ open' # <<>> /\ Head(open') = tok.of
    BY <1>2, <1>3, <1>5, EmptySeq
  <2> QED
    BY <1>2, <1>5, <2>1 DEF StackOK, Enclosing, Aggregates
<1>8. CASE InList
  <2>1. /\ ConfigSettingAdd(ctxParent, NULL, tok.of)
        /\ ctxParent' = Last(kids'[ctxParent])
    BY <1>8 DEF ParseStart
  <2>2. MayAdd(ctxParent, NULL, tok.of)
    BY <1>2, <1>3, <1>8, ParserAssumption
       DEF MayAdd, Types, GivenName, GetMember, Aggregates
  <2>3. TreeInv'
    BY <1>1, <1>2, <1>3, <2>1, AddTree DEF ScalarTypes, Aggregates
  <2>4. /\ kids'[ctxParent] # <<>> /\ Last(kids'[ctxParent]) \in live'
        /\ type'[Last(kids'[ctxParent])] = tok.of
        /\ name'[Last(kids'[ctxParent])] = GivenName(ctxParent, NULL)
        /\ parent'[Last(kids'[ctxParent])] = ctxParent
        /\ Up(ctxParent, open, live', type', parent', root')
    <3>1. NULL \in Names \cup {NULL, BadName}
      OBVIOUS
    <3> QED
      BY <1>1, <1>3, <2>1, <2>2, <3>1, AddEffect, Zenon
  <2>5. Up(ctxParent', open', live', type', parent', root')
    BY <1>3, <1>5, <2>1, <2>4, UpPushed
  <2> QED
    BY <1>5, <1>6, <1>7, <2>3, <2>5 DEF ParseInv, Located
<1>9. CASE ~InList
  <2>1. Enclosing = "GROUP" /\ Waiting
    BY <1>1, <1>3, <1>4, <1>9 DEF StackOK, Located, Aggregates
  <2> DEFINE s == ctxSetting
  <2>2. /\ type' = [type EXCEPT ![s] = tok.of]
        /\ ctxParent' = s
        /\ UNCHANGED <<live, name, value, format, parent, hook, kids, config,
                       finalized, ok>>
    BY <1>9 DEF ParseStart
  <2>3. s \in live /\ type[s] = "NONE" /\ parent[s] = ctxParent
    <3>1. kids[ctxParent] \in Seq(Settings) /\ kids[ctxParent] # <<>>
      BY <1>1, <1>3, <2>1 DEF IInv, TypeOK, Waiting
    <3>2. Len(kids[ctxParent]) \in DOMAIN kids[ctxParent]
      BY <3>1, LenProperties, EmptySeq
    <3>3. s = kids[ctxParent][Len(kids[ctxParent])]
      BY <2>1 DEF Waiting, Last
    <3> QED
      BY <1>1, <1>3, <2>1, <3>2, <3>3 DEF Waiting, IInv, TreeOK, ElementsAreLive
  <2>4. TreeInv'
    BY <1>1, <1>2, <1>3, <2>1, <2>2, <2>3, OpenTree
  <2>5. type'[s] = tok.of /\ \A x \in live : type[x] \in Aggregates => type'[x] = type[x]
    BY <1>1, <2>2, <2>3 DEF IInv, TypeOK, Aggregates
  <2>6. Up(ctxParent, open, live', type', parent', root')
    BY <1>1, <1>3, <2>2, <2>5, UpAfterTyping DEF config
  <2>7. Up(ctxParent', open', live', type', parent', root')
    BY <1>3, <1>5, <2>2, <2>3, <2>5, <2>6, UpPushed
  <2> QED
    BY <1>5, <1>6, <1>7, <2>4, <2>7 DEF ParseInv, Located
<1> QED
  BY <1>8, <1>9

LEMMA ParseEndKeeps ==
  ASSUME ParseInv, NEW tok \in NextTokens, ParseEnd(tok) PROVE ParseInv'
<1>1. /\ TreeInv /\ InputOK /\ StackOK /\ Located /\ phase = "reading"
      /\ Shift(tok) /\ ctxString' = ctxString /\ ctxString = NULL
      /\ UNCHANGED vars /\ UNCHANGED phase
  BY NoString DEF ParseInv, ParseEnd, Shift
<1>2. TreeInv' /\ InputOK'
  BY <1>1, StutterTree, ShiftedInput
<1>3. /\ open # <<>> /\ open' = Tail(open) /\ expect' = AfterValue(Enclosing')
      /\ ctxParent' = parent[ctxParent]
  BY <1>1, ParentIs DEF ParseInv, ParseEnd, Allowed, StartsValue
<1>4. open' \in Seq(Aggregates)
  BY <1>1, <1>3, EmptySeq DEF StackOK
<1>5. StackOK' /\ expect' \in {"terminator", "comma"}
  BY <1>3, <1>4, AfterValueOK
<1>6. Up(ctxParent', open', live', type', parent', root')
  <2>1. Up(parent[ctxParent], Tail(open), live, type, parent, root)
    BY <1>1, <1>3, UpPopped DEF Located, StackOK
  <2> QED
    BY <1>1, <1>3, <2>1 DEF vars
<1> QED
  BY <1>2, <1>5, <1>6 DEF ParseInv, Located

LEMMA ParseSeparatorKeeps ==
  ASSUME ParseInv, NEW tok \in NextTokens, ParseSeparator(tok) PROVE ParseInv'
<1>1. /\ TreeInv /\ InputOK /\ StackOK /\ Located /\ phase = "reading"
      /\ Shift(tok) /\ ctxString' = ctxString /\ ctxString = NULL
      /\ UNCHANGED <<vars, phase, context, open>>
  BY NoString DEF ParseInv, ParseSeparator, Shift, context
<1>2. TreeInv' /\ InputOK'
  BY <1>1, StutterTree, ShiftedInput
<1>3. \/ expect = "terminator" /\ expect' = "setting"
      \/ expect \in {"comma", "element"} /\ expect' = "element"
  BY DEF ParseSeparator, Allowed, StartsValue
<1>4. StackOK' /\ Located'
  BY <1>1, <1>3 DEF StackOK, Located, Enclosing, vars, context
<1> QED
  BY <1>2, <1>4 DEF ParseInv

(* A scalar: what StoreValue() leaves is what is due after a value.        *)
LEMMA StoredKeeps ==
  ASSUME ParseInv, phase = "reading", NEW tok,
         tok.type \in ScalarTypes, tok.value \in ValuesOf(tok.type),
         tok.format \in AllFormats, Enclosing = "GROUP" => Waiting,
         StoreValue(tok), InputOK'
  PROVE  ParseInv'
<1>1. /\ TreeInv'
      /\ Up(ctxParent', open', live', type', parent', root')
      /\ \/ phase' = "failed" /\ UNCHANGED stack
         \/ phase' = "reading" /\ open' = open /\ expect' = AfterValue(Enclosing)
  BY StoreValueKeeps
<1>2. StackOK /\ open \in Seq(Aggregates)
  BY DEF ParseInv, StackOK
<1>3. CASE phase' = "failed" /\ UNCHANGED stack
  <2>1. StackOK'
    BY <1>2, <1>3 DEF StackOK, Enclosing, stack
  <2> QED
    BY <1>1, <1>3, <2>1 DEF ParseInv
<1>4. CASE open' = open /\ expect' = AfterValue(Enclosing)
  <2>1. expect' = AfterValue(Enclosing') /\ open' \in Seq(Aggregates)
    BY <1>2, <1>4 DEF Enclosing
  <2>2. StackOK' /\ expect' \in {"terminator", "comma"}
    BY <2>1, AfterValueOK
  <2> QED
    BY <1>1, <2>2 DEF ParseInv, Located
<1> QED
  BY <1>1, <1>3, <1>4

LEMMA ParseScalarKeeps ==
  ASSUME ParseInv, NEW tok \in NextTokens, ParseScalar(tok) PROVE ParseInv'
<1>1. /\ InputOK /\ StackOK /\ Located /\ phase = "reading"
      /\ Shift(tok) /\ ctxString' = ctxString /\ ctxString = NULL
      /\ StoreValue(tok)
  BY NoString DEF ParseInv, ParseScalar, Shift
<1>2. /\ tok.type \in ScalarTypes /\ tok.value \in ValuesOf(tok.type)
      /\ tok.format \in AllFormats
  BY <1>1, TokensRead DEF ParseScalar, IsToken, Sign
<1>3. Enclosing = "GROUP" => Waiting
  BY <1>1 DEF ParseScalar, Allowed, StartsValue, ValueExpected, StackOK, Located
<1>4. InputOK'
  BY <1>1, ShiftedInput
<1> QED
  BY <1>1, <1>2, <1>3, <1>4, StoredKeeps

LEMMA ParseStringKeeps ==
  ASSUME ParseInv, NEW tok \in NextTokens, ParseString(tok) PROVE ParseInv'
<1>1. /\ TreeInv /\ InputOK /\ StackOK /\ Located /\ phase = "reading"
      /\ Shift(tok) /\ UNCHANGED <<vars, phase, ctxParent, ctxSetting, open>>
      /\ expect' = "string"
  BY DEF ParseInv, ParseString, Shift
<1>2. tok.value \in Strings
  BY <1>1, TokensRead DEF ParseString, IsToken, Sign
<1>3. ctxString' \in Strings
  <2>1. ASSUME ctxString # NULL PROVE Joined[<<ctxString, tok.value>>] \in Strings
    <3>1. <<ctxString, tok.value>> \in Strings \X Strings
      BY <1>1, <1>2, <2>1 DEF InputOK
    <3> QED
      BY <3>1, ParserAssumption
  <2> QED
    BY <1>2, <2>1 DEF ParseString
<1>4. TreeInv' /\ InputOK'
  BY <1>1, <1>3, ShiftedTokens, StutterTree DEF InputOK
<1>5. Enclosing = "GROUP" => expect \in {"value", "string"}
  BY <1>1 DEF ParseString, Allowed, StartsValue, ValueExpected, StackOK
<1>6. StackOK' /\ Located'
  BY <1>1, <1>5 DEF StackOK, Located, Waiting, Enclosing, vars
<1> QED
  BY <1>4, <1>6 DEF ParseInv

LEMMA TakeStringKeeps == ASSUME ParseInv, TakeString PROVE ParseInv'
<1>1. /\ InputOK /\ Located /\ phase = "reading" /\ expect = "string"
      /\ StoreValue(Quoted(ctxString)) /\ ctxString' = NULL /\ written' = written
      /\ text' = text
  BY DEF ParseInv, TakeString
<1>2. PICK tok \in NextTokens : look' = tok
  BY DEF TakeString
<1>3. InputOK'
  BY <1>1, <1>2, TokensRead DEF InputOK
<1>4. /\ Quoted(ctxString).type = "STRING" /\ Quoted(ctxString).value = ctxString
      /\ Quoted(ctxString).format = "DEFAULT"
  BY DEF Quoted, Scalar
<1>5. /\ Quoted(ctxString).type \in ScalarTypes
      /\ Quoted(ctxString).value \in ValuesOf(Quoted(ctxString).type)
      /\ Quoted(ctxString).format \in AllFormats
  BY <1>1, <1>4 DEF ScalarTypes, ValuesOf, AllFormats, InputOK
<1>6. Enclosing = "GROUP" => Waiting
  BY <1>1 DEF Located
<1> QED
  BY <1>1, <1>3, <1>5, <1>6, StoredKeeps

LEMMA ParseEofKeeps ==
  ASSUME ParseInv, NEW tok \in NextTokens, ParseEof(tok) PROVE ParseInv'
<1>1. /\ TreeInv /\ InputOK /\ StackOK
      /\ Shift(tok) /\ ctxString' = ctxString /\ ctxString = NULL
      /\ UNCHANGED vars /\ phase' = "accepted" /\ UNCHANGED stack
  BY NoString DEF ParseInv, ParseEof, context, Return
<1>2. TreeInv' /\ InputOK'
  BY <1>1, StutterTree, ShiftedInput
<1>3. StackOK'
  BY <1>1 DEF StackOK, Enclosing, stack
<1> QED
  BY <1>1, <1>2, <1>3 DEF ParseInv

LEMMA ParseErrorKeeps ==
  ASSUME ParseInv, NEW tok \in NextTokens, ParseError(tok) PROVE ParseInv'
<1>1. /\ TreeInv /\ InputOK /\ StackOK
      /\ Shift(tok) /\ ctxString' = NULL
      /\ UNCHANGED vars /\ phase' = "refused" /\ UNCHANGED stack
  BY DEF ParseInv, ParseError, Return
<1>2. TreeInv' /\ InputOK'
  BY <1>1, StutterTree, ShiftedInput
<1>3. StackOK'
  BY <1>1 DEF StackOK, Enclosing, stack
<1> QED
  BY <1>1, <1>2, <1>3 DEF ParseInv

LEMMA ParserStutters == ASSUME ParseInv, UNCHANGED parserVars PROVE ParseInv'
<1>1. TreeInv'
  BY StutterTree DEF ParseInv, parserVars
<1>2. InputOK' /\ StackOK' /\ (phase' = "reading" => Located')
  BY DEF ParseInv, parserVars, vars, context, stack, input, InputOK, StackOK, Located,
         Waiting, Enclosing
<1> QED
  BY <1>1, <1>2 DEF ParseInv

-----------------------------------------------------------------------------
(* Whether what was built can be written.                                  *)

(* A setting has its name and no value yet.                                *)
IsWaiting ==
  expect \in {"equals", "value"} \/ (expect = "string" /\ Enclosing = "GROUP")

(* Members of groups have names, and only a setting that waits has no type.*)
Settled == Named /\ \A x \in live : type[x] = "NONE" => IsWaiting /\ x = ctxSetting
NamesInv ==
  /\ phase = "reading" => Settled
  /\ phase = "accepted" => Named /\ \A x \in live : type[x] # "NONE"

LEMMA NamedByParent ==
  ASSUME TypeOK, TreeOK
  PROVE  Named <=> \A y \in live \ {root} : type[parent[y]] = "GROUP" => name[y] \in Names
<1>1. ASSUME Named, NEW y \in live \ {root}, type[parent[y]] = "GROUP" PROVE name[y] \in Names
  <2>1. parent[y] \in live /\ y \in ToSet(kids[parent[y]])
    BY DEF TreeOK, OnlyRootIsLoose
  <2> QED
    BY <1>1, <2>1 DEF Named, ToSet
<1>2. ASSUME \A y \in live \ {root} : type[parent[y]] = "GROUP" => name[y] \in Names
      PROVE  Named
  <2> SUFFICES ASSUME NEW x \in live, type[x] = "GROUP", NEW i \in DOMAIN kids[x]
               PROVE  name[kids[x][i]] \in Names
    BY DEF Named
  <2>1. kids[x][i] \in live /\ parent[kids[x][i]] = x
    BY DEF TreeOK, ElementsAreLive
  <2>2. kids[x][i] # root
    BY <2>1, SettingAssumption DEF TreeOK, OnlyRootIsLoose, TypeOK
  <2> QED
    BY <1>2, <2>1, <2>2
<1> QED
  BY <1>1, <1>2

(* A setting is created, others may go.                                    *)
LEMMA CreatedNamed ==
  ASSUME TypeOK, TreeOK, (TypeOK /\ TreeOK)', NEW dead \in SUBSET live, Closed(dead),
         NEW p \in live \ dead, NEW c \in Settings \ (live \ dead), NEW ks, NEW n, NEW t,
         NEW v, NEW f, Reshape(dead, p, ks, {c}, n, t, v, f), UNCHANGED root,
         root \notin dead, type[p] = "GROUP" => n \in Names, Named
  PROVE  /\ Named'
         /\ \A x \in live' : type'[x] = "NONE" => (x \in live /\ type[x] = "NONE") \/ (x = c /\ t = "NONE")
<1> DEFINE stay == live \ dead
<1>1. /\ live' = stay \cup {c} /\ parent'[c] = p /\ name'[c] = n /\ type'[c] = t
      /\ \A x \in stay : type'[x] = type[x] /\ name'[x] = name[x] /\ parent'[x] = parent[x]
      /\ p \in stay
  BY DEF Reshape, TypeOK
<1>2. ASSUME NEW y \in live' \ {root}, type'[parent'[y]] = "GROUP" PROVE name'[y] \in Names
  <2>1. CASE y = c
    BY <1>1, <1>2, <2>1
  <2>2. CASE y # c
    <3>1. y \in stay /\ parent'[y] = parent[y] /\ name'[y] = name[y]
      BY <1>1, <2>2
    <3>2. parent[y] \in stay
      <4>1. parent[y] \in live /\ y \in ToSet(kids[parent[y]])
        BY <1>2, <3>1 DEF TreeOK, OnlyRootIsLoose
      <4> QED
        BY <3>1, <4>1 DEF Closed
    <3>3. type[parent[y]] = "GROUP"
      BY <1>1, <1>2, <3>1, <3>2
    <3> QED
      BY <1>2, <3>1, <3>3, NamedByParent
  <2> QED
    BY <2>1, <2>2
<1>3. Named'
  <2> SUFFICES ASSUME NEW x \in live', type'[x] = "GROUP", NEW i \in DOMAIN kids'[x]
               PROVE  name'[kids'[x][i]] \in Names
    BY DEF Named
  <2>1. kids'[x][i] \in live' /\ parent'[kids'[x][i]] = x
    BY DEF TreeOK, ElementsAreLive
  <2>2. x # NULL /\ (root \in live' => parent'[root] = NULL)
    BY SettingAssumption DEF TreeOK, OnlyRootIsLoose, TypeOK
  <2>3. kids'[x][i] # root
    BY <2>1, <2>2
  <2> QED
    BY <1>2, <2>1, <2>3
<1> QED
  BY <1>1, <1>3

(* The setting s, without elements, gets the type t.                       *)
LEMMA TypedNamed ==
  ASSUME TypeOK, Named, NEW s \in live, kids[s] = <<>>, NEW t, t # "NONE",
         type' = [type EXCEPT ![s] = t], UNCHANGED <<live, name, kids>>
  PROVE  /\ Named'
         /\ \A x \in live' : type'[x] = "NONE" => x \in live \ {s} /\ type[x] = "NONE"
<1>1. type'[s] = t /\ \A x \in live \ {s} : type'[x] = type[x]
  BY DEF TypeOK
<1>2. DOMAIN kids[s] = {}
  OBVIOUS
<1>3. Named'
  BY <1>1, <1>2 DEF Named
<1> QED
  BY <1>1, <1>3

LEMMA WaitingIsWaiting ==
  ASSUME ParseInv, phase = "reading"
  PROVE  IsWaiting => Waiting /\ ctxSetting \in live /\ type[ctxSetting] = "NONE" /\ kids[ctxSetting] = <<>>
<1>1. IsWaiting => Waiting
  BY DEF ParseInv, Located, IsWaiting
<1>2. Waiting => kids[ctxSetting] = <<>>
  BY DEF ParseInv, TreeInv, ArrayInv, ShapeInv, ShapeOK, Waiting, Aggregates
<1> QED
  BY <1>1, <1>2 DEF Waiting

(* A scalar that is stored leaves no setting without a type.               *)
LEMMA StoredSettles ==
  ASSUME ParseInv, ParseInv', Settled, phase = "reading", NEW tok, tok.type \in ScalarTypes,
         Enclosing = "GROUP" <=> IsWaiting, StoreValue(tok), phase' = "reading"
  PROVE  Named' /\ \A x \in live' : type'[x] # "NONE"
<1>1. /\ TypeOK /\ TreeOK /\ (TypeOK /\ TreeOK)' /\ Named
      /\ \A x \in live : type[x] = "NONE" => IsWaiting /\ x = ctxSetting
  BY TreeFacts, PTL DEF ParseInv, Settled
<1>2. /\ ctxParent \in live /\ type[ctxParent] = Enclosing
      /\ InArray <=> Enclosing = "ARRAY"
      /\ InList <=> Enclosing = "LIST"
  BY ParentIs
<1>3. Enclosing \in Aggregates
  <2>1. open # <<>> => Head(open) \in Aggregates
    BY EmptySeq DEF ParseInv, StackOK
  <2> QED
    BY <2>1 DEF Enclosing, Aggregates
<1>4. CASE InArray \/ InList
  <2>1. ok'
    BY <1>4 DEF StoreValue, Return
  <2>2. PICK c \in Settings \ live :
          /\ Reshape({}, ctxParent, Append(kids[ctxParent], c), {c}, NULL,
                     tok.type, tok.value, FormatAfter(tok, "DEFAULT"))
          /\ UNCHANGED config
    BY <1>4, <2>1 DEF StoreValue, AppendValue, Refuse, Answer
  <2>3. ~IsWaiting /\ type[ctxParent] # "GROUP"
    BY <1>2, <1>4
  <2>4. Closed({}) /\ {} \in SUBSET live /\ root' = root
    BY <2>2 DEF Closed, config
  <2>5. /\ Named'
        /\ \A x \in live' : type'[x] = "NONE" =>
             (x \in live /\ type[x] = "NONE") \/ (x = c /\ tok.type = "NONE")
    BY <1>1, <1>2, <2>2, <2>3, <2>4, CreatedNamed
  <2> QED
    BY <1>1, <2>3, <2>5 DEF ScalarTypes
<1>5. CASE ~(InArray \/ InList)
  <2>1. Waiting /\ ctxSetting \in live /\ type[ctxSetting] = "NONE" /\ kids[ctxSetting] = <<>>
    BY <1>2, <1>3, <1>5, WaitingIsWaiting DEF Aggregates
  <2>2. PICK r \in Stored(tok.type, type[ctxSetting], tok.value, "AUTOCONVERT" \in opts) :
          /\ type' = [type EXCEPT ![ctxSetting] = r[1]]
          /\ UNCHANGED <<live, name, kids>>
    <3>1. Stored(tok.type, type[ctxSetting], tok.value, "AUTOCONVERT" \in opts) # {}
      BY <2>1 DEF Stored, SetInt, SetInt64, SetFloat, SetBool, SetString, ScalarTypes
    <3> QED
      BY <1>5, <3>1, Zenon DEF StoreValue, AssignValue
  <2>3. r[1] # "NONE"
    BY <2>1, <2>2 DEF Stored, SetInt, SetInt64, SetFloat, SetBool, SetString, ScalarTypes
  <2>4. /\ Named'
        /\ \A x \in live' : type'[x] = "NONE" => x \in live \ {ctxSetting} /\ type[x] = "NONE"
    BY <1>1, <2>1, <2>2, <2>3, TypedNamed
  <2> QED
    BY <1>1, <2>4
<1> QED
  BY <1>4, <1>5

LEMMA ParseNameSettles ==
  ASSUME ParseInv, ParseInv', Settled, NEW tok \in NextTokens, ParseName(tok),
         phase' = "reading"
  PROVE  Settled'
<1>1. /\ TypeOK /\ TreeOK /\ IInv /\ (TypeOK /\ TreeOK)' /\ Named /\ phase = "reading" /\ InputOK
      /\ \A x \in live : type[x] = "NONE" => IsWaiting /\ x = ctxSetting
  BY TreeFacts, PTL DEF ParseInv, Settled, ParseName, Shift
<1>2. /\ ok' /\ ctxSetting' = Last(kids'[ctxParent]) /\ expect' = "equals"
      /\ ConfigSettingAdd(ctxParent, tok.name, "NONE")
  BY DEF ParseName, Return
<1>3. tok.name \in Names /\ ~IsWaiting
  BY <1>1, TokensRead DEF ParseName, IsToken, Sign, Allowed, StartsValue, SettingExpected, IsWaiting
<1>4. ctxParent \in live /\ type[ctxParent] = Enclosing /\ Enclosing = "GROUP"
  BY <1>1, ParentIs
     DEF ParseName, Allowed, StartsValue, SettingExpected, ParseInv, StackOK
<1>5. MayAdd(ctxParent, tok.name, "NONE")
  BY <1>2 DEF ConfigSettingAdd, Refuse, Answer
<1>6. PICK dead \in SUBSET live, ks \in Seq(Settings) : \E c \in Settings \ (live \ dead) :
           /\ Reshape(dead, ctxParent, Append(ks, c), {c}, GivenName(ctxParent, tok.name), "NONE",
                      ZeroOf("NONE"), "DEFAULT")
           /\ UNCHANGED config
           /\ Closed(dead) /\ root \notin dead /\ ctxParent \in live \ dead
           /\ kids'[ctxParent] # <<>> /\ Last(kids'[ctxParent]) = c
  BY <1>1, <1>2, <1>4, <1>5, AddReshapes
<1>7. PICK c \in Settings \ (live \ dead) :
           /\ Reshape(dead, ctxParent, Append(ks, c), {c}, GivenName(ctxParent, tok.name), "NONE",
                      ZeroOf("NONE"), "DEFAULT")
           /\ UNCHANGED config
           /\ Last(kids'[ctxParent]) = c
  BY <1>6
<1>8. GivenName(ctxParent, tok.name) \in Names /\ root' = root
  BY <1>3, <1>4, <1>7 DEF GivenName, config
<1>9. /\ Named'
      /\ \A x \in live' : type'[x] = "NONE" =>
           (x \in live /\ type[x] = "NONE") \/ (x = c /\ "NONE" = "NONE")
  BY <1>1, <1>6, <1>7, <1>8, CreatedNamed
<1> QED
  BY <1>1, <1>2, <1>3, <1>7, <1>9 DEF Settled, IsWaiting

LEMMA ParseStartSettles ==
  ASSUME ParseInv, ParseInv', Settled, NEW tok \in NextTokens, ParseStart(tok)
  PROVE  Named' /\ \A x \in live' : type'[x] # "NONE"
<1>1. /\ TypeOK /\ TreeOK /\ IInv /\ (TypeOK /\ TreeOK)' /\ Named /\ phase = "reading" /\ InputOK
      /\ \A x \in live : type[x] = "NONE" => IsWaiting /\ x = ctxSetting
  BY TreeFacts, PTL DEF ParseInv, Settled, ParseStart, Shift
<1>2. tok.of \in Aggregates
  BY <1>1, TokensRead DEF ParseStart, IsToken, Sign
<1>3. /\ ctxParent \in live /\ type[ctxParent] = Enclosing /\ (InList <=> Enclosing = "LIST")
      /\ expect \in {"value", "first", "element"} /\ Enclosing # "ARRAY"
      /\ Enclosing \in Aggregates
  <2>1. open # <<>> => Head(open) \in Aggregates
    BY EmptySeq DEF ParseInv, StackOK
  <2> QED
    BY <1>1, <2>1, ParentIs
       DEF ParseStart, Allowed, StartsValue, ValueExpected, Enclosing, Aggregates
<1>4. CASE InList
  <2>1. ~IsWaiting
    BY <1>3, <1>4 DEF IsWaiting, ParseInv, StackOK
  <2>2. ConfigSettingAdd(ctxParent, NULL, tok.of)
    BY <1>4 DEF ParseStart
  <2>3. MayAdd(ctxParent, NULL, tok.of)
    BY <1>2, <1>3, <1>4, ParserAssumption
       DEF MayAdd, Types, GivenName, GetMember, Aggregates
  <2>4. PICK dead \in SUBSET live, ks \in Seq(Settings) : \E c \in Settings \ (live \ dead) :
             /\ Reshape(dead, ctxParent, Append(ks, c), {c}, GivenName(ctxParent, NULL), tok.of,
                        ZeroOf(tok.of), "DEFAULT")
             /\ UNCHANGED config
             /\ Closed(dead) /\ root \notin dead /\ ctxParent \in live \ dead
             /\ kids'[ctxParent] # <<>> /\ Last(kids'[ctxParent]) = c
    BY <1>1, <1>3, <2>2, <2>3, AddReshapes
  <2>5. PICK c \in Settings \ (live \ dead) :
             /\ Reshape(dead, ctxParent, Append(ks, c), {c}, GivenName(ctxParent, NULL), tok.of,
                        ZeroOf(tok.of), "DEFAULT")
             /\ UNCHANGED config
    BY <2>4
  <2>6. root' = root /\ type[ctxParent] # "GROUP"
    BY <1>3, <1>4, <2>5 DEF config
  <2>7. /\ Named'
        /\ \A x \in live' : type'[x] = "NONE" =>
             (x \in live /\ type[x] = "NONE") \/ (x = c /\ tok.of = "NONE")
    BY <1>1, <2>4, <2>5, <2>6, CreatedNamed
  <2> QED
    BY <1>1, <1>2, <2>1, <2>7 DEF Aggregates
<1>5. CASE ~InList
  <2>1. IsWaiting
    BY <1>3, <1>5 DEF IsWaiting, ParseInv, StackOK, Aggregates
  <2>2. ctxSetting \in live /\ kids[ctxSetting] = <<>>
    BY <1>1, <2>1, WaitingIsWaiting
  <2>3. type' = [type EXCEPT ![ctxSetting] = tok.of] /\ UNCHANGED <<live, name, kids>>
    BY <1>5 DEF ParseStart
  <2>4. /\ Named'
        /\ \A x \in live' : type'[x] = "NONE" => x \in live \ {ctxSetting} /\ type[x] = "NONE"
    BY <1>1, <1>2, <2>2, <2>3, TypedNamed DEF Aggregates
  <2> QED
    BY <1>1, <2>4
<1> QED
  BY <1>4, <1>5

(* The other steps leave the settings as they are.                         *)
LEMMA SameSettled ==
  ASSUME Settled, UNCHANGED vars, ctxSetting' = ctxSetting, IsWaiting => IsWaiting' PROVE Settled'
BY DEF Settled, Named, vars

LEMMA ClearedIsRoot == ASSUME TreeInv, ConfigClear PROVE live' = {root'} /\ type'[root'] = "GROUP" /\ kids'[root'] = <<>>
<1>1. /\ root # NULL /\ live \subseteq Settings
      /\ live \ Subtree(root) = {}
  BY TreeFacts DEF ConfigClear, IInv, NothingLeaks, TypeOK
<1>2. PICK r \in Settings :
        Reshape(Subtree(root), NULL, <<>>, {r}, NULL, "GROUP", NULL, "DEFAULT") /\ root' = r
  BY DEF ConfigClear, NewRoot, Rebuild
<1>3. live' = {r} /\ type'[r] = "GROUP" /\ kids'[r] = <<>>
  BY <1>1, <1>2, SettingAssumption DEF Reshape
<1> QED
  BY <1>2, <1>3

LEMMA StartReadSettles ==
  ASSUME ParseInv, NEW w, StartRead(w) PROVE Settled' /\ phase' = "reading"
<1>1. live' = {root'} /\ type'[root'] = "GROUP" /\ kids'[root'] = <<>> /\ phase' = "reading"
  BY ClearedIsRoot DEF ParseInv, StartRead
<1>2. Named'
  <2>1. DOMAIN <<>> = {}
    OBVIOUS
  <2> QED
    BY <1>1, <2>1 DEF Named
<1> QED
  BY <1>1, <1>2 DEF Settled

LEMMA NamesInvKept ==
  ASSUME ParseInv, ParseInv', NamesInv, ParserStep PROVE NamesInv'
<1>1. phase = "reading" /\ Settled
  BY DEF ParserStep, TakeString, ParseName, ParseEquals, ParseStart, ParseEnd, ParseSeparator,
         ParseScalar, ParseString, ParseEof, ParseError, Shift, NamesInv
<1>2. ASSUME Named', \A x \in live' : type'[x] # "NONE" PROVE NamesInv'
  BY <1>2 DEF NamesInv, Settled
<1>3. Named /\ (IsWaiting \/ \A x \in live : type[x] # "NONE")
  BY <1>1 DEF Settled
<1>4. CASE TakeString
  <2>1. phase' \in {"reading", "failed"} /\ StoreValue(Quoted(ctxString)) /\ expect = "string"
    BY <1>1, <1>4 DEF TakeString, StoreValue, Return
  <2>2. Quoted(ctxString).type \in ScalarTypes
    BY DEF Quoted, Scalar, ScalarTypes
  <2>3. Enclosing = "GROUP" <=> IsWaiting
    BY <2>1 DEF IsWaiting
  <2>4. phase' = "reading" => Named' /\ \A x \in live' : type'[x] # "NONE"
    BY <1>1, <2>1, <2>2, <2>3, StoredSettles
  <2> QED
    BY <1>2, <2>1, <2>4 DEF NamesInv
<1>5. ASSUME NEW tok \in NextTokens, ParseScalar(tok) PROVE NamesInv'
  <2>1. phase' \in {"reading", "failed"} /\ StoreValue(tok)
    BY <1>1, <1>5 DEF ParseScalar, StoreValue, Return
  <2>2. tok.type \in ScalarTypes
    BY <1>5, TokensRead DEF ParseScalar, IsToken, Sign, ParseInv
  <2>3. Enclosing = "GROUP" <=> IsWaiting
    BY <1>5 DEF ParseScalar, Allowed, StartsValue, ValueExpected, ParseInv, StackOK, IsWaiting
  <2>4. phase' = "reading" => Named' /\ \A x \in live' : type'[x] # "NONE"
    BY <1>1, <2>1, <2>2, <2>3, StoredSettles
  <2> QED
    BY <1>2, <2>1, <2>4 DEF NamesInv
<1>6. ASSUME NEW tok \in NextTokens, ParseName(tok) PROVE NamesInv'
  <2>1. phase' \in {"reading", "failed"}
    BY <1>1, <1>6 DEF ParseName, Return
  <2> QED
    BY <1>1, <1>6, <2>1, ParseNameSettles DEF NamesInv
<1>7. ASSUME NEW tok \in NextTokens, ParseStart(tok) PROVE NamesInv'
  BY <1>1, <1>2, <1>7, ParseStartSettles
<1>8. ASSUME NEW tok \in NextTokens, ParseEquals(tok) \/ ParseString(tok) PROVE NamesInv'
  <2>1. UNCHANGED vars /\ ctxSetting' = ctxSetting /\ phase' = "reading" /\ open' = open
    BY <1>1, <1>8 DEF ParseEquals, ParseString, context
  <2>2. IsWaiting => IsWaiting'
    <3>1. CASE ParseEquals(tok)
      BY <3>1 DEF ParseEquals, IsWaiting
    <3>2. CASE ParseString(tok)
      <4>1. expect \in {"value", "string"} => Enclosing = "GROUP" \/ ~IsWaiting
        BY DEF IsWaiting, ParseInv, StackOK
      <4>2. expect # "equals" /\ expect' = "string" /\ Enclosing' = Enclosing
        BY <2>1, <3>2 DEF ParseString, Allowed, StartsValue, ValueExpected, Enclosing
      <4> QED
        BY <4>1, <4>2 DEF IsWaiting
    <3> QED
      BY <1>8, <3>1, <3>2
  <2> QED
    BY <1>1, <2>1, <2>2, SameSettled DEF NamesInv
<1>9. ASSUME NEW tok \in NextTokens, ParseEnd(tok) \/ ParseSeparator(tok) \/ ParseEof(tok)
      PROVE  NamesInv'
  <2>1. ~IsWaiting
    BY <1>9 DEF ParseEnd, ParseSeparator, ParseEof, Allowed, StartsValue, SettingExpected, IsWaiting
  <2>2. UNCHANGED vars
    BY <1>9 DEF ParseEnd, ParseSeparator, ParseEof
  <2>3. Named' /\ \A x \in live' : type'[x] # "NONE"
    BY <1>3, <2>1, <2>2 DEF Named, vars
  <2> QED
    BY <1>2, <2>3
<1>10. ASSUME NEW tok \in NextTokens, ParseError(tok) PROVE NamesInv'
  BY <1>10 DEF ParseError, Return, NamesInv
<1> QED
  BY <1>4, <1>5, <1>6, <1>7, <1>8, <1>9, <1>10 DEF ParserStep

(* A text that the program has written is a sequence of tokens.            *)
Begins == \E w \in Seq(Vocabulary) \cup {NULL} : StartRead(w)

LEMMA ReadBegins ==
  ASSUME ParseInv, NamesInv, StartRead(NULL) \/ ReadAgain PROVE Begins
<1>1. CASE StartRead(NULL)
  BY <1>1 DEF Begins
<1>2. CASE ReadAgain
  <2>1. PICK semicolons \in BOOLEAN : StartRead(ConfigWrite(semicolons))
    BY <1>2 DEF ReadAgain
  <2>2. IInv /\ ValuesFit /\ Named /\ root \in live
    <3>1. root # NULL
      BY <2>1 DEF StartRead, ConfigClear
    <3> QED
      BY <1>2, <3>1, TreeFacts DEF ParseInv, NamesInv, ReadAgain, IInv, TypeOK
  <2>3. PICK F \in [Settings -> Seq(Vocabulary)] : \A x \in live : IsTextOf(x, F, semicolons)
    BY <2>2, TextsExist
  <2>4. ConfigWrite(semicolons) \in Seq(Vocabulary)
    BY <2>2, <2>3, WrittenWhole
  <2> QED
    BY <2>1, <2>4 DEF Begins
<1> QED
  BY <1>1, <1>2

-----------------------------------------------------------------------------
(* What holds in every state.                                              *)

ParserInv == ParseInv /\ NamesInv

LEMMA ParserNextIs ==
  ASSUME ParserInv, [ParserNext]_parserVars
  PROVE  Begins \/ ChangeOptions \/ ParserStep \/ UNCHANGED parserVars
BY ReadBegins DEF ParserNext, ParserInv

LEMMA ParserStepKeeps == ASSUME ParserInv, [ParserNext]_parserVars PROVE ParserInv'
<1> USE DEF ParserInv
<1>1. CASE Begins
  <2>1. PICK w \in Seq(Vocabulary) \cup {NULL} : StartRead(w)
    BY <1>1 DEF Begins
  <2> QED
    BY <2>1, StartReadKeeps, StartReadSettles DEF NamesInv
<1>2. CASE ChangeOptions
  <2>1. NamesInv'
    BY <1>2 DEF ChangeOptions, NamesInv
  <2> QED
    BY <1>2, <2>1, ChangeOptionsKeeps
<1>3. CASE ParserStep
  <2>1. ASSUME NEW tok \in NextTokens,
               \/ ParseName(tok) \/ ParseEquals(tok) \/ ParseStart(tok) \/ ParseEnd(tok)
               \/ ParseSeparator(tok) \/ ParseScalar(tok) \/ ParseString(tok)
               \/ ParseEof(tok) \/ ParseError(tok)
        PROVE  ParseInv'
    BY <2>1, ParseNameKeeps, ParseEqualsKeeps, ParseStartKeeps, ParseEndKeeps,
       ParseSeparatorKeeps, ParseScalarKeeps, ParseStringKeeps, ParseEofKeeps,
       ParseErrorKeeps
  <2>2. ParseInv'
    BY <1>3, <2>1, TakeStringKeeps DEF ParserStep
  <2> QED
    BY <1>3, <2>2, NamesInvKept
<1>4. CASE UNCHANGED parserVars
  <2>1. ParseInv'
    BY <1>4, ParserStutters
  <2>2. NamesInv'
    <3>1. /\ UNCHANGED vars /\ ctxSetting' = ctxSetting /\ phase' = phase
          /\ expect' = expect /\ open' = open
      BY <1>4 DEF parserVars, context, stack
    <3>2. IsWaiting' <=> IsWaiting
      BY <3>1 DEF IsWaiting, Enclosing
    <3> QED
      BY <3>1, <3>2 DEF NamesInv, Settled, Named, vars
  <2> QED
    BY <2>1, <2>2
<1> QED
  BY <1>1, <1>2, <1>3, <1>4, ParserNextIs

LEMMA ParserStarts == ParserInit => ParserInv
<1> SUFFICES ASSUME ParserInit PROVE ParserInv
  OBVIOUS
<1>1. IInv
  BY InitEstablishes DEF ParserInit
<1>2. ShapeOK /\ ArraysAreHomogeneous /\ ValuesFit
  BY DEF ParserInit, Init, ShapeOK, ArraysAreHomogeneous, ValuesFit, ValuesOf
<1>3. InputOK /\ StackOK /\ phase = "idle"
  BY DEF ParserInit, InputOK, StackOK, Enclosing
<1> QED
  BY <1>1, <1>2, <1>3 DEF ParserInv, NamesInv, ParseInv, TreeInv, ArrayInv, ShapeInv

LEMMA ParserInvariance == ParserSpec => []ParserInv
<1>1. ParserInv /\ [ParserNext]_parserVars => ParserInv'
  BY ParserStepKeeps
<1> QED
  BY <1>1, ParserStarts, PTL DEF ParserSpec

(* Wherever a text of any length stops to be legal, and after every token  *)
(* of it, what was built is a tree in which the program may go on, and the *)
(* parser, which finds its way back by the parent pointers alone, is in    *)
(* the aggregate whose bracket is open.                                    *)
THEOREM TreeIsLegalAlways == ParserSpec => []PartialTreeIsLegal
<1>1. ParserInv => PartialTreeIsLegal
  <2> SUFFICES ASSUME ParseInv PROVE PartialTreeIsLegal
    BY DEF ParserInv
  <2>1. /\ TreeOK /\ NothingLeaks /\ ShapeOK /\ ValuesFit /\ ArraysAreHomogeneous
        /\ phase # "reading" => ctxString = NULL
    BY DEF ParseInv, TreeInv, ArrayInv, ShapeInv, IInv, InputOK
  <2>2. ASSUME phase = "reading" PROVE ParentIsOpen
    <3>1. \E up \in [1 .. Len(open) + 1 -> live] : LeadsToRoot(up)
      BY <2>2, Zenon DEF ParseInv, Located, Up, WayUp, LeadsToRoot
    <3> QED
      BY <2>2, <3>1 DEF ParentIsOpen, ParseInv, Located, Waiting
  <2> QED
    BY <2>1, <2>2 DEF PartialTreeIsLegal, ParentIsOpen
<1> QED
  BY <1>1, ParserInvariance, PTL

-----------------------------------------------------------------------------
(* The grammar.                                                            *)

LEMMA PlainTokenFacts ==
  ASSUME InputOK, StackOK, phase = "reading", NEW tok \in NextTokens
  PROVE  /\ PlainToken(tok) \in PlainTokens
         /\ PlainToken(tok).kind = tok.kind
         /\ tok.kind \in {"START", "END"} => PlainToken(tok).of = tok.of
         /\ Allowed(PlainToken(tok)) <=> Allowed(tok)
         /\ PlainToken(look) \in {NoToken, PlainToken(tok)}
         /\ PlainToken(NULL) = NoToken
<1>1. /\ IsToken(tok) \/ tok = Sign("EOF")
      /\ tok # NULL /\ (look # NULL => tok = look)
  BY TokensRead
<1>2. \/ tok.kind \in {"EQUALS", "COMMA", "SEMICOLON", "GARBAGE", "NAME", "SCALAR",
                       "STRING", "EOF"}
      \/ tok.kind \in {"START", "END"} /\ tok.of \in Brackets
  BY <1>1 DEF IsToken, Sign, Brackets, Aggregates
<1>3. PlainToken(tok) = IF tok.kind \in {"START", "END"}
                        THEN [kind |-> tok.kind, of |-> tok.of]
                        ELSE [kind |-> tok.kind]
  BY <1>1 DEF PlainToken
<1>4. /\ PlainToken(tok).kind = tok.kind
      /\ tok.kind \in {"START", "END"} => PlainToken(tok).of = tok.of
  BY <1>3
<1>5. PlainToken(tok) \in PlainTokens
  BY <1>2, <1>3 DEF PlainTokens, Start, End, Sign
<1>6. Allowed(PlainToken(tok)) <=> Allowed(tok)
  BY <1>4 DEF Allowed, StartsValue
<1>7. PlainToken(NULL) = NoToken
  BY DEF PlainToken, NoToken, Sign
<1>8. PlainToken(look) \in {NoToken, PlainToken(tok)}
  BY <1>1, <1>7
<1> QED
  BY <1>4, <1>5, <1>6, <1>7, <1>8

(* A token that is shifted is one the grammar takes.                       *)
LEMMA Takes ==
  ASSUME InputOK, StackOK, NEW tok \in NextTokens, Shift(tok), Allowed(tok),
         tok.kind # "EOF", phase' = phase,
         open' = OpenAfter(tok), expect' = ExpectAfter(tok)
  PROVE  GrammarNext
<1> DEFINE plain == PlainToken(tok)
<1>1. /\ plain \in PlainTokens /\ plain.kind = tok.kind
      /\ tok.kind \in {"START", "END"} => plain.of = tok.of
      /\ Allowed(plain)
      /\ PlainToken(look) \in {NoToken, plain}
      /\ PlainToken(look') = NoToken
  BY PlainTokenFacts DEF Shift
<1> HIDE DEF plain
<1>2. OpenAfter(plain) = OpenAfter(tok) /\ ExpectAfter(plain) = ExpectAfter(tok)
  BY <1>1 DEF OpenAfter, ExpectAfter
<1>3. Take(plain)
  BY <1>1, <1>2 DEF Take, Shift
<1> QED
  BY <1>1, <1>3 DEF GrammarNext

LEMMA EnclosingAfterEnd ==
  ASSUME open \in Seq(Aggregates), open # <<>>, open' = Tail(open)
  PROVE  Enclosing' = IF Len(open) = 1 THEN "GROUP" ELSE open[2]
<1>1. Len(open) \in Nat \ {0} /\ DOMAIN open = 1 .. Len(open)
  BY EmptySeq, LenProperties
<1>2. /\ Tail(open) \in Seq(Aggregates) /\ Len(Tail(open)) = Len(open) - 1
      /\ \A i \in 1 .. Len(open) - 1 : Tail(open)[i] = open[i + 1]
  BY <1>1
<1>3. Tail(open) = <<>> <=> Len(open) = 1
  <2> DEFINE rest == Tail(open)
  <2>1. rest \in Seq(Aggregates) /\ Len(rest) = Len(open) - 1
    BY <1>2
  <2> HIDE DEF rest
  <2>2. rest = <<>> <=> Len(rest) = 0
    BY <2>1, EmptySeq
  <2> QED
    BY <1>1, <2>1, <2>2 DEF rest
<1>4. ASSUME Len(open) # 1 PROVE Head(Tail(open)) = open[2]
  <2>1. 1 \in 1 .. Len(open) - 1 /\ 1 + 1 = 2
    BY <1>1, <1>4
  <2>2. Tail(open)[1] = open[2]
    BY <1>2, <2>1
  <2> QED
    BY <1>2, <1>3, <1>4, <2>2
<1> QED
  BY <1>3, <1>4 DEF Enclosing

LEMMA ShiftFollows ==
  ASSUME ParseInv, NEW tok \in NextTokens,
         \/ ParseName(tok) \/ ParseEquals(tok) \/ ParseStart(tok) \/ ParseEnd(tok)
         \/ ParseSeparator(tok) \/ ParseScalar(tok) \/ ParseString(tok)
  PROVE  GrammarNext
<1>1. /\ InputOK /\ StackOK /\ Shift(tok) /\ Allowed(tok) /\ phase = "reading"
  BY DEF ParseInv, ParseName, ParseEquals, ParseStart, ParseEnd, ParseSeparator,
         ParseScalar, ParseString, Shift
<1>2. CASE phase' = "failed"
  BY <1>1, <1>2 DEF GrammarNext, GiveUp
<1>3. CASE ParseName(tok) /\ phase' # "failed"
  BY <1>1, <1>3, Takes DEF ParseName, Return, OpenAfter, ExpectAfter
<1>4. CASE ParseEquals(tok)
  BY <1>1, <1>4, Takes DEF ParseEquals, OpenAfter, ExpectAfter
<1>5. CASE ParseStart(tok)
  BY <1>1, <1>5, Takes DEF ParseStart, OpenAfter, ExpectAfter
<1>6. CASE ParseEnd(tok)
  <2>1. open # <<>> /\ open \in Seq(Aggregates)
    BY <1>1, <1>6 DEF ParseEnd, Allowed, StartsValue, StackOK
  <2>2. Enclosing' = IF Len(open) = 1 THEN "GROUP" ELSE open[2]
    BY <1>6, <2>1, EnclosingAfterEnd DEF ParseEnd
  <2> QED
    BY <1>1, <1>6, <2>2, Takes DEF ParseEnd, OpenAfter, ExpectAfter
<1>7. CASE ParseSeparator(tok)
  <2>1. expect \in {"terminator", "comma", "element"}
    BY <1>7 DEF ParseSeparator, Allowed, StartsValue
  <2>2. ExpectAfter(tok) = IF expect = "terminator" THEN "setting" ELSE "element"
    BY <1>1, <1>7, <2>1 DEF ParseSeparator, ExpectAfter, StackOK
  <2> QED
    BY <1>1, <1>7, <2>2, Takes DEF ParseSeparator, OpenAfter
<1>8. CASE ParseScalar(tok) /\ phase' # "failed"
  <2>1. expect' = AfterValue(Enclosing) /\ open' = open /\ phase' = phase
    BY <1>8 DEF ParseScalar, StoreValue, Return
  <2> QED
    BY <1>1, <1>8, <2>1, Takes DEF ParseScalar, OpenAfter, ExpectAfter
<1>9. CASE ParseString(tok)
  BY <1>1, <1>9, Takes DEF ParseString, OpenAfter, ExpectAfter
<1> QED
  BY <1>2, <1>3, <1>4, <1>5, <1>6, <1>7, <1>8, <1>9

LEMMA EndFollows ==
  ASSUME ParseInv, NEW tok \in NextTokens, ParseEof(tok) \/ ParseError(tok)
  PROVE  GrammarNext
<1>1. InputOK /\ StackOK /\ phase = "reading"
  BY DEF ParseInv, ParseEof, ParseError, Shift
<1>2. /\ PlainToken(tok) \in PlainTokens
      /\ PlainToken(tok).kind = tok.kind
      /\ Allowed(PlainToken(tok)) <=> Allowed(tok)
      /\ PlainToken(look) \in {NoToken, PlainToken(tok)}
  BY <1>1, PlainTokenFacts
<1>3. CASE ParseEof(tok)
  <2>1. Take(PlainToken(tok))
    BY <1>1, <1>2, <1>3 DEF ParseEof, Return, Take
  <2> QED
    BY <1>2, <2>1 DEF GrammarNext
<1>4. CASE ParseError(tok)
  <2>1. RefuseText(PlainToken(tok))
    BY <1>1, <1>2, <1>4 DEF ParseError, Return, RefuseText
  <2> QED
    BY <1>2, <2>1 DEF GrammarNext
<1> QED
  BY <1>3, <1>4

LEMMA TakeStringFollows == ASSUME ParseInv, TakeString PROVE GrammarNext
<1>1. InputOK /\ StackOK /\ phase = "reading" /\ expect = "string" /\ look = NULL
  BY DEF ParseInv, TakeString
<1>2. PICK tok \in NextTokens : tok.kind # "STRING" /\ look' = tok
  BY DEF TakeString
<1>3. /\ PlainToken(tok) \in PlainTokens
      /\ PlainToken(tok).kind = tok.kind
      /\ PlainToken(look) = NoToken
  BY <1>1, PlainTokenFacts
<1>4. CASE phase' = "failed"
  BY <1>1, <1>4 DEF GrammarNext, GiveUp
<1>5. CASE phase' # "failed"
  <2>1. expect' = AfterValue(Enclosing) /\ open' = open /\ phase' = phase
    BY <1>5 DEF TakeString, StoreValue, Return
  <2>2. EndString(PlainToken(tok))
    BY <1>1, <1>2, <1>3, <2>1 DEF EndString
  <2> QED
    BY <1>3, <2>2 DEF GrammarNext
<1> QED
  BY <1>4, <1>5

(* The code of the rules takes, refuses and reads ahead as the grammar     *)
(* promises of any parser for it, whatever the text: in every bracket, and *)
(* with a string that only the token behind it ends.                       *)
THEOREM ParserIsForTheGrammar == ParserSpec => FollowsTheGrammar
<1>1. ParserInit => GrammarInit
  BY DEF ParserInit, GrammarInit
<1>2. ParserInv /\ [ParserNext]_parserVars => [GrammarNext]_grammarVars
  <2> SUFFICES ASSUME ParserInv, [ParserNext]_parserVars PROVE [GrammarNext]_grammarVars
    OBVIOUS
  <2> ParseInv
    BY DEF ParserInv
  <2>1. CASE Begins
    <3>1. PlainToken(look') = NoToken
      BY <2>1 DEF Begins, StartRead, PlainToken, NoToken, Sign
    <3>2. Begin
      BY <2>1, <3>1 DEF Begins, StartRead, Begin
    <3> QED
      BY <3>2 DEF GrammarNext
  <2>2. CASE ChangeOptions
    BY <2>2 DEF ChangeOptions, Aside, GrammarNext
  <2>3. CASE ParserStep
    BY <2>3, ShiftFollows, EndFollows, TakeStringFollows DEF ParserStep
  <2>4. CASE UNCHANGED parserVars
    BY <2>4 DEF parserVars, stack, input, grammarVars
  <2> QED
    BY <2>1, <2>2, <2>3, <2>4, ParserNextIs
<1> QED
  BY <1>1, <1>2, ParserInvariance, PTL DEF ParserSpec, FollowsTheGrammar, GrammarSpec

-----------------------------------------------------------------------------
(* Lines.                                                                  *)

(* What the scanner has gone past.                                         *)
Seen == IF look = NULL THEN text ELSE Append(text, look)

LineInv == text \in Seq(Vocabulary) /\ LinesAreTheirOwn

(* A step reads on: what was seen stays at its place.                      *)
ReadsOn ==
  /\ text' \in Seq(Vocabulary)
  /\ \A i \in DOMAIN Seen : i \in DOMAIN Seen' /\ Seen'[i] = Seen[i]

LEMMA AppendKeeps ==
  ASSUME NEW S, NEW s \in Seq(S), NEW e \in S
  PROVE  /\ Append(s, e) \in Seq(S)
         /\ \A i \in DOMAIN s : i \in DOMAIN Append(s, e) /\ Append(s, e)[i] = s[i]
         /\ Len(s) + 1 \in DOMAIN Append(s, e) /\ Append(s, e)[Len(s) + 1] = e
<1>1. /\ Len(s) \in Nat /\ DOMAIN s = 1 .. Len(s)
      /\ Append(s, e) \in Seq(S) /\ Len(Append(s, e)) = Len(s) + 1
      /\ \A i \in 1 .. Len(s) : Append(s, e)[i] = s[i]
      /\ Append(s, e)[Len(s) + 1] = e
  BY AppendProperties, LenProperties
<1>2. DOMAIN Append(s, e) = 1 .. Len(s) + 1
  BY <1>1, LenProperties
<1> QED
  BY <1>1, <1>2

LEMMA ShiftReadsOn ==
  ASSUME InputOK, text \in Seq(Vocabulary), NEW tok \in NextTokens, Shift(tok)
  PROVE  ReadsOn /\ Here \in DOMAIN Seen' /\ Seen'[Here] = tok
<1>1. tok \in Vocabulary /\ (look # NULL => tok = look)
  BY TokensRead 
<1>2. text' = Append(text, tok) /\ Seen' = text'
  BY DEF Shift, Seen
<1>3. /\ Append(text, tok) \in Seq(Vocabulary)
      /\ \A i \in DOMAIN text : i \in DOMAIN Append(text, tok) /\ Append(text, tok)[i] = text[i]
      /\ Len(text) + 1 \in DOMAIN Append(text, tok) /\ Append(text, tok)[Len(text) + 1] = tok
  BY <1>1, AppendKeeps
<1>4. Seen = text \/ Seen = Append(text, tok)
  BY <1>1 DEF Seen
<1> QED
  BY <1>2, <1>3, <1>4 DEF ReadsOn, Here

LEMMA TakeStringReadsOn ==
  ASSUME InputOK, text \in Seq(Vocabulary), TakeString PROVE ReadsOn
<1>1. PICK tok \in NextTokens : look' = tok
  BY DEF TakeString
<1>2. look = NULL /\ text' = text /\ tok # NULL /\ tok \in Vocabulary
  BY <1>1, TokensRead DEF TakeString
<1>3. Seen = text /\ Seen' = Append(text, tok)
  BY <1>1, <1>2 DEF Seen
<1>4. \A i \in DOMAIN text : i \in DOMAIN Append(text, tok) /\ Append(text, tok)[i] = text[i]
  BY <1>2, AppendKeeps
<1> QED
  BY <1>2, <1>3, <1>4 DEF ReadsOn

(* The setting is as it was: as far as its own token tells, which for a    *)
(* setting with a name does not depend on its type.                        *)
AsBefore(s) ==
  /\ s \in live \ {root}
  /\ name'[s] = name[s] /\ place'[s] = place[s]
  /\ type[s] # "STRING" /\ (type'[s] = type[s] \/ name[s] # NULL)

LEMMA LinesKept ==
  ASSUME LineInv, ReadsOn,
         \A s \in live' \ {root'} : type'[s] = "STRING" \/ AsBefore(s) \/ OwnToken(s)'
  PROVE  LineInv'
<1> SUFFICES ASSUME NEW s \in live' \ {root'}, type'[s] # "STRING", AsBefore(s)
             PROVE  OwnToken(s)'
  BY DEF LineInv, LinesAreTheirOwn, ReadsOn
<1>1. OwnToken(s)
  BY DEF LineInv, LinesAreTheirOwn, AsBefore
<1> DEFINE old == Seen[place[s]]
<1>2. /\ place[s] \in DOMAIN Seen
      /\ IF name[s] # NULL THEN old = Name(name[s])
         ELSE IF type[s] \in Aggregates THEN old = Start(type[s])
         ELSE old.kind \in {"SCALAR", "STRING"} /\ old.type = type[s]
  BY <1>1 DEF OwnToken, Seen
<1>3. place'[s] = place[s] /\ place[s] \in DOMAIN Seen' /\ Seen'[place[s]] = old
  BY <1>2 DEF AsBefore, ReadsOn
<1>4. /\ place'[s] \in DOMAIN Seen' /\ Seen'[place'[s]] = old
      /\ IF name'[s] # NULL THEN old = Name(name'[s])
         ELSE IF type'[s] \in Aggregates THEN old = Start(type'[s])
         ELSE old.kind \in {"SCALAR", "STRING"} /\ old.type = type'[s]
  BY <1>2, <1>3 DEF AsBefore
<1> HIDE DEF old
<1> QED
  BY <1>4 DEF OwnToken, Seen

LEMMA SameLines ==
  ASSUME LineInv, ReadsOn, UNCHANGED <<live, root, name, type>>,
         \A s \in live : place'[s] = place[s]
  PROVE  LineInv'
<1>1. \A s \in live' \ {root'} : type'[s] = "STRING" \/ AsBefore(s)
  BY DEF AsBefore
<1> QED
  BY <1>1, LinesKept

(* A setting that has a name gets its type.                                *)
LEMMA TypedLines ==
  ASSUME LineInv, ReadsOn, TypeOK, UNCHANGED <<live, root, name>>,
         \A s \in live : place'[s] = place[s],
         NEW x \in live, NEW t, name[x] # NULL, type[x] = "NONE",
         type' = [type EXCEPT ![x] = t]
  PROVE  LineInv'
<1>1. \A s \in live' \ {root'} : type'[s] = "STRING" \/ AsBefore(s)
  BY DEF AsBefore, TypeOK
<1> QED
  BY <1>1, LinesKept

(* A setting is created, others may go.                                    *)
LEMMA NewLine ==
  ASSUME LineInv, ReadsOn, IInv, NEW dead \in SUBSET live, NEW c \in Settings \ (live \ dead),
         NEW p, NEW ks, NEW n, NEW t, NEW v, NEW f,
         Reshape(dead, p, ks, {c}, n, t, v, f), UNCHANGED root, Capture({c}),
         NEW tok,
         \/ t = "STRING"
         \/ /\ Here \in DOMAIN Seen' /\ Seen'[Here] = tok
            /\ \/ n # NULL /\ tok = Name(n)
               \/ n = NULL /\ t \in Aggregates /\ tok = Start(t)
               \/ /\ n = NULL /\ t \notin Aggregates
                  /\ tok.kind \in {"SCALAR", "STRING"} /\ tok.type = t
  PROVE  LineInv'
<1>1. /\ live' = (live \ dead) \cup {c} /\ live' \subseteq Settings
      /\ type'[c] = t /\ name'[c] = n /\ place'[c] = Here
  BY DEF Reshape, Capture, IInv, TypeOK
<1>2. \A s \in live \ dead : /\ type'[s] = type[s] /\ name'[s] = name[s]
                             /\ place'[s] = place[s]
  BY <1>1 DEF Reshape, Capture
<1>3. t = "STRING" \/ OwnToken(c)'
  BY <1>1, Zenon DEF OwnToken, Seen
<1>4. \A s \in live' \ {root'} : type'[s] = "STRING" \/ AsBefore(s) \/ OwnToken(s)'
  <2> SUFFICES ASSUME NEW s \in live' \ {root'}
               PROVE  type'[s] = "STRING" \/ AsBefore(s) \/ OwnToken(s)'
    OBVIOUS
  <2>1. CASE s = c
    BY <1>1, <1>3, <2>1
  <2>2. CASE s # c
    BY <1>1, <1>2, <2>2 DEF AsBefore
  <2> QED
    BY <2>1, <2>2
<1> QED
  BY <1>4, LinesKept

LEMMA NothingElseEncloses ==
  ASSUME ParseInv, phase = "reading", ~(InArray \/ InList) PROVE Enclosing = "GROUP"
<1>1. open # <<>> => Head(open) \in Aggregates
  BY EmptySeq DEF ParseInv, StackOK
<1> QED
  BY <1>1, ParentIs DEF Enclosing, Aggregates

LEMMA StoredLines ==
  ASSUME ParseInv, LineInv, phase = "reading", NEW tok,
         Enclosing = "GROUP" => Waiting, StoreValue(tok), ReadsOn,
         \/ tok.type = "STRING"
         \/ /\ tok.type \in ScalarTypes /\ tok.kind = "SCALAR"
            /\ Here \in DOMAIN Seen' /\ Seen'[Here] = tok
  PROVE  LineInv'
<1>1. TypeOK /\ IInv /\ live \subseteq Settings
  BY TreeFacts DEF ParseInv, TypeOK
<1>2. CASE Refuse
  <2>1. UNCHANGED <<live, root, name, type>>
    BY <1>2 DEF Refuse, Unchanged, fields, config
  <2>2. \A s \in live : place'[s] = place[s]
    BY <1>1, <1>2, <2>1 DEF StoreValue, Capture, Refuse, Answer
  <2> QED
    BY <2>1, <2>2, SameLines
<1>3. CASE (InArray \/ InList) /\ ~Refuse
  <2>1. PICK c \in Settings \ live :
          Reshape({}, ctxParent, Append(kids[ctxParent], c), {c}, NULL,
                  tok.type, tok.value, FormatAfter(tok, "DEFAULT"))
    BY <1>3 DEF StoreValue, AppendValue
  <2>2. UNCHANGED config /\ ok' = TRUE /\ Capture({Last(kids'[ctxParent])})
    BY <1>3 DEF StoreValue, AppendValue, Answer
  <2>3. Last(kids'[ctxParent]) = c
    <3>1. /\ ctxParent \in live /\ kids[ctxParent] \in Seq(Settings)
          /\ kids'[ctxParent] = Append(kids[ctxParent], c)
      BY <1>1, <2>1, ParentIs DEF Reshape, TypeOK
    <3> QED
      BY <3>1, LastOfAppend
  <2>4. {} \in SUBSET live /\ c \in Settings \ (live \ {}) /\ UNCHANGED root
    BY <2>2 DEF config
  <2>5. \/ tok.type = "STRING"
        \/ /\ Here \in DOMAIN Seen' /\ Seen'[Here] = tok
           /\ tok.type \notin Aggregates
           /\ tok.kind \in {"SCALAR", "STRING"}
    BY DEF ScalarTypes, Aggregates
  <2> QED
    BY <1>1, <2>1, <2>2, <2>3, <2>4, <2>5, NewLine
<1>4. CASE ~(InArray \/ InList) /\ ~Refuse
  <2>1. Waiting
    BY <1>4, NothingElseEncloses
  <2>2. PICK r : /\ type' = [type EXCEPT ![ctxSetting] = r[1]]
                 /\ UNCHANGED <<live, name, config>>
    BY <1>4, Zenon DEF StoreValue, AssignValue
  <2>3. Capture({})
    BY <1>4, Zenon DEF StoreValue
  <2>4. \A s \in live : place'[s] = place[s]
    BY <1>1, <2>2, <2>3 DEF Capture
  <2>5. UNCHANGED <<live, root, name>>
    BY <2>2 DEF config
  <2> QED
    BY <1>1, <2>1, <2>2, <2>4, <2>5, TypedLines DEF Waiting
<1> QED
  BY <1>2, <1>3, <1>4

LEMMA ParseNameLines ==
  ASSUME ParseInv, LineInv, NEW tok \in NextTokens, ParseName(tok) PROVE LineInv'
<1>1. /\ IInv /\ InputOK /\ TypeOK /\ phase = "reading" /\ Shift(tok)
      /\ ConfigSettingAdd(ctxParent, tok.name, "NONE")
  BY TreeFacts DEF ParseInv, ParseName, Shift
<1>2. ReadsOn /\ Here \in DOMAIN Seen' /\ Seen'[Here] = tok
  BY <1>1, ShiftReadsOn DEF LineInv
<1>3. tok.name \in Names /\ tok = Name(tok.name) /\ tok.name # NULL
  BY <1>1, TokensRead, ParserAssumption DEF ParseName, IsToken, Sign, Name
<1>4. ctxParent \in live /\ type[ctxParent] = Enclosing
  BY <1>1, ParentIs
<1>5. CASE ~ok'
  <2>1. Refuse
    BY <1>1, <1>5, Zenon DEF ConfigSettingAdd, Answer
  <2>2. UNCHANGED <<live, root, name, type>>
    BY <2>1 DEF Refuse, Unchanged, fields, config
  <2>3. \A s \in live : place'[s] = place[s]
    BY <1>1, <1>5, <2>2 DEF ParseName, Capture, TypeOK
  <2> QED
    BY <1>2, <2>2, <2>3, SameLines
<1>6. CASE ok'
  <2>1. MayAdd(ctxParent, tok.name, "NONE")
    BY <1>1, <1>6 DEF ConfigSettingAdd, Refuse, Answer
  <2>2. Enclosing = "GROUP"
    BY <1>1 DEF ParseName, Allowed, StartsValue, SettingExpected, StackOK, ParseInv
  <2>3. GivenName(ctxParent, tok.name) = tok.name
    BY <1>3, <1>4, <2>2 DEF GivenName
  <2>4. PICK dead \in SUBSET live, ks \in Seq(Settings) : \E c \in Settings \ (live \ dead) :
           /\ Reshape(dead, ctxParent, Append(ks, c), {c}, GivenName(ctxParent, tok.name),
                      "NONE", ZeroOf("NONE"), "DEFAULT")
           /\ UNCHANGED config
           /\ Last(kids'[ctxParent]) = c
    BY <1>1, <1>4, <2>1, AddReshapes
  <2>5. PICK c \in Settings \ (live \ dead) :
           /\ Reshape(dead, ctxParent, Append(ks, c), {c}, GivenName(ctxParent, tok.name),
                      "NONE", ZeroOf("NONE"), "DEFAULT")
           /\ UNCHANGED config
           /\ Last(kids'[ctxParent]) = c
    BY <2>4
  <2>6. Capture({c}) /\ UNCHANGED root
    BY <1>6, <2>5 DEF ParseName, config
  <2> QED
    BY <1>1, <1>2, <1>3, <2>3, <2>5, <2>6, NewLine
<1> QED
  BY <1>5, <1>6

LEMMA ParseStartLines ==
  ASSUME ParseInv, LineInv, NEW tok \in NextTokens, ParseStart(tok) PROVE LineInv'
<1>1. /\ IInv /\ InputOK /\ TypeOK /\ phase = "reading" /\ Shift(tok) /\ Located
  BY TreeFacts DEF ParseInv, ParseStart, Shift
<1>2. ReadsOn /\ Here \in DOMAIN Seen' /\ Seen'[Here] = tok
  BY <1>1, ShiftReadsOn DEF LineInv
<1>3. tok.of \in Aggregates /\ tok = Start(tok.of)
  BY <1>1, TokensRead DEF ParseStart, IsToken, Sign, Start
<1>4. ctxParent \in live /\ type[ctxParent] = Enclosing
  BY <1>1, ParentIs
<1>5. CASE InList
  <2>1. ConfigSettingAdd(ctxParent, NULL, tok.of) /\ Capture({Last(kids'[ctxParent])})
    BY <1>5 DEF ParseStart
  <2>2. /\ MayAdd(ctxParent, NULL, tok.of)
        /\ GivenName(ctxParent, NULL) = NULL
    BY <1>1, <1>3, <1>4, <1>5, ParentIs, ParserAssumption
       DEF MayAdd, Types, GivenName, GetMember, Aggregates
  <2>3. PICK dead \in SUBSET live, ks \in Seq(Settings) : \E c \in Settings \ (live \ dead) :
           /\ Reshape(dead, ctxParent, Append(ks, c), {c}, GivenName(ctxParent, NULL),
                      tok.of, ZeroOf(tok.of), "DEFAULT")
           /\ UNCHANGED config
           /\ Last(kids'[ctxParent]) = c
    BY <1>1, <1>4, <2>1, <2>2, AddReshapes
  <2>4. PICK c \in Settings \ (live \ dead) :
           /\ Reshape(dead, ctxParent, Append(ks, c), {c}, GivenName(ctxParent, NULL),
                      tok.of, ZeroOf(tok.of), "DEFAULT")
           /\ UNCHANGED config
           /\ Last(kids'[ctxParent]) = c
    BY <2>3
  <2>5. Capture({c}) /\ UNCHANGED root
    BY <2>1, <2>4 DEF config
  <2> QED
    BY <1>1, <1>2, <1>3, <2>2, <2>4, <2>5, NewLine
<1>6. CASE ~InList
  <2>1. Waiting
    <3>1. Enclosing # "ARRAY" /\ expect \in {"value", "first", "element"}
      BY DEF ParseStart, Allowed, StartsValue, ValueExpected
    <3>2. Enclosing = "GROUP"
      BY <1>1, <1>6, <3>1, NothingElseEncloses, ParentIs
    <3> QED
      BY <1>1, <3>1, <3>2 DEF ParseInv, StackOK, Located
  <2>2. /\ type' = [type EXCEPT ![ctxSetting] = tok.of]
        /\ UNCHANGED <<live, root, name>> /\ UNCHANGED place
    BY <1>6 DEF ParseStart, config
  <2> QED
    BY <1>1, <1>2, <2>1, <2>2, TypedLines DEF Waiting
<1> QED
  BY <1>5, <1>6

LEMMA ParserStepLines == ASSUME ParserInv, LineInv, [ParserNext]_parserVars PROVE LineInv'
<1> ParseInv
  BY DEF ParserInv
<1>1. TypeOK /\ InputOK /\ text \in Seq(Vocabulary)
  BY TreeFacts DEF ParseInv, LineInv
<1>2. CASE Begins
  <2>1. live' = {root'} /\ text' = <<>>
    BY <1>2, ClearedIsRoot DEF Begins, ParseInv, StartRead
  <2> QED
    BY <2>1 DEF LineInv, LinesAreTheirOwn
<1>3. CASE UNCHANGED <<live, root, name, type, place, text, look>>
  BY <1>3 DEF LineInv, LinesAreTheirOwn, OwnToken
<1>4. CASE ChangeOptions
  BY <1>3, <1>4 DEF ChangeOptions, ConfigSetOptions, fields, input
<1>5. CASE UNCHANGED parserVars
  BY <1>3, <1>5 DEF parserVars, vars, input
<1>6. CASE TakeString
  <2>1. ReadsOn /\ phase = "reading" /\ StoreValue(Quoted(ctxString))
    BY <1>1, <1>6, TakeStringReadsOn DEF TakeString
  <2>2. Quoted(ctxString).type = "STRING"
    BY DEF Quoted, Scalar
  <2>3. Enclosing = "GROUP" => Waiting
    BY <1>6 DEF TakeString, ParseInv, Located
  <2> QED
    BY <2>1, <2>2, <2>3, StoredLines
<1>7. ASSUME NEW tok \in NextTokens, ParseScalar(tok) PROVE LineInv'
  <2>1. /\ phase = "reading" /\ Shift(tok) /\ StoreValue(tok)
        /\ tok.kind = "SCALAR" /\ tok.type \in ScalarTypes
    BY <1>1, <1>7, TokensRead DEF ParseScalar, Shift, IsToken, Sign
  <2>2. ReadsOn /\ Here \in DOMAIN Seen' /\ Seen'[Here] = tok
    BY <1>1, <2>1, ShiftReadsOn
  <2>3. Enclosing = "GROUP" => Waiting
    BY <1>7, <2>1 DEF ParseScalar, Allowed, StartsValue, ValueExpected, ParseInv, StackOK, Located
  <2> QED
    BY <2>1, <2>2, <2>3, StoredLines
<1>8. ASSUME NEW tok \in NextTokens,
             \/ ParseEquals(tok) \/ ParseEnd(tok) \/ ParseSeparator(tok)
             \/ ParseString(tok) \/ ParseEof(tok) \/ ParseError(tok)
      PROVE  LineInv'
  <2>1. Shift(tok) /\ UNCHANGED vars /\ UNCHANGED place
    BY <1>8 DEF ParseEquals, ParseEnd, ParseSeparator, ParseString, ParseEof, ParseError
  <2>2. ReadsOn
    BY <1>1, <2>1, ShiftReadsOn
  <2> QED
    BY <2>1, <2>2, SameLines DEF vars
<1> QED
  BY <1>2, <1>4, <1>5, <1>6, <1>7, <1>8, ParseNameLines, ParseStartLines,
     ParserNextIs
     DEF ParserStep

(* Whatever text is read, and wherever it stops: the line of every setting,*)
(* but of a string, is where its own token is.                             *)
THEOREM SettingsKnowTheirLines == ParserSpec => []LinesAreTheirOwn
<1>1. ParserInit => LineInv
  <2> SUFFICES ASSUME ParserInit PROVE LineInv
    OBVIOUS
  <2>1. live = {root} /\ text = <<>>
    BY DEF ParserInit, Init
  <2> QED
    BY <2>1 DEF LineInv, LinesAreTheirOwn
<1>2. ParserInv /\ LineInv /\ [ParserNext]_parserVars => LineInv'
  BY ParserStepLines
<1>3. LineInv => LinesAreTheirOwn
  BY DEF LineInv
<1> QED
  BY <1>1, <1>2, <1>3, ParserInvariance, PTL DEF ParserSpec

-----------------------------------------------------------------------------

-----------------------------------------------------------------------------
(* The essence of a text grows with the text.                              *)

(* A sequence of tokens that ends in a string.                             *)
EndsQuoted(v) == v # <<>> /\ \E s \in Strings : Last(v) = Quoted(s)

LEMMA KindsOfTokens ==
  ASSUME NEW tok \in Vocabulary
  PROVE  /\ tok.kind = "STRING" => tok.value \in Strings /\ tok = Quoted(tok.value)
         /\ tok.kind = "SCALAR" =>
              /\ tok = Scalar(tok.type, tok.value, tok.format)
              /\ [tok EXCEPT !.format = "DEFAULT"] = Scalar(tok.type, tok.value, "DEFAULT")
              /\ tok.format = "OCT" => [tok EXCEPT !.format = "DEFAULT"] \in Vocabulary
<1>1. IsToken(tok) \/ tok = Sign("EOF")
  BY TokensAre DEF Vocabulary
<1>2. tok.kind = "STRING" => tok.value \in Strings /\ tok = Quoted(tok.value)
  BY <1>1 DEF IsToken, Sign
<1>3. ASSUME tok.kind = "SCALAR"
      PROVE  /\ tok = Scalar(tok.type, tok.value, tok.format)
             /\ [tok EXCEPT !.format = "DEFAULT"] = Scalar(tok.type, tok.value, "DEFAULT")
             /\ tok.format = "OCT" => [tok EXCEPT !.format = "DEFAULT"] \in Vocabulary
  <2>1. tok = Scalar(tok.type, tok.value, tok.format)
    BY <1>1, <1>3 DEF IsToken, Sign
  <2>2. [tok EXCEPT !.format = "DEFAULT"] = Scalar(tok.type, tok.value, "DEFAULT")
    BY <2>1 DEF Scalar
  <2>3. ASSUME tok.format = "OCT" PROVE [tok EXCEPT !.format = "DEFAULT"] \in AllTokens
    <3>1. \/ tok \in TokensOf("SCALAR", "INT", Int32, AllFormats)
          \/ tok \in TokensOf("SCALAR", "INT64", Int64, AllFormats)
      BY <1>3, <2>3 DEF Vocabulary, AllTokens, TokensOf, Sign
    <3>2. \/ Scalar(tok.type, tok.value, "DEFAULT") \in TokensOf("SCALAR", "INT", Int32, AllFormats)
          \/ Scalar(tok.type, tok.value, "DEFAULT") \in TokensOf("SCALAR", "INT64", Int64, AllFormats)
      BY <3>1 DEF TokensOf, Scalar, AllFormats
    <3> QED
      BY <2>2, <3>2 DEF AllTokens
  <2> QED
    BY <2>1, <2>2, <2>3 DEF Vocabulary
<1> QED
  BY <1>2, <1>3

LEMMA QuotedIsToken ==
  ASSUME NEW s \in Strings
  PROVE  Quoted(s) \in Vocabulary /\ Quoted(s).kind = "STRING" /\ Quoted(s).value = s
<1>1. Quoted(s) \in TokensOf("STRING", "STRING", Strings, {"DEFAULT"})
  BY DEF TokensOf, Quoted, Scalar
<1>2. Quoted(s) \in Vocabulary
  BY <1>1 DEF Vocabulary, AllTokens
<1>3. Quoted(s).kind = "STRING" /\ Quoted(s).value = s
  BY DEF Quoted, Scalar
<1> QED
  BY <1>2, <1>3

LEMMA FrontAndLast ==
  ASSUME NEW S, NEW v \in Seq(S), v # <<>>
  PROVE  /\ Front(v) \in Seq(S)
         /\ Last(v) \in S
         /\ v = Append(Front(v), Last(v))
<1>1. Len(v) \in Nat \ {0}
  BY EmptySeq
<1>2. Last(v) \in S
  BY <1>1, ElementOfSeq DEF Last
<1>3. PICK s \in Seq(S), e \in S : v = Append(s, e)
  BY SequenceEmptyOrAppend
<1>4. /\ Len(v) = Len(s) + 1 /\ Len(s) \in Nat /\ v[Len(s) + 1] = e
      /\ \A i \in 1 .. Len(s) : v[i] = s[i]
  BY <1>3, AppendProperties, LenProperties
<1>5. Front(v) = s
  <2>1. \A i \in 1 .. Len(s) : v[i] \in S
    BY <1>4, ElementOfSeq
  <2>2. /\ SubSeq(v, 1, Len(s)) \in Seq(S)
        /\ Len(SubSeq(v, 1, Len(s))) = IF 1 <= Len(s) THEN Len(s) - 1 + 1 ELSE 0
        /\ \A i \in 1 .. Len(s) - 1 + 1 : SubSeq(v, 1, Len(s))[i] = v[1 + i - 1]
    BY <1>4, <2>1, SubSeqProperties
  <2> DEFINE u == SubSeq(v, 1, Len(s))
  <2> HIDE DEF u
  <2>3. u \in Seq(S) /\ Len(u) = Len(s)
    BY <1>4, <2>2 DEF u
  <2>4. \A i \in 1 .. Len(s) : u[i] = v[1 + i - 1] /\ 1 + i - 1 = i
    BY <1>4, <2>2 DEF u
  <2>5. \A i \in 1 .. Len(s) : u[i] = s[i]
    BY <1>4, <2>4
  <2>6. u = s
    BY <2>3, <2>5, SeqEqual
  <2>7. Len(v) - 1 = Len(s)
    BY <1>4
  <2> QED
    BY <2>6, <2>7 DEF u, Front
<1>6. Last(v) = e
  BY <1>4 DEF Last
<1> QED
  BY <1>2, <1>3, <1>5, <1>6

LEMMA FrontOfAppend ==
  ASSUME NEW S, NEW v \in Seq(S), NEW e \in S
  PROVE  Front(Append(v, e)) = v /\ Last(Append(v, e)) = e
<1>1. Append(v, e) \in Seq(S) /\ Append(v, e) # <<>>
  BY AppendProperties
<1>2. /\ Front(Append(v, e)) \in Seq(S) /\ Last(Append(v, e)) \in S
      /\ Append(v, e) = Append(Front(Append(v, e)), Last(Append(v, e)))
  BY <1>1, FrontAndLast
<1> QED
  BY <1>2, AppendInjective

LEMMA EssenceStays ==
  ASSUME NEW v \in Seq(Vocabulary), NEW before, NEW tok \in Vocabulary,
         before = "STRING" => EndsQuoted(v)
  PROVE  /\ EssenceWith(v, before, tok) \in Seq(Vocabulary)
         /\ tok.kind = "STRING" => EndsQuoted(EssenceWith(v, before, tok))
<1>1. CASE tok.kind \in {"COMMA", "SEMICOLON", "EOF"}
  BY <1>1 DEF EssenceWith
<1>2. CASE tok.kind = "STRING" /\ before = "STRING"
  <2>1. PICK s \in Strings : Last(v) = Quoted(s)
    BY <1>2 DEF EndsQuoted
  <2>2. Quoted(s).value = s /\ tok.value \in Strings
    BY <1>2, QuotedIsToken, KindsOfTokens
  <2> DEFINE j == Joined[<<s, tok.value>>]
  <2>3. j \in Strings
    BY <2>2, ParserAssumption
  <2>4. EssenceWith(v, before, tok) = Append(Front(v), Quoted(j))
    BY <1>2, <2>1, <2>2 DEF EssenceWith
  <2> HIDE DEF j
  <2>5. Front(v) \in Seq(Vocabulary) /\ Quoted(j) \in Vocabulary
    BY <1>2, <2>3, FrontAndLast, QuotedIsToken DEF EndsQuoted
  <2>6. /\ Append(Front(v), Quoted(j)) \in Seq(Vocabulary)
        /\ Append(Front(v), Quoted(j)) # <<>> /\ Last(Append(Front(v), Quoted(j))) = Quoted(j)
    BY <2>5, LastOfAppend, AppendProperties
  <2> QED
    BY <2>3, <2>4, <2>6 DEF EndsQuoted
<1>3. CASE tok.kind = "STRING" /\ before # "STRING"
  <2>1. EssenceWith(v, before, tok) = Append(v, tok)
    BY <1>3 DEF EssenceWith
  <2>2. Append(v, tok) \in Seq(Vocabulary) /\ Append(v, tok) # <<>> /\ Last(Append(v, tok)) = tok
    BY LastOfAppend, AppendProperties
  <2>3. tok.value \in Strings /\ tok = Quoted(tok.value)
    BY <1>3, KindsOfTokens
  <2> QED
    BY <2>1, <2>2, <2>3 DEF EndsQuoted
<1>4. CASE tok.kind = "SCALAR" /\ tok.format = "OCT"
  BY <1>4, KindsOfTokens, AppendProperties DEF EssenceWith
<1>5. CASE /\ tok.kind \notin {"COMMA", "SEMICOLON", "EOF", "STRING"}
           /\ ~(tok.kind = "SCALAR" /\ tok.format = "OCT")
  BY <1>5, AppendProperties DEF EssenceWith
<1> QED
  BY <1>1, <1>2, <1>3, <1>4, <1>5

EssenceBody(toks, w) ==
  [n \in 0 .. Len(toks) |->
     IF n = 0 THEN <<>> ELSE EssenceWith(w[n - 1], KindOf(toks, n - 1), toks[n])]
EssenceFun(toks) == CHOOSE w : w = EssenceBody(toks, w)

Unfolds(w, toks) ==
  w[0] = <<>> /\ \A n \in 1 .. Len(toks) :
                   w[n] = EssenceWith(w[n - 1], KindOf(toks, n - 1), toks[n])

(* What is defined up to n is a sequence, which ends as the tokens do.     *)
LEMMA EssenceIsTyped ==
  ASSUME NEW toks \in Seq(Vocabulary), NEW w, w[0] = <<>>, NEW P,
         \A n \in 1 .. Len(toks) :
           LET e == EssenceWith(w[n - 1], KindOf(toks, n - 1), toks[n])
           IN w[n] = e \/ (e \notin Seq(Vocabulary) /\ w[n] = P)
  PROVE  /\ Unfolds(w, toks)
         /\ \A n \in 0 .. Len(toks) : w[n] \in Seq(Vocabulary)
<1> DEFINE N == Len(toks)
           Fine(n) == /\ w[n] \in Seq(Vocabulary)
                      /\ KindOf(toks, n) = "STRING" => EndsQuoted(w[n])
           e(n) == EssenceWith(w[n - 1], KindOf(toks, n - 1), toks[n])
           T == {n \in 0 .. N : Fine(n) /\ (n # 0 => w[n] = e(n))}
<1>1. N \in Nat /\ DOMAIN toks = 1 .. N /\ \A n \in 1 .. N : toks[n] \in Vocabulary
  BY LenProperties, ElementOfSeq
<1>2. \A n \in 1 .. N : w[n] = e(n) \/ (e(n) \notin Seq(Vocabulary) /\ w[n] = P)
  OBVIOUS
<1>3. 0 \in T
  <2>1. KindOf(toks, 0) = "NONE" /\ 0 \in 0 .. N
    BY <1>1 DEF KindOf
  <2>2. <<>> \in Seq(Vocabulary)
    OBVIOUS
  <2> QED
    BY <2>1, <2>2
<1>4. ASSUME NEW n \in 1 .. N, n - 1 \in T PROVE n \in T
  <2>1. Fine(n - 1) /\ toks[n] \in Vocabulary /\ n \in 0 .. N /\ KindOf(toks, n) = toks[n].kind
    BY <1>1, <1>4 DEF KindOf
  <2>2. e(n) \in Seq(Vocabulary) /\ (toks[n].kind = "STRING" => EndsQuoted(e(n)))
    BY <2>1, EssenceStays
  <2>3. w[n] = e(n)
    BY <1>2, <2>2
  <2> QED
    BY <2>1, <2>2, <2>3
<1>5. T \in SUBSET (0 .. N)
  OBVIOUS
<1>6. T = 0 .. N
  <2> HIDE DEF T, N
  <2> QED
    BY <1>1, <1>3, <1>4, <1>5, CountedSet
<1>7. \A n \in 0 .. N : w[n] \in Seq(Vocabulary)
  BY <1>6
<1>8. \A n \in 1 .. N : w[n] = e(n)
  <2>1. \A n \in 1 .. N : n \in T /\ n # 0
    BY <1>1, <1>6
  <2> QED
    BY <2>1
<1> QED
  BY <1>7, <1>8 DEF Unfolds

LEMMA EssenceUnfolds ==
  ASSUME NEW toks \in Seq(Vocabulary)
  PROVE  /\ Unfolds(EssenceFun(toks), toks)
         /\ \A n \in 0 .. Len(toks) : EssenceFun(toks)[n] \in Seq(Vocabulary)
         /\ Essence(toks) = EssenceFun(toks)[Len(toks)]
<1> DEFINE N == Len(toks)
           V == Seq(Vocabulary)
           e(n, v) == EssenceWith(v, KindOf(toks, n - 1), toks[n])
           comb == [nv \in (1 .. N) \X V |->
                      IF e(nv[1], nv[2]) \in V THEN e(nv[1], nv[2]) ELSE <<>>]
<1>1. N \in Nat /\ <<>> \in V
  BY LenProperties
<1>2. \A n \in 1 .. N, v \in V : comb[<<n, v>>] = IF e(n, v) \in V THEN e(n, v) ELSE <<>>
  BY Zenon
<1>3. \A n \in 1 .. N, v \in V : comb[<<n, v>>] \in V
  <2> HIDE DEF e, comb
  <2> QED
    BY <1>1, <1>2
<1>4. PICK w \in [0 .. N -> V] : Counts(w, N, <<>>, comb)
  <2> DEFINE nil == <<>>
  <2>1. nil \in V
    BY <1>1
  <2> HIDE DEF comb, V, N, nil
  <2>2. \E w \in [0 .. N -> V] : Counts(w, N, nil, comb)
    BY <1>1, <1>3, <2>1, CountedExists, Zenon
  <2> QED
    BY <2>2 DEF nil
<1>5. w[0] = <<>> /\ \A n \in 1 .. N : w[n] = comb[<<n, w[n - 1]>>] /\ w[n - 1] \in V
  <2>1. \A n \in 1 .. N : n - 1 \in 0 .. N
    BY <1>1
  <2> HIDE DEF comb
  <2> QED
    BY <1>4, <2>1 DEF Counts
<1>6. \A n \in 1 .. N : w[n] = e(n, w[n - 1]) \/ (e(n, w[n - 1]) \notin V /\ w[n] = <<>>)
  <2> HIDE DEF e, comb
  <2> QED
    BY <1>2, <1>5
<1>7. Unfolds(w, toks)
  BY <1>5, <1>6, EssenceIsTyped
<1>8. w = EssenceBody(toks, w)
  <2>1. w = [n \in 0 .. N |-> w[n]]
    BY <1>4
  <2>2. \A n \in 0 .. N : n = 0 \/ n \in 1 .. N
    BY <1>1
  <2>3. \A n \in 0 .. N :
          w[n] = IF n = 0 THEN <<>> ELSE EssenceWith(w[n - 1], KindOf(toks, n - 1), toks[n])
    BY <1>7, <2>2, Zenon DEF Unfolds
  <2> QED
    BY <2>1, <2>3, Zenon DEF EssenceBody
<1> DEFINE h == EssenceFun(toks)
<1>9. h = EssenceBody(toks, h)
  BY <1>8, Zenon DEF EssenceFun
<1> HIDE DEF h
<1>10. Unfolds(h, toks)
  <2>1. \A n \in 0 .. N :
          h[n] = IF n = 0 THEN <<>> ELSE EssenceWith(h[n - 1], KindOf(toks, n - 1), toks[n])
    BY <1>9, Zenon DEF EssenceBody
  <2>2. 0 \in 0 .. N /\ \A n \in 1 .. N : n \in 0 .. N /\ n # 0
    BY <1>1
  <2> QED
    BY <2>1, <2>2, Zenon DEF Unfolds
<1>11. \A n \in 0 .. N : h[n] \in V
  <2>1. h[0] = <<>>
    BY <1>10 DEF Unfolds
  <2>2. \A n \in 1 .. N : h[n] = e(n, h[n - 1]) \/ (e(n, h[n - 1]) \notin V /\ h[n] = <<>>)
    BY <1>10, Zenon DEF Unfolds
  <2> QED
    BY <2>1, <2>2, EssenceIsTyped
<1>12. Essence(toks) = h[N]
  BY Zenon DEF Essence, EssenceFun, EssenceBody, h
<1> QED
  BY <1>10, <1>11, <1>12 DEF h

LEMMA EmptyEssence == Essence(<<>>) = <<>>
<1> DEFINE nil == <<>>
<1>1. nil \in Seq(Vocabulary) /\ Len(nil) = 0
  OBVIOUS
<1> HIDE DEF nil
<1>2. Essence(nil) = EssenceFun(nil)[0] /\ EssenceFun(nil)[0] = <<>>
  BY <1>1, EssenceUnfolds DEF Unfolds
<1> QED
  BY <1>2 DEF nil

LEMMA EssenceIsSeq ==
  ASSUME NEW t \in Seq(Vocabulary) PROVE Essence(t) \in Seq(Vocabulary)
<1>1. Len(t) \in 0 .. Len(t)
  BY LenProperties
<1> QED
  BY <1>1, EssenceUnfolds

EndKind(t) == KindOf(t, Len(t))

(* What one token more does to it.                                         *)
LEMMA EssenceGrows ==
  ASSUME NEW t \in Seq(Vocabulary), NEW tok \in Vocabulary
  PROVE  /\ Essence(Append(t, tok)) = EssenceWith(Essence(t), EndKind(t), tok)
         /\ EndKind(Append(t, tok)) = tok.kind
<1> DEFINE N == Len(t)
           u == Append(t, tok)
           e == EssenceFun(t)
           g == EssenceFun(u)
           T == {n \in 0 .. N : e[n] = g[n]}
<1>1. N \in Nat /\ DOMAIN t = 1 .. N
  BY LenProperties
<1>2. /\ u \in Seq(Vocabulary) /\ Len(u) = N + 1
      /\ u[N + 1] = tok /\ \A n \in 1 .. N : u[n] = t[n]
  BY AppendProperties
<1>3. DOMAIN u = 1 .. N + 1
  BY <1>2, LenProperties
<1> HIDE DEF u, N
<1>4. \A n \in 0 .. N : KindOf(u, n) = KindOf(t, n)
  BY <1>1, <1>2, <1>3 DEF KindOf
<1>5. Unfolds(e, t) /\ Essence(t) = e[N]
  BY EssenceUnfolds DEF N
<1>6. Unfolds(g, u) /\ Essence(u) = g[N + 1]
  BY <1>2, EssenceUnfolds
<1> HIDE DEF e, g
<1>7. 0 \in T
  BY <1>1, <1>5, <1>6 DEF Unfolds
<1>8. ASSUME NEW n \in 1 .. N, n - 1 \in T PROVE n \in T
  <2>1. n \in 1 .. N + 1 /\ n - 1 \in 0 .. N /\ n \in 0 .. N
    BY <1>1
  <2>2. e[n] = EssenceWith(e[n - 1], KindOf(t, n - 1), t[n])
    BY <1>5 DEF Unfolds, N
  <2>3. g[n] = EssenceWith(g[n - 1], KindOf(u, n - 1), u[n])
    BY <1>2, <1>6, <2>1 DEF Unfolds
  <2>4. e[n - 1] = g[n - 1] /\ KindOf(u, n - 1) = KindOf(t, n - 1) /\ u[n] = t[n]
    BY <1>2, <1>4, <1>8, <2>1
  <2> QED
    BY <2>1, <2>2, <2>3, <2>4
<1>9. T = 0 .. N
  <2>1. T \in SUBSET (0 .. N)
    OBVIOUS
  <2> HIDE DEF T
  <2> QED
    BY <1>1, <1>7, <1>8, <2>1, CountedSet
<1>10. N \in 0 .. N /\ N + 1 \in 1 .. N + 1 /\ (N + 1) - 1 = N
  BY <1>1
<1>11. e[N] = g[N] /\ KindOf(u, N) = KindOf(t, N)
  BY <1>4, <1>9, <1>10
<1>12. g[N + 1] = EssenceWith(g[N], KindOf(u, N), tok)
  BY <1>2, <1>6, <1>10 DEF Unfolds
<1>13. KindOf(u, N + 1) = tok.kind
  BY <1>2, <1>3, <1>10 DEF KindOf
<1> QED
  BY <1>2, <1>5, <1>6, <1>11, <1>12, <1>13 DEF EndKind, N, u

-----------------------------------------------------------------------------
(* What is added to a text, and what becomes of its essence.               *)

LEMMA ConcatOne ==
  ASSUME NEW S, NEW v \in Seq(S), NEW e \in S
  PROVE  v \o <<e>> = Append(v, e)
<1> DEFINE l == <<e>>
           u == v \o l
           w == Append(v, e)
           N == Len(v)
<1>1. l \in Seq(S) /\ Len(l) = 1 /\ l[1] = e /\ N \in Nat
  BY LenProperties
<1> HIDE DEF l
<1>2. /\ u \in Seq(S) /\ Len(u) = N + 1
      /\ \A i \in 1 .. N + 1 : u[i] = IF i <= N THEN v[i] ELSE l[i - N]
  BY <1>1, ConcatProperties
<1>3. /\ w \in Seq(S) /\ Len(w) = N + 1
      /\ \A i \in 1 .. N : w[i] = v[i]
      /\ w[N + 1] = e
  BY AppendProperties
<1> HIDE DEF u, w, N
<1>4. ASSUME NEW i \in 1 .. N + 1 PROVE u[i] = w[i]
  <2>1. CASE i = N + 1
    <3>1. ~(i <= N) /\ i - N = 1
      BY <1>1, <2>1
    <3> QED
      BY <1>1, <1>2, <1>3, <2>1, <3>1
  <2>2. CASE i # N + 1
    <3>1. i \in 1 .. N /\ i <= N
      BY <1>1, <2>2
    <3> QED
      BY <1>2, <1>3, <3>1
  <2> QED
    BY <2>1, <2>2
<1>5. u = w
  BY <1>2, <1>3, <1>4, SeqEqual
<1> QED
  BY <1>5 DEF u, w, l

LEMMA ConcatTwo ==
  ASSUME NEW S, NEW v \in Seq(S), NEW d \in S, NEW e \in S
  PROVE  /\ v \o <<d, e>> = (v \o <<d>>) \o <<e>>
         /\ v \o <<d>> \in Seq(S)
<1>1. <<d>> \in Seq(S) /\ <<e>> \in Seq(S)
  OBVIOUS
<1>2. <<d>> \o <<e>> = <<d, e>>
  <2>1. <<d>> \o <<e>> = Append(<<d>>, e)
    BY <1>1, ConcatOne
  <2>2. Append(<<d>>, e) = <<d, e>>
    <3> DEFINE l == <<d>>
               u == Append(l, e)
               w == <<d, e>>
    <3>1. l \in Seq(S) /\ Len(l) = 1 /\ l[1] = d
      OBVIOUS
    <3>2. w \in Seq(S) /\ Len(w) = 2 /\ w[1] = d /\ w[2] = e
      OBVIOUS
    <3> HIDE DEF l, w
    <3>3. u \in Seq(S) /\ Len(u) = Len(l) + 1
      BY <3>1, AppendProperties
    <3>4. u[1] = l[1]
      BY <3>1, AppendProperties
    <3>5. u[Len(l) + 1] = e
      BY <3>1, AppendProperties
    <3> HIDE DEF u
    <3>6. Len(u) = 2 /\ u[1] = d /\ u[2] = e
      BY <3>1, <3>3, <3>4, <3>5
    <3>7. \A i \in 1 .. Len(u) : i = 1 \/ i = 2
      BY <3>6
    <3>8. \A i \in 1 .. Len(u) : u[i] = w[i]
      BY <3>2, <3>6, <3>7
    <3>9. u = w
      BY <3>2, <3>3, <3>6, <3>8, SeqEqual
    <3> QED
      BY <3>9 DEF u, w, l
  <2> QED
    BY <2>1, <2>2
<1> DEFINE l == <<d>>
           r == <<e>>
           m == <<d, e>>
<1>3. l \in Seq(S) /\ r \in Seq(S) /\ Cat(l, r) = m
  BY <1>1, <1>2 DEF Cat
<1> HIDE DEF l, r, m
<1>4. Cat(v, m) = Cat(Cat(v, l), r)
  BY <1>3, CatAssociates
<1>5. Cat(v, l) \in Seq(S)
  BY <1>3, CatIsSeq
<1> QED
  BY <1>4, <1>5 DEF Cat, l, r, m

(* A token that leaves itself in the essence, and one that leaves nothing. *)
Plain(tok) ==
  /\ tok.kind \notin {"COMMA", "SEMICOLON", "EOF", "STRING"}
  /\ tok.kind = "SCALAR" => tok.format # "OCT"
Blank(tok) == tok.kind \in {"COMMA", "SEMICOLON", "EOF"}

LEMMA EssenceOfOne ==
  ASSUME NEW v \in Seq(Vocabulary), NEW tok \in Vocabulary
  PROVE  /\ Cat(v, <<tok>>) \in Seq(Vocabulary)
         /\ Essence(Cat(v, <<tok>>)) = EssenceWith(Essence(v), EndKind(v), tok)
         /\ EndKind(Cat(v, <<tok>>)) = tok.kind
         /\ Plain(tok) => Essence(Cat(v, <<tok>>)) = Append(Essence(v), tok)
         /\ Blank(tok) => Essence(Cat(v, <<tok>>)) = Essence(v)
<1>1. v \o <<tok>> = Append(v, tok)
  BY ConcatOne
<1>2. Append(v, tok) \in Seq(Vocabulary)
  BY AppendProperties
<1>3. /\ Essence(Append(v, tok)) = EssenceWith(Essence(v), EndKind(v), tok)
      /\ EndKind(Append(v, tok)) = tok.kind
  BY EssenceGrows
<1> DEFINE s == Essence(v)
           w == EssenceWith(s, EndKind(v), tok)
<1>4. Plain(tok) => w = Append(s, tok)
  <2> HIDE DEF s
  <2> QED
    BY DEF Plain, EssenceWith
<1>5. Blank(tok) => w = s
  <2> HIDE DEF s
  <2> QED
    BY DEF Blank, EssenceWith
<1> QED
  BY <1>1, <1>2, <1>3, <1>4, <1>5 DEF Cat

LEMMA EssenceOfLead ==
  ASSUME NEW v \in Seq(Vocabulary), NEW t, NEW n, NEW i, t = "GROUP" => n \in Names
  PROVE  /\ Cat(v, Lead(t, n, i)) \in Seq(Vocabulary)
         /\ Essence(Cat(v, Lead(t, n, i)))
              = IF t = "GROUP" THEN Append(Append(Essence(v), Name(n)), Sign("EQUALS"))
                ELSE Essence(v)
         /\ t = "GROUP" \/ i # 1 => EndKind(Cat(v, Lead(t, n, i))) # "STRING"
         /\ t # "GROUP" /\ i = 1 => Cat(v, Lead(t, n, i)) = v
<1>1. CASE t = "GROUP"
  <2> DEFINE u == Cat(v, <<Name(n)>>)
  <2>1. Name(n) \in Vocabulary /\ Sign("EQUALS") \in Vocabulary
    BY <1>1, SignsAreTokens
  <2>2. Plain(Name(n)) /\ Plain(Sign("EQUALS")) /\ Sign("EQUALS").kind # "STRING"
    BY DEF Plain, Name, Sign
  <2>3. u \in Seq(Vocabulary) /\ Essence(u) = Append(Essence(v), Name(n))
    BY <2>1, <2>2, EssenceOfOne
  <2>4. Cat(v, Lead(t, n, i)) = Cat(u, <<Sign("EQUALS")>>)
    BY <1>1, <2>1, ConcatTwo DEF Lead, Cat
  <2> HIDE DEF u
  <2>5. /\ Cat(u, <<Sign("EQUALS")>>) \in Seq(Vocabulary)
        /\ Essence(Cat(u, <<Sign("EQUALS")>>)) = Append(Essence(u), Sign("EQUALS"))
        /\ EndKind(Cat(u, <<Sign("EQUALS")>>)) # "STRING"
    BY <2>1, <2>2, <2>3, EssenceOfOne
  <2> QED
    BY <1>1, <2>3, <2>4, <2>5
<1>2. CASE t # "GROUP" /\ i = 1
  <2>1. Cat(v, Lead(t, n, i)) = v
    BY <1>2, ConcatEmptySeq DEF Lead, Cat
  <2> QED
    BY <1>2, <2>1
<1>3. CASE t # "GROUP" /\ i # 1
  <2>1. Sign("COMMA") \in Vocabulary
    BY SignsAreTokens
  <2>2. Blank(Sign("COMMA")) /\ Sign("COMMA").kind # "STRING"
    BY DEF Blank, Sign
  <2>3. Lead(t, n, i) = <<Sign("COMMA")>>
    BY <1>3 DEF Lead
  <2> QED
    BY <1>3, <2>1, <2>2, <2>3, EssenceOfOne
<1> QED
  BY <1>1, <1>2, <1>3

LEMMA EssenceOfTrail ==
  ASSUME NEW v \in Seq(Vocabulary), NEW t
  PROVE  Cat(v, Trail(t)) \in Seq(Vocabulary) /\ Essence(Cat(v, Trail(t))) = Essence(v)
<1>1. Sign("SEMICOLON") \in Vocabulary /\ Blank(Sign("SEMICOLON"))
  BY SignsAreTokens DEF Blank, Sign
<1>2. CASE t = "GROUP"
  BY <1>1, <1>2, EssenceOfOne DEF Trail
<1>3. CASE t # "GROUP"
  BY <1>3, ConcatEmptySeq DEF Trail, Cat
<1> QED
  BY <1>2, <1>3

AreSeqs(S, u, l, y, e) == u \in Seq(S) /\ l \in Seq(S) /\ y \in Seq(S) /\ e \in Seq(S)

LEMMA ConcatThree ==
  ASSUME NEW S, NEW u, NEW l, NEW y, NEW e, AreSeqs(S, u, l, y, e)
  PROVE  Cat(u, Cat(Cat(l, y), e)) = Cat(Cat(Cat(u, l), y), e)
<1> USE DEF AreSeqs
<1>1. Cat(l, y) \in Seq(S)
  BY CatIsSeq
<1>2. Cat(u, Cat(Cat(l, y), e)) = Cat(Cat(u, Cat(l, y)), e)
  BY <1>1, CatAssociates
<1>3. Cat(u, Cat(l, y)) = Cat(Cat(u, l), y)
  BY CatAssociates
<1> QED
  BY <1>2, <1>3

(* Behind h and the first m settings the next one is a lead, its text and  *)
(* a trail.                                                                *)
IsText(h) == h \in Seq(Vocabulary)

LEMMA ItemAfter ==
  ASSUME NEW h, IsText(h), NEW t, NEW ks, NEW m \in Nat, NEW na, NEW F,
         Writable(t, ks, m + 1, na, F)
  PROVE  /\ Cat(h, Items(t, ks, m, na, F)) \in Seq(Vocabulary)
         /\ Cat(h, Items(t, ks, m + 1, na, F))
              = Cat(Cat(Cat(Cat(h, Items(t, ks, m, na, F)), Lead(t, na[ks[m + 1]], m + 1)),
                        F[ks[m + 1]]), Trail(t))
<1> DEFINE i == Items(t, ks, m, na, F)
           l == Lead(t, na[ks[m + 1]], m + 1)
           y == F[ks[m + 1]]
           e == Trail(t)
           u == Cat(h, i)
           r == Cat(Cat(l, y), e)
<1>1. y \in Seq(Vocabulary) /\ (t = "GROUP" => na[ks[m + 1]] \in Names)
  <2>1. m + 1 \in 1 .. m + 1
    OBVIOUS
  <2> QED
    BY <2>1 DEF Writable
<1>2. l \in Seq(Vocabulary) /\ e \in Seq(Vocabulary)
  BY <1>1, LeadIsText
<1>3. i \in Seq(Vocabulary) /\ Items(t, ks, m + 1, na, F) = Cat(i, r)
  BY NextItem, ItemsAreText DEF Piece, Cat
<1>4. r \in Seq(Vocabulary)
  BY <1>1, PieceIsText DEF Piece, Cat
<1> HIDE DEF i, l, y, e, r
<1>5. Cat(h, Cat(i, r)) = Cat(u, r)
  BY <1>3, <1>4, CatAssociates DEF IsText
<1>6. u \in Seq(Vocabulary)
  BY <1>3, CatIsSeq DEF IsText
<1> HIDE DEF u
<1>7. Cat(u, Cat(Cat(l, y), e)) = Cat(Cat(Cat(u, l), y), e)
  <2>1. AreSeqs(Vocabulary, u, l, y, e)
    BY <1>1, <1>2, <1>6 DEF AreSeqs
  <2> QED
    BY <2>1, ConcatThree
<1>8. Cat(h, Items(t, ks, m + 1, na, F)) = Cat(Cat(Cat(u, l), y), e)
  BY <1>3, <1>5, <1>7 DEF r
<1> QED
  BY <1>6, <1>8 DEF u, i, l, y, e

-----------------------------------------------------------------------------
(* Where the text is that was read: F[x] is the text of a setting x that   *)
(* is complete (in D), H[x] what was read of the file up to the bracket    *)
(* that opens a setting x which is not (in O).                             *)

Done(F, D) ==
  \A x \in D : /\ type[x] # "NONE" /\ Finished(x, F)
               /\ \A i \in 1 .. Len(kids[x]) : kids[x][i] \in D

(* The text up to the m-th element of x, and up to the bracket of x.       *)
Upto(F, H, x, m) == Cat(H[x], Items(type[x], kids[x], m, name, F))
OpenedAt(F, H, x) ==
  LET p == parent[x]
      n == Len(kids[p])
  IN Cat(Cat(Upto(F, H, p, n - 1), Lead(type[p], name[x], n)), <<Start(type[x])>>)

Way(F, H, D, O) ==
  /\ root \in O /\ O \cap D = {} /\ H[root] = <<>>
  /\ \A x \in O : /\ type[x] \in Aggregates
                  /\ \A i \in 1 .. Len(kids[x]) - 1 : kids[x][i] \in D
  /\ \A x \in O \ {root} : /\ parent[x] \in O
                           /\ kids[parent[x]] # <<>> /\ Last(kids[parent[x]]) = x
                           /\ H[x] = OpenedAt(F, H, x)

Built(F, H, D, O) ==
  /\ Named /\ Done(F, D) /\ Way(F, H, D, O)
  /\ D \in SUBSET live /\ O \in SUBSET live /\ ctxParent \in O
  /\ ~IsWaiting /\ kids[ctxParent] # <<>> => Last(kids[ctxParent]) \in D

(* The text of what was built.                                             *)
Reached(F, H) ==
  LET n == Len(kids[ctxParent])
  IN IF IsWaiting
     THEN Cat(Upto(F, H, ctxParent, n - 1), Lead("GROUP", name[ctxSetting], n))
     ELSE Upto(F, H, ctxParent, n)

LEMMA DoneGoesOn ==
  ASSUME NEW F, NEW D, NEW F2, NEW D2, Done(F, D), D \subseteq D2,
         \A x \in D : /\ name'[x] = name[x] /\ type'[x] = type[x] /\ value'[x] = value[x]
                      /\ format'[x] = format[x] /\ kids'[x] = kids[x] /\ F2[x] = F[x],
         \A x \in D2 \ D : /\ type'[x] # "NONE" /\ Finished(x, F2)'
                           /\ \A i \in 1 .. Len(kids'[x]) : kids'[x][i] \in D2
  PROVE  Done(F2, D2)'
<1>1. ASSUME NEW x \in D PROVE Finished(x, F2)'
  <2>1. Finished(x, F)
    BY DEF Done
  <2>2. \A i \in 1 .. Len(kids[x]) : kids[x][i] \in D
    BY DEF Done
  <2>3. Items(type'[x], kids'[x], Len(kids'[x]), name', F2)
          = Items(type[x], kids[x], Len(kids[x]), name, F)
    <3>1. \A i \in 1 .. Len(kids[x]) : /\ kids'[x][i] = kids[x][i]
                                       /\ name'[kids'[x][i]] = name[kids[x][i]]
                                       /\ F2[kids'[x][i]] = F[kids[x][i]]
      BY <2>2
    <3>2. Items(type[x], kids'[x], Len(kids[x]), name', F2)
            = Items(type[x], kids[x], Len(kids[x]), name, F)
      BY <3>1, SameItems
    <3>3. type'[x] = type[x] /\ kids'[x] = kids[x]
      OBVIOUS
    <3> QED
      BY <3>2, <3>3, Zenon
  <2>4. Body(x, F2)' = Body(x, F)
    BY <2>3 DEF Body
  <2>5. ScalarText(x)' = ScalarText(x)
    BY DEF ScalarText
  <2>6. F2[x] = F[x] /\ type'[x] = type[x]
    OBVIOUS
  <2> QED
    BY <2>1, <2>4, <2>5, <2>6, Zenon DEF Finished
<1>2. ASSUME NEW x \in D
      PROVE  type'[x] # "NONE" /\ \A i \in 1 .. Len(kids'[x]) : kids'[x][i] \in D2
  BY DEF Done
<1>3. \A x \in D2 : x \in D \/ x \in D2 \ D
  OBVIOUS
<1> QED
  BY <1>1, <1>2, <1>3 DEF Done

LEMMA WayGoesOn ==
  ASSUME NEW F, NEW H, NEW D, NEW O, NEW F2, NEW H2, NEW D2, NEW O2, Way(F, H, D, O),
         root' = root, root \in O2, O2 \cap D2 = {},
         \A x \in O \cap O2 : /\ name'[x] = name[x] /\ type'[x] = type[x]
                              /\ parent'[x] = parent[x] /\ H2[x] = H[x],
         \A x \in (O \cap O2) \ {root} : parent[x] \in O2 /\ kids'[parent[x]] = kids[parent[x]],
         \A x \in D : name'[x] = name[x] /\ F2[x] = F[x],
         \A x \in O2 : /\ type'[x] \in Aggregates
                       /\ \A i \in 1 .. Len(kids'[x]) - 1 : kids'[x][i] \in D2,
         \A x \in O2 \ O : /\ parent'[x] \in O2
                           /\ kids'[parent'[x]] # <<>> /\ Last(kids'[parent'[x]]) = x
                           /\ H2[x] = OpenedAt(F2, H2, x)'
  PROVE  Way(F2, H2, D2, O2)'
<1>1. H2[root] = <<>> /\ root \in O
  BY DEF Way
<1>2. ASSUME NEW x \in (O \cap O2) \ {root}
      PROVE  /\ parent'[x] \in O2
             /\ kids'[parent'[x]] # <<>> /\ Last(kids'[parent'[x]]) = x
             /\ H2[x] = OpenedAt(F2, H2, x)'
  <2> DEFINE p == parent[x]
             n == Len(kids[p])
  <2>1. /\ p \in O /\ p \in O2 /\ kids[p] # <<>> /\ Last(kids[p]) = x
        /\ H[x] = OpenedAt(F, H, x) /\ kids'[p] = kids[p]
    BY DEF Way
  <2>2. parent'[x] = p /\ name'[x] = name[x] /\ type'[x] = type[x] /\ H2[x] = H[x]
    OBVIOUS
  <2>3. type'[p] = type[p] /\ H2[p] = H[p]
    BY <2>1
  <2>4. \A i \in 1 .. n - 1 : kids[p][i] \in D
    BY <2>1 DEF Way
  <2> HIDE DEF p, n
  <2>5. Items(type[p], kids'[p], n - 1, name', F2) = Items(type[p], kids[p], n - 1, name, F)
    <3>1. \A i \in 1 .. n - 1 : /\ kids'[p][i] = kids[p][i]
                                /\ name'[kids'[p][i]] = name[kids[p][i]]
                                /\ F2[kids'[p][i]] = F[kids[p][i]]
      BY <2>1, <2>4
    <3> QED
      BY <3>1, SameItems
  <2>6. n = Len(kids'[p]) /\ n = Len(kids[p])
    BY <2>1 DEF n
  <2>7. OpenedAt(F2, H2, x)'
          = Cat(Cat(Cat(H2[p], Items(type'[p], kids'[p], n - 1, name', F2)),
                    Lead(type'[p], name'[x], n)), <<Start(type'[x])>>)
    BY <2>2, <2>6, Zenon DEF OpenedAt, Upto
  <2>8. OpenedAt(F, H, x)
          = Cat(Cat(Cat(H[p], Items(type[p], kids[p], n - 1, name, F)),
                    Lead(type[p], name[x], n)), <<Start(type[x])>>)
    BY <2>6, Zenon DEF OpenedAt, Upto, p
  <2>9. OpenedAt(F2, H2, x)' = OpenedAt(F, H, x)
    <3>1. Cat(H2[p], Items(type'[p], kids'[p], n - 1, name', F2))
            = Cat(H[p], Items(type[p], kids[p], n - 1, name, F))
      BY <2>3, <2>5
    <3>2. Lead(type'[p], name'[x], n) = Lead(type[p], name[x], n)
      BY <2>2, <2>3
    <3>3. Start(type'[x]) = Start(type[x])
      BY <2>2
    <3> QED
      BY <2>7, <2>8, <3>1, <3>2, <3>3, Zenon
  <2> QED
    BY <2>1, <2>2, <2>9
<1>3. \A x \in O2 \ {root} : x \in O2 \ O \/ x \in (O \cap O2) \ {root}
  OBVIOUS
<1>4. \A x \in O2 \ {root} : /\ parent'[x] \in O2
                             /\ kids'[parent'[x]] # <<>> /\ Last(kids'[parent'[x]]) = x
                             /\ H2[x] = OpenedAt(F2, H2, x)'
  BY <1>2, <1>3, Zenon
<1>5. root' \in O2 /\ O2 \cap D2 = {} /\ H2[root'] = <<>>
  BY <1>1
<1> QED
  BY <1>4, <1>5, Zenon DEF Way

-----------------------------------------------------------------------------
(* A step makes something of the setting x behind the m elements of p that *)
(* are complete.                                                           *)
Extends(D, O, p, x, m) ==
  /\ p \in O /\ x \notin D \cup O /\ root' = root /\ m \in Nat
  /\ \A y \in D \cup O : /\ name'[y] = name[y] /\ type'[y] = type[y] /\ value'[y] = value[y]
                         /\ format'[y] = format[y] /\ parent'[y] = parent[y]
  /\ \A y \in (D \cup O) \ {p} : kids'[y] = kids[y]
  /\ Len(kids'[p]) = m + 1 /\ kids'[p][m + 1] = x
  /\ \A i \in 1 .. m : kids'[p][i] = kids[p][i] /\ kids[p][i] \in D
  /\ kids'[p] # <<>> /\ kids'[x] = <<>> /\ parent'[x] = p
  /\ \A y \in O \ {root} : parent[y] # p

(* The new texts, and which settings are complete and open then.           *)
Rewrites(F, H, D, O, x, F2, H2, D2, O2) ==
  /\ \A y \in D : F2[y] = F[y]
  /\ \A y \in O : H2[y] = H[y]
  /\ \/ D2 = D /\ O2 = O
     \/ D2 = D \cup {x} /\ O2 = O
     \/ D2 = D /\ O2 = O \cup {x}

LEMMA BeforeIsKept ==
  ASSUME NEW F, NEW H, NEW D, NEW O, NEW p, NEW x, NEW m, NEW F2, NEW H2, NEW D2, NEW O2,
         Extends(D, O, p, x, m), Rewrites(F, H, D, O, x, F2, H2, D2, O2)
  PROVE  Cat(H2[p], Items(type'[p], kids'[p], m, name', F2)) = Upto(F, H, p, m)
<1>1. H2[p] = H[p] /\ type'[p] = type[p]
  BY DEF Extends, Rewrites
<1>2. \A i \in 1 .. m : /\ kids'[p][i] = kids[p][i]
                        /\ name'[kids'[p][i]] = name[kids[p][i]]
                        /\ F2[kids'[p][i]] = F[kids[p][i]]
  BY DEF Extends, Rewrites
<1>3. Items(type[p], kids'[p], m, name', F2) = Items(type[p], kids[p], m, name, F)
  BY <1>2, SameItems
<1> QED
  BY <1>1, <1>3, Zenon DEF Upto

LEMMA OpenedAfter ==
  ASSUME NEW F, NEW H, NEW D, NEW O, NEW p, NEW x, NEW m, NEW F2, NEW H2, NEW D2, NEW O2,
         Extends(D, O, p, x, m), Rewrites(F, H, D, O, x, F2, H2, D2, O2)
  PROVE  OpenedAt(F2, H2, x)'
           = Cat(Cat(Upto(F, H, p, m), Lead(type[p], name'[x], m + 1)), <<Start(type'[x])>>)
<1>1. /\ parent'[x] = p /\ Len(kids'[p]) = m + 1 /\ (m + 1) - 1 = m /\ type'[p] = type[p]
  BY DEF Extends
<1>2. OpenedAt(F2, H2, x)'
        = Cat(Cat(Cat(H2[p], Items(type'[p], kids'[p], (m + 1) - 1, name', F2)),
                  Lead(type'[p], name'[x], m + 1)), <<Start(type'[x])>>)
  BY <1>1, Zenon DEF OpenedAt, Upto
<1>3. Cat(H2[p], Items(type'[p], kids'[p], m, name', F2)) = Upto(F, H, p, m)
  BY BeforeIsKept
<1> QED
  BY <1>1, <1>2, <1>3, Zenon

LEMMA DoneExtends ==
  ASSUME NEW F, NEW H, NEW D, NEW O, NEW p, NEW x, NEW m, NEW F2, NEW H2, NEW D2, NEW O2,
         Extends(D, O, p, x, m), Rewrites(F, H, D, O, x, F2, H2, D2, O2), Done(F, D),
         O \cap D = {}, x \in D2 => type'[x] # "NONE" /\ Finished(x, F2)'
  PROVE  Done(F2, D2)'
<1>1. D \subseteq D2 /\ \A y \in D2 \ D : y = x /\ x \in D2
  BY DEF Rewrites
<1>2. \A y \in D : /\ name'[y] = name[y] /\ type'[y] = type[y] /\ value'[y] = value[y]
                   /\ format'[y] = format[y] /\ kids'[y] = kids[y] /\ F2[y] = F[y]
  BY DEF Extends, Rewrites
<1>3. \A i \in 1 .. Len(kids'[x]) : kids'[x][i] \in D2
  BY DEF Extends
<1>4. \A y \in D2 \ D : /\ type'[y] # "NONE" /\ Finished(y, F2)'
                        /\ \A i \in 1 .. Len(kids'[y]) : kids'[y][i] \in D2
  BY <1>1, <1>3
<1> QED
  BY <1>1, <1>2, <1>4, DoneGoesOn

LEMMA WayExtends ==
  ASSUME NEW F, NEW H, NEW D, NEW O, NEW p, NEW x, NEW m, NEW F2, NEW H2, NEW D2, NEW O2,
         Extends(D, O, p, x, m), Rewrites(F, H, D, O, x, F2, H2, D2, O2), Way(F, H, D, O),
         x \in O2 => /\ type'[x] \in Aggregates
                     /\ H2[x] = Cat(Cat(Upto(F, H, p, m), Lead(type[p], name'[x], m + 1)),
                                    <<Start(type'[x])>>)
  PROVE  Way(F2, H2, D2, O2)'
<1>1. /\ O \subseteq O2 /\ O \cap O2 = O /\ D \subseteq D2 /\ O2 \cap D2 = {}
      /\ root' = root /\ root \in O2 /\ \A y \in O2 \ O : y = x /\ x \in O2
  BY DEF Way, Rewrites, Extends
<1>2. \A y \in O : /\ name'[y] = name[y] /\ type'[y] = type[y]
                   /\ parent'[y] = parent[y] /\ H2[y] = H[y]
  BY DEF Extends, Rewrites
<1>3. \A y \in O \ {root} : parent[y] \in O2 /\ kids'[parent[y]] = kids[parent[y]]
  <2>1. \A y \in O \ {root} : parent[y] \in O /\ parent[y] # p
    BY DEF Way, Extends
  <2>2. \A q \in O \ {p} : kids'[q] = kids[q]
    BY DEF Extends
  <2> QED
    BY <1>1, <2>1, <2>2
<1>4. \A y \in D : name'[y] = name[y] /\ F2[y] = F[y]
  BY DEF Extends, Rewrites
<1>5. ASSUME NEW y \in O2
      PROVE  type'[y] \in Aggregates /\ \A i \in 1 .. Len(kids'[y]) - 1 : kids'[y][i] \in D2
  <2>1. CASE y = x
    BY <2>1 DEF Extends
  <2>2. CASE y = p
    <3>1. type'[p] \in Aggregates
      BY <1>2 DEF Way, Extends
    <3>2. Len(kids'[p]) - 1 = m /\ \A i \in 1 .. m : kids'[p][i] \in D
      BY DEF Extends
    <3> QED
      BY <1>1, <2>2, <3>1, <3>2
  <2>3. CASE y # x /\ y # p
    <3>1. y \in O /\ kids'[y] = kids[y] /\ type'[y] = type[y]
      BY <1>1, <2>3 DEF Extends
    <3> QED
      BY <1>1, <3>1 DEF Way
  <2> QED
    BY <2>1, <2>2, <2>3
<1>6. ASSUME NEW y \in O2 \ O
      PROVE  /\ parent'[y] \in O2
             /\ kids'[parent'[y]] # <<>> /\ Last(kids'[parent'[y]]) = y
             /\ H2[y] = OpenedAt(F2, H2, y)'
  <2>1. y = x /\ x \in O2
    BY <1>1
  <2>2. OpenedAt(F2, H2, x)' = H2[x]
    <3>1. OpenedAt(F2, H2, x)'
            = Cat(Cat(Upto(F, H, p, m), Lead(type[p], name'[x], m + 1)), <<Start(type'[x])>>)
      BY OpenedAfter
    <3> QED
      BY <2>1, <3>1, Zenon
  <2>3. parent'[x] = p /\ p \in O2 /\ kids'[p] # <<>> /\ Last(kids'[p]) = x
    BY <1>1 DEF Extends, Last
  <2> QED
    BY <2>1, <2>2, <2>3
<1> QED
  BY <1>1, <1>2, <1>3, <1>4, <1>5, <1>6, WayGoesOn

-----------------------------------------------------------------------------
(* The three ways in which a text goes on at a setting, and the end of one.*)

TextsOK(F, H) ==
  F \in [Settings -> Seq(Vocabulary)] /\ H \in [Settings -> Seq(Vocabulary)]

(* The text up to where the m+1st setting of p, with the name n, begins.   *)
Led(F, H, p, m, n) == Cat(Upto(F, H, p, m), Lead(type[p], n, m + 1))

LEMMA UptoIsText ==
  ASSUME IInv, Named, NEW F, NEW H, TextsOK(F, H), NEW x \in live,
         NEW m \in 0 .. Len(kids[x])
  PROVE  IsText(Upto(F, H, x, m)) /\ IsText(H[x])
<1>1. Writable(type[x], kids[x], Len(kids[x]), name, F) /\ Len(kids[x]) \in Nat
  BY BodyIsWritable DEF TextsOK
<1>2. Writable(type[x], kids[x], m, name, F)
  <2>1. m \in Nat /\ \A i \in 1 .. m : i \in 1 .. Len(kids[x])
    BY <1>1
  <2> QED
    BY <1>1, <2>1 DEF Writable
<1>3. x \in Settings
  BY DEF IInv, TypeOK
<1>4. H[x] \in Seq(Vocabulary) /\ Items(type[x], kids[x], m, name, F) \in Seq(Vocabulary)
  BY <1>2, <1>3, ItemsAreText DEF TextsOK
<1> QED
  BY <1>4, ConcatProperties DEF IsText, Upto, Cat

LEMMA WritableAfter ==
  ASSUME NEW F, NEW p
  PROVE  IInv' /\ Named' /\ F \in [Settings -> Seq(Vocabulary)] /\ p \in live'
           => Writable(type'[p], kids'[p], Len(kids'[p]), name', F)
<1> DEFINE A == IInv /\ Named /\ F \in [Settings -> Seq(Vocabulary)] /\ p \in live
           W == Writable(type[p], kids[p], Len(kids[p]), name, F)
<1>1. A => W
  BY BodyIsWritable
<1> HIDE DEF A, W
<1>2. A' => W'
  BY <1>1, PTL
<1>3. W' <=> Writable(type'[p], kids'[p], Len(kids'[p]), name', F)
  BY DEF W
<1> QED
  BY <1>2, <1>3 DEF A

(* After the step, what was built is that of the text w.                   *)
Arrives(w) ==
  \E F, H, D, O : TextsOK(F, H) /\ Built(F, H, D, O)' /\ Reached(F, H)' = w

(* A setting gets its name.                                                *)
LEMMA NameGoesOn ==
  ASSUME NEW F, NEW H, NEW D, NEW O, NEW p, NEW x, NEW m, Built(F, H, D, O),
         Extends(D, O, p, x, m), Named', D \in SUBSET live', O \in SUBSET live',
         type[p] = "GROUP", ctxParent' = p, ctxSetting' = x, IsWaiting'
  PROVE  /\ Built(F, H, D, O)'
         /\ Reached(F, H)' = Led(F, H, p, m, name'[x])
<1>1. Rewrites(F, H, D, O, x, F, H, D, O)
  BY DEF Rewrites
<1>2. x \notin D /\ x \notin O /\ p \in O /\ Len(kids'[p]) = m + 1 /\ m \in Nat
  BY DEF Extends
<1>3. Done(F, D) /\ Way(F, H, D, O) /\ O \cap D = {}
  BY DEF Built, Way
<1>4. Done(F, D)'
  <2>1. x \in D => type'[x] # "NONE" /\ Finished(x, F)'
    BY <1>2
  <2> QED
    BY <1>1, <1>3, <2>1, DoneExtends
<1>5. Way(F, H, D, O)'
  <2>1. x \in O => /\ type'[x] \in Aggregates
                   /\ H[x] = Cat(Cat(Upto(F, H, p, m), Lead(type[p], name'[x], m + 1)),
                                 <<Start(type'[x])>>)
    BY <1>2
  <2> QED
    BY <1>1, <1>3, <2>1, WayExtends
<1>6. Cat(H[p], Items(type'[p], kids'[p], m, name', F)) = Upto(F, H, p, m)
  BY <1>1, BeforeIsKept
<1>7. Reached(F, H)' = Cat(Cat(H[p], Items(type'[p], kids'[p], (m + 1) - 1, name', F)),
                           Lead("GROUP", name'[x], m + 1))
  BY <1>2, Zenon DEF Reached, Upto
<1>8. (m + 1) - 1 = m
  BY <1>2
<1>9. Reached(F, H)' = Cat(Upto(F, H, p, m), Lead(type[p], name'[x], m + 1))
  BY <1>6, <1>7, <1>8
<1>10. Built(F, H, D, O)'
  BY <1>2, <1>4, <1>5 DEF Built
<1> QED
  BY <1>9, <1>10 DEF Led

(* A setting gets its scalar.                                              *)
LEMMA ValueGoesOn ==
  ASSUME NEW F, NEW H, NEW D, NEW O, NEW p, NEW x \in Settings, NEW m, NEW item,
         Built(F, H, D, O), TextsOK(F, H), Extends(D, O, p, x, m), IInv', Named',
         D \cup {x} \in SUBSET live', O \in SUBSET live', IsText(item),
         type'[x] \notin Aggregates \cup {"NONE"}, ScalarText(x)' = item,
         ctxParent' = p, ~IsWaiting'
  PROVE  Arrives(Cat(Cat(Led(F, H, p, m, name'[x]), item), Trail(type[p])))
<1>1. PICK F2 : F2 = [F EXCEPT ![x] = item]
  OBVIOUS
<1>2. TextsOK(F2, H) /\ F2[x] = item /\ \A y \in Settings \ {x} : F2[y] = F[y]
  BY <1>1 DEF TextsOK, IsText
<1>3. /\ x \notin D /\ x \notin O /\ p \in O /\ Len(kids'[p]) = m + 1 /\ m \in Nat
      /\ kids'[p][m + 1] = x /\ kids'[p] # <<>> /\ type'[p] = type[p]
  BY DEF Extends
<1>4. Rewrites(F, H, D, O, x, F2, H, D \cup {x}, O)
  <2>1. \A y \in D : y \in Settings \ {x}
    BY <1>3 DEF IInv, TypeOK
  <2> QED
    BY <1>2, <2>1 DEF Rewrites
<1>5. Done(F, D) /\ Way(F, H, D, O) /\ O \cap D = {}
  BY DEF Built, Way
<1>6. Done(F2, D \cup {x})'
  <2>1. Finished(x, F2)'
    BY <1>2 DEF Finished
  <2>2. type'[x] # "NONE"
    OBVIOUS
  <2> QED
    BY <1>4, <1>5, <2>1, <2>2, DoneExtends
<1>7. Way(F2, H, D \cup {x}, O)'
  <2>1. x \in O => /\ type'[x] \in Aggregates
                   /\ H[x] = Cat(Cat(Upto(F, H, p, m), Lead(type[p], name'[x], m + 1)),
                                 <<Start(type'[x])>>)
    BY <1>3
  <2> QED
    BY <1>4, <1>5, <2>1, WayExtends
<1>8. Last(kids'[p]) = x
  BY <1>3 DEF Last
<1>9. Built(F2, H, D \cup {x}, O)'
  BY <1>3, <1>6, <1>7, <1>8 DEF Built
<1>10. Cat(H[p], Items(type'[p], kids'[p], m, name', F2)) = Upto(F, H, p, m)
  BY <1>4, BeforeIsKept
<1>11. p \in live' /\ p \in Settings /\ IsText(H[p])
  <2>1. p \in live' /\ p \in Settings
    BY <1>3 DEF IInv, TypeOK
  <2> QED
    BY <2>1 DEF TextsOK, IsText
<1>12. Writable(type'[p], kids'[p], m + 1, name', F2)
  <2>1. Writable(type'[p], kids'[p], Len(kids'[p]), name', F2)
    BY <1>2, <1>11, WritableAfter DEF TextsOK
  <2> QED
    BY <1>3, <2>1
<1>13. Cat(H[p], Items(type'[p], kids'[p], m + 1, name', F2))
         = Cat(Cat(Cat(Cat(H[p], Items(type'[p], kids'[p], m, name', F2)),
                       Lead(type'[p], name'[kids'[p][m + 1]], m + 1)),
                   F2[kids'[p][m + 1]]), Trail(type'[p]))
  BY <1>3, <1>11, <1>12, ItemAfter
<1>14. Reached(F2, H)' = Cat(H[p], Items(type'[p], kids'[p], m + 1, name', F2))
  BY <1>3, Zenon DEF Reached, Upto
<1>15. Reached(F2, H)' = Cat(Cat(Led(F, H, p, m, name'[x]), item), Trail(type[p]))
  BY <1>2, <1>3, <1>10, <1>13, <1>14 DEF Led
<1> DEFINE w == Cat(Cat(Led(F, H, p, m, name'[x]), item), Trail(type[p]))
<1> HIDE DEF w
<1>16. Arrives(w)
  BY <1>2, <1>9, <1>15 DEF Arrives, w
<1> QED
  BY <1>16 DEF w

(* A setting gets its bracket.                                             *)
LEMMA BracketGoesOn ==
  ASSUME NEW F, NEW H, NEW D, NEW O, NEW p, NEW x \in Settings, NEW m,
         Built(F, H, D, O), TextsOK(F, H), Extends(D, O, p, x, m), IInv', Named',
         D \in SUBSET live', O \cup {x} \in SUBSET live',
         type'[x] \in Aggregates, IsText(Led(F, H, p, m, name'[x])),
         ctxParent' = x, ~IsWaiting'
  PROVE  Arrives(Cat(Led(F, H, p, m, name'[x]), <<Start(type'[x])>>))
<1> DEFINE here == Cat(Led(F, H, p, m, name'[x]), <<Start(type'[x])>>)
<1>1. IsText(here)
  <2>1. Start(type'[x]) \in Vocabulary
    BY SignsAreTokens
  <2> DEFINE v == Led(F, H, p, m, name'[x])
             tok == Start(type'[x])
  <2> HIDE DEF v, tok
  <2>2. Cat(v, <<tok>>) \in Seq(Vocabulary)
    BY <2>1, EssenceOfOne DEF IsText, v, tok
  <2> QED
    BY <2>2 DEF IsText, v, tok
<1>2. PICK H2 : H2 = [H EXCEPT ![x] = here]
  OBVIOUS
<1>3. TextsOK(F, H2) /\ H2[x] = here /\ \A y \in Settings \ {x} : H2[y] = H[y]
  <2> HIDE DEF here
  <2> QED
    BY <1>1, <1>2 DEF TextsOK, IsText
<1>4. /\ x \notin D /\ x \notin O /\ kids'[x] = <<>>
  BY DEF Extends
<1>5. Rewrites(F, H, D, O, x, F, H2, D, O \cup {x})
  <2>1. \A y \in O : y \in Settings \ {x}
    BY <1>4 DEF IInv, TypeOK
  <2> QED
    BY <1>3, <2>1 DEF Rewrites
<1>6. Done(F, D) /\ Way(F, H, D, O) /\ O \cap D = {}
  BY DEF Built, Way
<1>7. Done(F, D)'
  <2>1. x \in D => type'[x] # "NONE" /\ Finished(x, F)'
    BY <1>4
  <2> QED
    BY <1>5, <1>6, <2>1, DoneExtends
<1>8. H2[x] = Cat(Cat(Upto(F, H, p, m), Lead(type[p], name'[x], m + 1)), <<Start(type'[x])>>)
  BY <1>3 DEF Led
<1>9. Way(F, H2, D, O \cup {x})'
  BY <1>5, <1>6, <1>8, WayExtends
<1>10. Built(F, H2, D, O \cup {x})'
  BY <1>4, <1>7, <1>9 DEF Built
<1>11. Reached(F, H2)' = Cat(H2[x], Items(type'[x], kids'[x], Len(kids'[x]), name', F))
  BY Zenon DEF Reached, Upto
<1>12. Len(kids'[x]) = 0
  BY <1>4
<1>13. Items(type'[x], kids'[x], 0, name', F) = <<>>
  BY NoItems
<1>14. Cat(here, <<>>) = here
  <2> HIDE DEF here
  <2> QED
    BY <1>1, ConcatEmptySeq DEF Cat, IsText
<1>15. Reached(F, H2)' = here
  BY <1>3, <1>11, <1>12, <1>13, <1>14
<1> HIDE DEF here
<1>16. Arrives(here)
  BY <1>3, <1>10, <1>15 DEF Arrives
<1> QED
  BY <1>16 DEF here

(* The bracket of a setting is closed.                                     *)
LEMMA BracketEnds ==
  ASSUME NEW F, NEW H, NEW D, NEW O, NEW x, IInv, Built(F, H, D, O), TextsOK(F, H),
         UNCHANGED vars, x = ctxParent, x # root, ctxParent' = parent[x],
         ~IsWaiting, ~IsWaiting'
  PROVE  Arrives(Cat(Cat(Reached(F, H), <<End(type[x])>>), Trail(type[parent[x]])))
<1> DEFINE p == parent[x]
           n == Len(kids[p])
           m == n - 1
           N == Len(kids[x])
           body == Body(x, F)
           y == (<<Start(type[x])>> \o body) \o <<End(type[x])>>
<1>1. /\ Named /\ Done(F, D) /\ Way(F, H, D, O) /\ O \cap D = {}
      /\ D \in SUBSET live /\ O \in SUBSET live /\ x \in O /\ x \notin D
      /\ kids[x] # <<>> => Last(kids[x]) \in D
  BY DEF Built, Way
<1>2. /\ p \in O /\ kids[p] # <<>> /\ Last(kids[p]) = x /\ H[x] = OpenedAt(F, H, x)
      /\ type[x] \in Aggregates
      /\ \A i \in 1 .. Len(kids[x]) - 1 : kids[x][i] \in D
      /\ \A i \in 1 .. Len(kids[p]) - 1 : kids[p][i] \in D
  BY <1>1 DEF Way
<1>3. x \in live /\ x \in Settings /\ p \in live /\ p \in Settings
  BY <1>1, <1>2 DEF IInv, TypeOK
<1>4. /\ kids[x] \in Seq(Settings) /\ kids[p] \in Seq(Settings)
      /\ Len(kids[x]) \in Nat /\ Len(kids[p]) \in Nat
  BY <1>3, LenProperties DEF IInv, TypeOK
<1>5. n \in Nat /\ m \in Nat /\ m + 1 = n /\ kids[p][n] = x
  <2>1. Len(kids[p]) # 0
    BY <1>2, <1>4, EmptySeq
  <2> QED
    BY <1>2, <1>4, <2>1 DEF Last
<1>6. \A i \in 1 .. N : kids[x][i] \in D
  <2>1. ASSUME NEW i \in 1 .. N PROVE kids[x][i] \in D
    <3>1. CASE i = N
      <4>1. kids[x] # <<>> /\ Last(kids[x]) = kids[x][i]
        <5>1. Len(kids[x]) # 0
          BY <1>4, <3>1
        <5> QED
          BY <1>4, <3>1, <5>1, EmptySeq DEF Last
      <4> QED
        BY <1>1, <4>1
    <3>2. CASE i # N
      <4>1. i \in 1 .. Len(kids[x]) - 1
        BY <1>4, <3>2
      <4> QED
        BY <1>2, <4>1
    <3> QED
      BY <3>1, <3>2
  <2> QED
    BY <2>1
<1>7. x # p
  BY <1>1, <1>2, <1>5, <1>6
<1>8. body \in Seq(Vocabulary) /\ <<Start(type[x])>> \in Seq(Vocabulary)
        /\ <<End(type[x])>> \in Seq(Vocabulary)
  <2>1. Writable(type[x], kids[x], Len(kids[x]), name, F)
    BY <1>1, <1>3, BodyIsWritable DEF TextsOK
  <2>2. body \in Seq(Vocabulary)
    BY <2>1, ItemsAreText DEF Body
  <2>3. Start(type[x]) \in Vocabulary /\ End(type[x]) \in Vocabulary
    BY <1>2, SignsAreTokens
  <2> HIDE DEF body
  <2> QED
    BY <2>2, <2>3
<1> HIDE DEF body
<1>9. y \in Seq(Vocabulary)
  BY <1>8, ConcatProperties
<1>10. PICK F2 : F2 = [F EXCEPT ![x] = y]
  OBVIOUS
<1>11. TextsOK(F2, H) /\ F2[x] = y /\ \A s \in Settings \ {x} : F2[s] = F[s]
  <2> HIDE DEF y
  <2> QED
    BY <1>3, <1>9, <1>10 DEF TextsOK
<1>12. \A s \in D : F2[s] = F[s]
  BY <1>1, <1>11 DEF IInv, TypeOK
<1>13. /\ root' = root /\ name' = name /\ type' = type /\ value' = value /\ format' = format
       /\ parent' = parent /\ kids' = kids /\ live' = live
  BY DEF vars
<1> HIDE DEF y
<1>14. Finished(x, F2)'
  <2>1. Items(type[x], kids[x], N, name, F2) = Items(type[x], kids[x], N, name, F)
    <3>1. \A i \in 1 .. N : F2[kids[x][i]] = F[kids[x][i]]
      BY <1>6, <1>12
    <3> QED
      BY <3>1, SameItems
  <2>2. Body(x, F2) = body
    BY <2>1 DEF Body, body
  <2>3. Body(x, F2)' = Body(x, F2)
    BY <1>13 DEF Body
  <2>4. F2[x] = (<<Start(type[x])>> \o Body(x, F2)') \o <<End(type[x])>>
    BY <1>11, <2>2, <2>3 DEF y
  <2> QED
    BY <1>2, <1>13, <2>4, Zenon DEF Finished
<1>15. Done(F2, D \cup {x})'
  <2>1. \A s \in (D \cup {x}) \ D : /\ type'[s] # "NONE" /\ Finished(s, F2)'
                                    /\ \A i \in 1 .. Len(kids'[s]) : kids'[s][i] \in D \cup {x}
    <3>1. type[x] # "NONE"
      BY <1>2 DEF Aggregates
    <3> QED
      BY <1>6, <1>13, <1>14, <3>1
  <2>2. \A s \in D : /\ name'[s] = name[s] /\ type'[s] = type[s] /\ value'[s] = value[s]
                     /\ format'[s] = format[s] /\ kids'[s] = kids[s] /\ F2[s] = F[s]
    BY <1>12, <1>13
  <2>3. D \subseteq D \cup {x}
    OBVIOUS
  <2> QED
    BY <1>1, <2>1, <2>2, <2>3, DoneGoesOn
<1>16. \A s \in (O \cap (O \ {x})) \ {root} : parent[s] \in O \ {x}
  <2>1. ASSUME NEW s \in O \ {root}, parent[s] = x PROVE FALSE
    <3>1. kids[x] # <<>> /\ Last(kids[x]) = s
      BY <1>1, <2>1 DEF Way
    <3> QED
      BY <1>1, <3>1
  <2>2. \A s \in O \ {root} : parent[s] \in O
    BY <1>1 DEF Way
  <2> QED
    BY <2>1, <2>2
<1>17. Way(F2, H, D \cup {x}, O \ {x})'
  <2> DEFINE O2 == O \ {x}
             D2 == D \cup {x}
  <2>1. root \in O2 /\ O2 \cap D2 = {} /\ O2 \ O = {} /\ O2 \subseteq O
    BY <1>1 DEF Way
  <2>2. \A s \in O \cap O2 : /\ name'[s] = name[s] /\ type'[s] = type[s]
                             /\ parent'[s] = parent[s] /\ H[s] = H[s]
    BY <1>13
  <2>3. \A s \in (O \cap O2) \ {root} : parent[s] \in O2 /\ kids'[parent[s]] = kids[parent[s]]
    BY <1>13, <1>16
  <2>4. \A s \in D : name'[s] = name[s] /\ F2[s] = F[s]
    BY <1>12, <1>13
  <2>5. \A s \in O2 : /\ type'[s] \in Aggregates
                      /\ \A i \in 1 .. Len(kids'[s]) - 1 : kids'[s][i] \in D2
    BY <1>1, <1>13, <2>1 DEF Way
  <2>6. \A s \in O2 \ O : /\ parent'[s] \in O2
                          /\ kids'[parent'[s]] # <<>> /\ Last(kids'[parent'[s]]) = s
                          /\ H[s] = OpenedAt(F2, H, s)'
    BY <2>1
  <2> HIDE DEF O2, D2
  <2>7. Way(F2, H, D2, O2)'
    BY <1>1, <1>13, <2>1, <2>2, <2>3, <2>4, <2>5, <2>6, WayGoesOn
  <2> QED
    BY <2>7 DEF O2, D2
<1>18. Built(F2, H, D \cup {x}, O \ {x})'
  <2>1. Named'
    BY <1>1, <1>13 DEF Named
  <2> QED
    BY <1>1, <1>2, <1>3, <1>7, <1>13, <1>15, <1>17, <2>1 DEF Built
<1> DEFINE up == Cat(H[p], Items(type[p], kids[p], m, name, F))
           l == Lead(type[p], name[x], n)
           t == <<Start(type[x])>>
           e == <<End(type[x])>>
<1>19. up = Upto(F, H, p, m) /\ IsText(up)
  <2>1. Named /\ m \in 0 .. Len(kids[p])
    BY <1>1, <1>5
  <2>2. IsText(Upto(F, H, p, m))
    BY <1>3, <2>1, UptoIsText
  <2> QED
    BY <2>2, Zenon DEF Upto
<1>20. Cat(H[p], Items(type[p], kids[p], m, name, F2)) = up
  <2>1. Items(type[p], kids[p], m, name, F2) = Items(type[p], kids[p], m, name, F)
    <3>1. \A i \in 1 .. m : F2[kids[p][i]] = F[kids[p][i]]
      BY <1>2, <1>5, <1>12
    <3> QED
      BY <3>1, SameItems
  <2> QED
    BY <2>1
<1>21. H[x] = Cat(Cat(up, l), t)
  BY <1>2, <1>19, Zenon DEF OpenedAt
<1>22. Reached(F, H) = Cat(H[x], body)
  BY Zenon DEF Reached, Upto, Body, body
<1>23. Reached(F2, H)' = Cat(H[p], Items(type[p], kids[p], n, name, F2))
  <2>1. Reached(F2, H)' = Cat(H[p], Items(type'[p], kids'[p], Len(kids'[p]), name', F2))
    BY Zenon DEF Reached, Upto
  <2> QED
    BY <1>13, <2>1
<1>24. Cat(H[p], Items(type[p], kids[p], m + 1, name, F2))
         = Cat(Cat(Cat(Cat(H[p], Items(type[p], kids[p], m, name, F2)),
                       Lead(type[p], name[kids[p][m + 1]], m + 1)),
                   F2[kids[p][m + 1]]), Trail(type[p]))
  <2>1. Writable(type[p], kids[p], Len(kids[p]), name, F2)
    BY <1>1, <1>3, <1>11, BodyIsWritable DEF TextsOK
  <2>2. Writable(type[p], kids[p], m + 1, name, F2)
    BY <1>5, <2>1
  <2>3. IsText(H[p])
    BY <1>3 DEF IsText, TextsOK
  <2> QED
    BY <1>5, <2>2, <2>3, ItemAfter
<1>25. l \in Seq(Vocabulary)
  <2>1. type[p] = "GROUP" => name[x] \in Names
    <3>1. n \in DOMAIN kids[p]
      BY <1>4, <1>5
    <3> QED
      BY <1>1, <1>3, <1>5, <3>1 DEF Named
  <2> QED
    BY <2>1, LeadIsText
<1> HIDE DEF up, l, t, e
<1>26. Cat(Cat(up, l), y) = Cat(Cat(Cat(Cat(up, l), t), body), e)
  <2> DEFINE u == Cat(up, l)
  <2>1. u \in Seq(Vocabulary)
    BY <1>19, <1>25, CatIsSeq DEF IsText
  <2>2. t \in Seq(Vocabulary) /\ e \in Seq(Vocabulary)
    BY <1>8 DEF t, e
  <2> HIDE DEF u
  <2>3. AreSeqs(Vocabulary, u, t, body, e)
    BY <1>8, <2>1, <2>2 DEF AreSeqs
  <2>4. Cat(u, Cat(Cat(t, body), e)) = Cat(Cat(Cat(u, t), body), e)
    BY <2>3, ConcatThree
  <2> QED
    BY <2>4 DEF Cat, u, y, t, e
<1>27. Reached(F2, H)' = Cat(Cat(Cat(up, l), y), Trail(type[p]))
  BY <1>5, <1>11, <1>20, <1>23, <1>24 DEF l
<1>28. Reached(F2, H)' = Cat(Cat(Reached(F, H), e), Trail(type[p]))
  BY <1>21, <1>22, <1>26, <1>27
<1> DEFINE w == Cat(Cat(Reached(F, H), e), Trail(type[p]))
<1> HIDE DEF w
<1>29. Arrives(w)
  BY <1>11, <1>18, <1>28 DEF Arrives, w
<1> QED
  BY <1>29 DEF w, e

(* A step that leaves the settings as they are.                            *)
LEMMA NothingGoesOn ==
  ASSUME NEW F, NEW H, NEW D, NEW O, Built(F, H, D, O), UNCHANGED vars,
         ctxParent' = ctxParent, ctxSetting' = ctxSetting, IsWaiting' <=> IsWaiting
  PROVE  Built(F, H, D, O)' /\ Reached(F, H)' = Reached(F, H)
<1>1. /\ root' = root /\ name' = name /\ type' = type /\ value' = value /\ format' = format
      /\ parent' = parent /\ kids' = kids /\ live' = live
  BY DEF vars
<1>2. \A x : Body(x, F)' = Body(x, F) /\ ScalarText(x)' = ScalarText(x)
  BY <1>1, Zenon DEF Body, ScalarText
<1>3. \A x : Finished(x, F)' <=> Finished(x, F)
  BY <1>1, <1>2, Zenon DEF Finished
<1>4. Done(F, D)'
  BY <1>1, <1>3, Zenon DEF Done, Built
<1>5. \A x, m : Upto(F, H, x, m)' = Upto(F, H, x, m)
  BY <1>1, Zenon DEF Upto
<1>6. \A x : OpenedAt(F, H, x)' = OpenedAt(F, H, x)
  BY <1>1, <1>5, Zenon DEF OpenedAt
<1>7. Way(F, H, D, O)'
  BY <1>1, <1>6, Zenon DEF Way, Built
<1>8. Named'
  BY <1>1, Zenon DEF Named, Built
<1>9. Built(F, H, D, O)'
  BY <1>1, <1>4, <1>7, <1>8, Zenon DEF Built
<1>10. Reached(F, H)' = Reached(F, H)
  BY <1>1, <1>5, Zenon DEF Reached
<1> QED
  BY <1>9, <1>10

(* A setting x is created behind the others of p.                          *)
Grown(p, x) ==
  /\ x \in Settings \ live /\ live' = live \cup {x} /\ root' = root
  /\ parent'[x] = p /\ kids'[x] = <<>> /\ kids'[p] = Append(kids[p], x)
  /\ \A y \in live : /\ name'[y] = name[y] /\ type'[y] = type[y] /\ value'[y] = value[y]
                     /\ format'[y] = format[y] /\ parent'[y] = parent[y]
  /\ \A y \in live \ {p} : kids'[y] = kids[y]

(* Only the value of x changes.                                            *)
Changed(x) ==
  /\ UNCHANGED <<live, root, name, parent, kids>>
  /\ \A y \in live \ {x} : type'[y] = type[y] /\ value'[y] = value[y] /\ format'[y] = format[y]

LEMMA GrownExtends ==
  ASSUME NEW F, NEW H, NEW D, NEW O, NEW p, NEW x, IInv, Built(F, H, D, O), ~IsWaiting,
         p = ctxParent, Grown(p, x)
  PROVE  Extends(D, O, p, x, Len(kids[p]))
<1> DEFINE m == Len(kids[p])
<1>1. /\ Way(F, H, D, O) /\ O \cap D = {} /\ D \in SUBSET live /\ O \in SUBSET live
      /\ p \in O /\ p \in live
      /\ kids[p] # <<>> => Last(kids[p]) \in D
  BY DEF Built, Way
<1>2. kids[p] \in Seq(Settings) /\ m \in Nat
  BY <1>1, LenProperties DEF IInv, TypeOK
<1>3. x \in Settings /\ x \notin live /\ x # p
  BY <1>1 DEF Grown
<1>4. /\ Len(kids'[p]) = m + 1 /\ kids'[p][m + 1] = x /\ kids'[p] # <<>>
      /\ \A i \in 1 .. m : kids'[p][i] = kids[p][i]
  <2> DEFINE u == Append(kids[p], x)
  <2>1. u \in Seq(Settings) /\ Len(u) = m + 1 /\ u[m + 1] = x /\ \A i \in 1 .. m : u[i] = kids[p][i]
    BY <1>2, <1>3, AppendProperties
  <2>2. kids'[p] = u
    BY DEF Grown
  <2>3. u # <<>>
    BY <1>2, <1>3, LastOfAppend
  <2> HIDE DEF u
  <2> QED
    BY <2>1, <2>2, <2>3
<1>5. \A i \in 1 .. m : kids[p][i] \in D
  <2>1. ASSUME NEW i \in 1 .. m PROVE kids[p][i] \in D
    <3>1. CASE i = m
      <4>1. kids[p] # <<>> /\ Last(kids[p]) = kids[p][i]
        BY <1>2, <3>1, EmptySeq DEF Last
      <4> QED
        BY <1>1, <4>1
    <3>2. CASE i # m
      <4>1. i \in 1 .. Len(kids[p]) - 1
        BY <1>2, <3>2
      <4> QED
        BY <1>1, <4>1 DEF Way
    <3> QED
      BY <3>1, <3>2
  <2> QED
    BY <2>1
<1>6. \A y \in O \ {root} : parent[y] # p
  <2>1. ASSUME NEW y \in O \ {root}, parent[y] = p PROVE FALSE
    <3>1. kids[p] # <<>> /\ Last(kids[p]) = y
      BY <1>1, <2>1 DEF Way
    <3> QED
      BY <1>1, <3>1
  <2> QED
    BY <2>1
<1>7. \A y \in D \cup O : y \in live
  BY <1>1
<1> QED
  BY <1>1, <1>2, <1>3, <1>4, <1>5, <1>6, <1>7 DEF Extends, Grown

LEMMA ChangedExtends ==
  ASSUME NEW F, NEW H, NEW D, NEW O, NEW p, NEW x, TreeInv, Built(F, H, D, O), Waiting,
         p = ctxParent, x = ctxSetting, Changed(x)
  PROVE  /\ Extends(D, O, p, x, Len(kids[p]) - 1)
         /\ Len(kids[p]) - 1 \in Nat
         /\ kids[x] = <<>> /\ x \in live
<1> DEFINE n == Len(kids[p])
           m == n - 1
<1>1. /\ Way(F, H, D, O) /\ Done(F, D) /\ O \cap D = {} /\ D \in SUBSET live
      /\ O \in SUBSET live /\ p \in O /\ p \in live
  BY DEF Built, Way
<1>2. IInv /\ ShapeOK
  BY DEF TreeInv, ArrayInv, ShapeInv
<1>3. /\ x \in live /\ kids[p] # <<>> /\ x = Last(kids[p]) /\ type[x] = "NONE"
  BY DEF Waiting
<1>4. kids[p] \in Seq(Settings) /\ n \in Nat /\ n # 0 /\ DOMAIN kids[p] = 1 .. n
  BY <1>1, <1>2, <1>3, LenProperties, EmptySeq DEF IInv, TypeOK
<1>5. m \in Nat /\ m + 1 = n /\ kids[p][n] = x /\ n \in 1 .. n
  BY <1>3, <1>4 DEF Last
<1>6. kids[x] = <<>>
  BY <1>2, <1>3 DEF ShapeOK, Aggregates
<1>7. parent[x] = p
  <2>1. \A i \in DOMAIN kids[p] : parent[kids[p][i]] = p
    BY <1>1, <1>2 DEF IInv, TreeOK, ElementsAreLive
  <2> QED
    BY <1>4, <1>5, <2>1
<1>8. x \notin D \cup O
  BY <1>1, <1>3 DEF Done, Way, Aggregates
<1>9. \A i \in 1 .. m : kids[p][i] \in D
  BY <1>1 DEF Way
<1>10. \A y \in O \ {root} : parent[y] # p
  <2>1. ASSUME NEW y \in O \ {root}, parent[y] = p PROVE FALSE
    <3>1. Last(kids[p]) = y
      BY <1>1, <2>1 DEF Way
    <3> QED
      BY <1>3, <1>8, <3>1
  <2> QED
    BY <2>1
<1>11. \A y \in D \cup O : y \in live \ {x}
  BY <1>1, <1>8
<1>12. /\ root' = root /\ name' = name /\ parent' = parent /\ kids' = kids
       /\ \A y \in live \ {x} : type'[y] = type[y] /\ value'[y] = value[y] /\ format'[y] = format[y]
  BY DEF Changed
<1> HIDE DEF m, n
<1>13. Len(kids'[p]) = m + 1 /\ kids'[p][m + 1] = x
  BY <1>5, <1>12 DEF n
<1>14. Extends(D, O, p, x, m)
  BY <1>1, <1>3, <1>5, <1>6, <1>7, <1>8, <1>9, <1>10, <1>11, <1>12, <1>13 DEF Extends
<1> QED
  BY <1>3, <1>5, <1>6, <1>14 DEF m, n

LEMMA GrownNamed ==
  ASSUME IInv, Named, NEW p \in live, NEW x, Grown(p, x), type[p] = "GROUP" => name'[x] \in Names
  PROVE  Named'
<1>1. ASSUME NEW y \in live', type'[y] = "GROUP", NEW i \in DOMAIN kids'[y]
      PROVE  name'[kids'[y][i]] \in Names
  <2>1. CASE y = x
    BY <1>1, <2>1 DEF Grown
  <2>2. CASE y \in live \ {p}
    <3>1. kids'[y] = kids[y] /\ type[y] = "GROUP" /\ kids[y][i] \in live
      BY <1>1, <2>2 DEF Grown, IInv, TreeOK, ElementsAreLive
    <3> QED
      BY <1>1, <2>2, <3>1 DEF Named, Grown
  <2>3. CASE y = p
    <3> DEFINE u == Append(kids[p], x)
               m == Len(kids[p])
    <3>1. kids[p] \in Seq(Settings) /\ m \in Nat /\ DOMAIN kids[p] = 1 .. m /\ x \in Settings
      BY LenProperties DEF IInv, TypeOK, Grown
    <3>2. u \in Seq(Settings) /\ Len(u) = m + 1 /\ u[m + 1] = x /\ \A k \in 1 .. m : u[k] = kids[p][k]
      BY <3>1, AppendProperties
    <3> HIDE DEF u
    <3>3. DOMAIN u = 1 .. m + 1
      BY <3>2, LenProperties
    <3>4. kids'[y] = u
      BY <2>3 DEF Grown, u
    <3>5. type[p] = "GROUP"
      BY <1>1, <2>3 DEF Grown
    <3> HIDE DEF m
    <3>6. CASE i = m + 1
      BY <3>2, <3>4, <3>5, <3>6
    <3>7. CASE i # m + 1
      <4>1. i \in 1 .. m
        BY <1>1, <3>1, <3>3, <3>4, <3>7
      <4>2. kids'[y][i] = kids[p][i] /\ kids[p][i] \in live /\ name[kids[p][i]] \in Names
        BY <3>1, <3>2, <3>4, <3>5, <4>1 DEF Named, IInv, TreeOK, ElementsAreLive
      <4> QED
        BY <4>2 DEF Grown
    <3> QED
      BY <3>6, <3>7
  <2> QED
    BY <1>1, <2>1, <2>2, <2>3 DEF Grown
<1> QED
  BY <1>1 DEF Named

LEMMA ChangedNamed ==
  ASSUME Named, NEW x, Changed(x), kids[x] = <<>>
  PROVE  Named'
<1>1. ASSUME NEW y \in live', type'[y] = "GROUP", NEW i \in DOMAIN kids'[y]
      PROVE  name'[kids'[y][i]] \in Names
  <2>1. y # x /\ y \in live
    BY <1>1 DEF Changed
  <2> QED
    BY <1>1, <2>1 DEF Changed, Named
<1> QED
  BY <1>1 DEF Named

-----------------------------------------------------------------------------
(* The place of the next setting.                                          *)

(* In a list a comma at most is between what was read and the next value.  *)
LEMMA LedInList ==
  ASSUME NEW F, NEW H, NEW D, NEW O, NEW n, IInv, Built(F, H, D, O), TextsOK(F, H), ~IsWaiting,
         type[ctxParent] # "GROUP"
  PROVE  LET v == Led(F, H, ctxParent, Len(kids[ctxParent]), n)
         IN IsText(v) /\ Essence(v) = Essence(Reached(F, H)) /\ EndKind(v) # "STRING"
<1> DEFINE p == ctxParent
           m == Len(kids[p])
           u == Upto(F, H, p, m)
           v == Led(F, H, p, m, n)
<1>1. /\ Named /\ Way(F, H, D, O) /\ p \in O /\ p \in live /\ p \in Settings
      /\ type[root] = "GROUP"
  BY SettingAssumption DEF Built, Way, IInv, TypeOK, TreeOK, RootIsGroup
<1>2. kids[p] \in Seq(Settings) /\ m \in Nat /\ m \in 0 .. m
  BY <1>1, LenProperties DEF IInv, TypeOK
<1>3. IsText(u) /\ Reached(F, H) = u
  <2>1. Reached(F, H) = u
    BY Zenon DEF Reached
  <2> QED
    BY <1>1, <1>2, <2>1, UptoIsText
<1>4. v = Cat(u, Lead(type[p], n, m + 1))
  BY Zenon DEF Led
<1>5. /\ Cat(u, Lead(type[p], n, m + 1)) \in Seq(Vocabulary)
      /\ Essence(Cat(u, Lead(type[p], n, m + 1))) = Essence(u)
      /\ m + 1 # 1 => EndKind(Cat(u, Lead(type[p], n, m + 1))) # "STRING"
      /\ m + 1 = 1 => Cat(u, Lead(type[p], n, m + 1)) = u
  <2> DEFINE ty == type[p]
             i == m + 1
  <2>1. ty # "GROUP" /\ u \in Seq(Vocabulary)
    BY <1>3 DEF IsText
  <2> HIDE DEF ty, i, u
  <2>2. /\ Cat(u, Lead(ty, n, i)) \in Seq(Vocabulary)
        /\ Essence(Cat(u, Lead(ty, n, i))) = Essence(u)
        /\ i # 1 => EndKind(Cat(u, Lead(ty, n, i))) # "STRING"
        /\ i = 1 => Cat(u, Lead(ty, n, i)) = u
    BY <2>1, EssenceOfLead
  <2> QED
    BY <2>2 DEF ty, i
<1>6. EndKind(v) # "STRING"
  <2>1. CASE m + 1 # 1
    BY <1>4, <1>5, <2>1
  <2>2. CASE m + 1 = 1
    <3> DEFINE q == parent[p]
               k == Len(kids[q])
               w == Cat(Upto(F, H, q, k - 1), Lead(type[q], name[p], k))
               tok == Start(type[p])
    <3>1. /\ p \in O \ {root} /\ q \in O /\ kids[q] # <<>> /\ Last(kids[q]) = p
          /\ H[p] = OpenedAt(F, H, p) /\ type[p] \in Aggregates
      BY <1>1 DEF Way
    <3>2. m = 0
      BY <1>2, <2>2
    <3>3. u = H[p]
      <4>1. Items(type[p], kids[p], 0, name, F) = <<>>
        BY NoItems
      <4>2. u = Cat(H[p], <<>>)
        BY <3>2, <4>1 DEF Upto
      <4>3. H[p] \in Seq(Vocabulary)
        BY <1>1 DEF TextsOK
      <4> QED
        BY <4>2, <4>3, ConcatEmptySeq DEF Cat
    <3>4. H[p] = Cat(w, <<tok>>)
      BY <3>1, Zenon DEF OpenedAt
    <3>5. q \in live /\ kids[q] \in Seq(Settings) /\ k \in Nat /\ k # 0 /\ DOMAIN kids[q] = 1 .. k
      BY <1>1, <3>1, LenProperties, EmptySeq DEF Built, IInv, TypeOK
    <3>6. IsText(Upto(F, H, q, k - 1))
      <4>1. k - 1 \in 0 .. Len(kids[q])
        BY <3>5
      <4> QED
        BY <1>1, <3>5, <4>1, UptoIsText
    <3>7. w \in Seq(Vocabulary)
      <4>1. type[q] = "GROUP" => name[p] \in Names
        <5>1. k \in DOMAIN kids[q] /\ kids[q][k] = p
          BY <3>1, <3>5 DEF Last
        <5> QED
          BY <1>1, <3>5, <5>1 DEF Named
      <4> DEFINE up == Upto(F, H, q, k - 1)
      <4>2. up \in Seq(Vocabulary)
        BY <3>6 DEF IsText
      <4> HIDE DEF up
      <4>3. Cat(up, Lead(type[q], name[p], k)) \in Seq(Vocabulary)
        BY <4>1, <4>2, EssenceOfLead
      <4> QED
        BY <4>3 DEF up
    <3>8. tok \in Vocabulary /\ tok.kind = "START"
      BY <3>1, SignsAreTokens DEF Start
    <3> HIDE DEF w, tok
    <3>9. EndKind(Cat(w, <<tok>>)) = tok.kind
      BY <3>7, <3>8, EssenceOfOne
    <3> QED
      BY <1>4, <1>5, <2>2, <3>3, <3>4, <3>8, <3>9
  <2> QED
    BY <2>1, <2>2
<1> QED
  BY <1>3, <1>4, <1>5, <1>6 DEF IsText

(* In a group the name and the sign that precede the next value were read. *)
LEMMA LedInGroup ==
  ASSUME NEW F, NEW H, NEW D, NEW O, IInv, Built(F, H, D, O), TextsOK(F, H), IsWaiting, Waiting,
         type[ctxParent] = "GROUP"
  PROVE  LET v == Led(F, H, ctxParent, Len(kids[ctxParent]) - 1, name[ctxSetting])
         IN IsText(v) /\ v = Reached(F, H) /\ EndKind(v) # "STRING"
<1> DEFINE p == ctxParent
           n == Len(kids[p])
           u == Upto(F, H, p, n - 1)
           l == Lead("GROUP", name[ctxSetting], n)
<1>1. Named /\ p \in live
  BY DEF Built
<1>2. /\ kids[p] \in Seq(Settings) /\ n \in Nat /\ n # 0 /\ DOMAIN kids[p] = 1 .. n
      /\ (n - 1) + 1 = n /\ n - 1 \in 0 .. n /\ n \in 1 .. n
  BY <1>1, LenProperties, EmptySeq DEF IInv, TypeOK, Waiting
<1>3. name[ctxSetting] \in Names
  BY <1>1, <1>2 DEF Named, Waiting, Last
<1>4. u \in Seq(Vocabulary)
  BY <1>1, <1>2, UptoIsText DEF IsText
<1>5. Led(F, H, p, n - 1, name[ctxSetting]) = Cat(u, l)
  BY <1>2 DEF Led
<1>6. Reached(F, H) = Cat(u, l)
  BY Zenon DEF Reached
<1> HIDE DEF u
<1>7. Cat(u, l) \in Seq(Vocabulary) /\ EndKind(Cat(u, l)) # "STRING"
  BY <1>3, <1>4, EssenceOfLead
<1> QED
  BY <1>5, <1>6, <1>7 DEF IsText

(* After the step, what was built is that of a text with the essence e.    *)
GoesOn(e) ==
  \E F, H, D, O : /\ TextsOK(F, H) /\ Built(F, H, D, O)'
                  /\ IsText(Reached(F, H)') /\ Essence(Reached(F, H)') = e

(* The step gives its value to x, behind the m other settings of p.        *)
Ready(F, H, D, O, p, x, m) ==
  /\ TextsOK(F, H) /\ Built(F, H, D, O) /\ Extends(D, O, p, x, m) /\ Named'
  /\ D \cup O \cup {x} \in SUBSET live' /\ x \in Settings
  /\ LET v == Led(F, H, p, m, name'[x])
     IN IsText(v) /\ Essence(v) = Essence(Reached(F, H)) /\ EndKind(v) # "STRING"

LEMMA ReadyInList ==
  ASSUME NEW F, NEW H, NEW D, NEW O, NEW p, NEW x, IInv, Built(F, H, D, O), TextsOK(F, H),
         ~IsWaiting, p = ctxParent, type[p] # "GROUP", Grown(p, x)
  PROVE  Ready(F, H, D, O, p, x, Len(kids[p]))
<1>1. Named /\ p \in live /\ D \in SUBSET live /\ O \in SUBSET live
  BY DEF Built
<1>2. x \in Settings /\ D \cup O \cup {x} \in SUBSET live'
  BY <1>1 DEF Grown
<1>3. Extends(D, O, p, x, Len(kids[p]))
  BY GrownExtends
<1>4. Named'
  BY <1>1, GrownNamed
<1>5. LET v == Led(F, H, p, Len(kids[p]), name'[x])
      IN IsText(v) /\ Essence(v) = Essence(Reached(F, H)) /\ EndKind(v) # "STRING"
  BY LedInList
<1> QED
  BY <1>2, <1>3, <1>4, <1>5 DEF Ready

LEMMA ReadyInGroup ==
  ASSUME NEW F, NEW H, NEW D, NEW O, NEW p, NEW x, TreeInv, Built(F, H, D, O), TextsOK(F, H),
         IsWaiting, Waiting, p = ctxParent, type[p] = "GROUP", x = ctxSetting, Changed(x)
  PROVE  Ready(F, H, D, O, p, x, Len(kids[p]) - 1)
<1>1. Named /\ D \in SUBSET live /\ O \in SUBSET live /\ IInv
  BY TreeFacts DEF Built
<1>2. Extends(D, O, p, x, Len(kids[p]) - 1) /\ kids[x] = <<>> /\ x \in live
  BY ChangedExtends
<1>3. x \in Settings /\ D \cup O \cup {x} \in SUBSET live' /\ name'[x] = name[x]
  BY <1>1, <1>2 DEF Changed, IInv, TypeOK
<1>4. Named'
  BY <1>1, <1>2, ChangedNamed
<1>5. LET v == Led(F, H, p, Len(kids[p]) - 1, name'[x])
      IN IsText(v) /\ v = Reached(F, H) /\ EndKind(v) # "STRING"
  BY <1>1, <1>3, LedInGroup
<1> QED
  BY <1>2, <1>3, <1>4, <1>5 DEF Ready

LEMMA EssenceOfValue ==
  ASSUME NEW v, IsText(v), EndKind(v) # "STRING", NEW tok \in Vocabulary,
         Plain(tok) \/ tok.kind = "STRING", NEW t
  PROVE  /\ IsText(<<tok>>) /\ IsText(Cat(v, <<tok>>)) /\ IsText(Cat(Cat(v, <<tok>>), Trail(t)))
         /\ Essence(Cat(v, <<tok>>)) = Append(Essence(v), tok)
         /\ Essence(Cat(Cat(v, <<tok>>), Trail(t))) = Append(Essence(v), tok)
<1> DEFINE u == Cat(v, <<tok>>)
<1>1. v \in Seq(Vocabulary)
  BY DEF IsText
<1>2. /\ u \in Seq(Vocabulary)
      /\ Essence(u) = EssenceWith(Essence(v), EndKind(v), tok)
      /\ Plain(tok) => Essence(u) = Append(Essence(v), tok)
  BY <1>1, EssenceOfOne
<1> HIDE DEF u
<1>3. tok.kind = "STRING" => Essence(u) = Append(Essence(v), tok)
  BY <1>2 DEF EssenceWith
<1>4. Cat(u, Trail(t)) \in Seq(Vocabulary) /\ Essence(Cat(u, Trail(t))) = Essence(u)
  BY <1>2, EssenceOfTrail
<1>5. <<tok>> \in Seq(Vocabulary)
  OBVIOUS
<1> QED
  BY <1>2, <1>3, <1>4, <1>5 DEF IsText, u

LEMMA ValueRead ==
  ASSUME NEW F, NEW H, NEW D, NEW O, NEW p, NEW x, NEW m, Ready(F, H, D, O, p, x, m), IInv',
         NEW tok \in Vocabulary, Plain(tok) \/ tok.kind = "STRING",
         type'[x] \notin Aggregates \cup {"NONE"}, ScalarText(x)' = <<tok>>,
         ctxParent' = p, ~IsWaiting'
  PROVE  GoesOn(Append(Essence(Reached(F, H)), tok))
<1> DEFINE v == Led(F, H, p, m, name'[x])
           w == Cat(Cat(v, <<tok>>), Trail(type[p]))
           e == Append(Essence(Reached(F, H)), tok)
<1>1. IsText(v) /\ Essence(v) = Essence(Reached(F, H)) /\ EndKind(v) # "STRING"
  BY DEF Ready
<1>2. IsText(<<tok>>) /\ IsText(w) /\ Essence(w) = Append(Essence(v), tok)
  <2> HIDE DEF v
  <2> QED
    BY <1>1, EssenceOfValue
<1>3. Arrives(w)
  <2> DEFINE item == <<tok>>
  <2>1. IsText(item) /\ ScalarText(x)' = item
    BY <1>2
  <2> HIDE DEF item
  <2>2. /\ TextsOK(F, H) /\ Built(F, H, D, O) /\ Extends(D, O, p, x, m) /\ Named'
        /\ D \cup {x} \in SUBSET live' /\ O \in SUBSET live' /\ x \in Settings
    BY DEF Ready
  <2>3. Arrives(Cat(Cat(Led(F, H, p, m, name'[x]), item), Trail(type[p])))
    BY <2>1, <2>2, ValueGoesOn
  <2> QED
    BY <2>3 DEF item
<1>4. Essence(w) = e
  BY <1>1, <1>2
<1> HIDE DEF w, e
<1>5. GoesOn(e)
  BY <1>2, <1>3, <1>4 DEF GoesOn, Arrives
<1> QED
  BY <1>5 DEF e

LEMMA BracketRead ==
  ASSUME NEW F, NEW H, NEW D, NEW O, NEW p, NEW x, NEW m, Ready(F, H, D, O, p, x, m), IInv',
         type'[x] \in Aggregates, ctxParent' = x, ~IsWaiting'
  PROVE  GoesOn(Append(Essence(Reached(F, H)), Start(type'[x])))
<1> DEFINE v == Led(F, H, p, m, name'[x])
           tok == Start(type'[x])
           w == Cat(v, <<tok>>)
           e == Append(Essence(Reached(F, H)), tok)
<1>1. IsText(v) /\ Essence(v) = Essence(Reached(F, H)) /\ EndKind(v) # "STRING"
  BY DEF Ready
<1>2. tok \in Vocabulary /\ Plain(tok)
  BY SignsAreTokens DEF Start, Plain
<1>3. IsText(w) /\ Essence(w) = Append(Essence(v), tok)
  <2> HIDE DEF v, tok
  <2> QED
    BY <1>1, <1>2, EssenceOfValue
<1>4. Arrives(w)
  <2>1. /\ TextsOK(F, H) /\ Built(F, H, D, O) /\ Extends(D, O, p, x, m) /\ Named'
        /\ D \in SUBSET live' /\ O \cup {x} \in SUBSET live' /\ x \in Settings
    BY DEF Ready
  <2>2. Arrives(Cat(Led(F, H, p, m, name'[x]), <<Start(type'[x])>>))
    BY <1>1, <2>1, BracketGoesOn
  <2> QED
    BY <2>2
<1>5. Essence(w) = e
  BY <1>1, <1>3
<1> HIDE DEF w, e
<1>6. GoesOn(e)
  BY <1>3, <1>4, <1>5 DEF GoesOn, Arrives
<1> QED
  BY <1>6 DEF e

LEMMA EndRead ==
  ASSUME NEW F, NEW H, NEW D, NEW O, IInv, Built(F, H, D, O), TextsOK(F, H),
         IsText(Reached(F, H)), UNCHANGED vars, ctxParent # root,
         ctxParent' = parent[ctxParent], ~IsWaiting, ~IsWaiting'
  PROVE  GoesOn(Append(Essence(Reached(F, H)), End(type[ctxParent])))
<1> DEFINE v == Reached(F, H)
           tok == End(type[ctxParent])
           u == Cat(v, <<tok>>)
           w == Cat(u, Trail(type[parent[ctxParent]]))
           e == Append(Essence(v), tok)
<1>1. tok \in Vocabulary /\ Plain(tok)
  <2>1. type[ctxParent] \in Aggregates
    BY DEF Built, Way
  <2> QED
    BY <2>1, SignsAreTokens DEF End, Plain
<1>2. Arrives(w)
  <2>1. PICK x : x = ctxParent
    OBVIOUS
  <2>2. Arrives(Cat(Cat(Reached(F, H), <<End(type[x])>>), Trail(type[parent[x]])))
    BY <2>1, BracketEnds
  <2> QED
    BY <2>1, <2>2
<1>3. IsText(w) /\ Essence(w) = e
  <2> HIDE DEF v, tok
  <2>1. u \in Seq(Vocabulary) /\ Essence(u) = Append(Essence(v), tok)
    BY <1>1, EssenceOfOne DEF IsText, v
  <2> HIDE DEF u
  <2>2. w \in Seq(Vocabulary) /\ Essence(w) = Essence(u)
    BY <2>1, EssenceOfTrail
  <2> QED
    BY <2>1, <2>2 DEF IsText
<1> HIDE DEF w, e
<1>4. GoesOn(e)
  BY <1>2, <1>3 DEF GoesOn, Arrives
<1> QED
  BY <1>4 DEF e

LEMMA NameRead ==
  ASSUME NEW F, NEW H, NEW D, NEW O, NEW x, IInv, Built(F, H, D, O), TextsOK(F, H), ~IsWaiting,
         type[ctxParent] = "GROUP", Grown(ctxParent, x), name'[x] \in Names,
         ctxParent' = ctxParent, ctxSetting' = x, IsWaiting'
  PROVE  GoesOn(Append(Append(Essence(Reached(F, H)), Name(name'[x])), Sign("EQUALS")))
<1>1. PICK p : p = ctxParent
  OBVIOUS
<1> DEFINE m == Len(kids[p])
           u == Upto(F, H, p, m)
           v == Led(F, H, p, m, name'[x])
           e == Append(Append(Essence(Reached(F, H)), Name(name'[x])), Sign("EQUALS"))
<1>2. Named /\ p \in live /\ D \in SUBSET live /\ O \in SUBSET live
  BY <1>1 DEF Built
<1>3. Grown(p, x) /\ D \in SUBSET live' /\ O \in SUBSET live' /\ type[p] = "GROUP" /\ ctxParent' = p
  BY <1>1, <1>2 DEF Grown
<1>4. Extends(D, O, p, x, m)
  BY <1>1, <1>3, GrownExtends
<1>5. Named'
  BY <1>2, <1>3, GrownNamed
<1>6. Built(F, H, D, O)' /\ Reached(F, H)' = v
  <2>1. m = Len(kids[p])
    OBVIOUS
  <2> HIDE DEF m
  <2> QED
    BY <1>3, <1>4, <1>5, NameGoesOn
<1>7. u \in Seq(Vocabulary) /\ Reached(F, H) = u
  <2>1. kids[p] \in Seq(Settings) /\ m \in Nat /\ m \in 0 .. m
    BY <1>2, LenProperties DEF IInv, TypeOK
  <2>2. Reached(F, H) = u
    BY <1>1, Zenon DEF Reached
  <2> QED
    BY <1>2, <2>1, <2>2, UptoIsText DEF IsText
<1>8. v = Cat(u, Lead("GROUP", name'[x], m + 1))
  BY <1>3 DEF Led
<1>9. IsText(v) /\ Essence(v) = e
  <2> DEFINE i == m + 1
  <2> HIDE DEF u, i
  <2>1. /\ Cat(u, Lead("GROUP", name'[x], i)) \in Seq(Vocabulary)
        /\ Essence(Cat(u, Lead("GROUP", name'[x], i)))
             = Append(Append(Essence(u), Name(name'[x])), Sign("EQUALS"))
    BY <1>7, EssenceOfLead
  <2> QED
    BY <1>7, <1>8, <2>1 DEF IsText, i
<1> HIDE DEF v, e
<1>10. GoesOn(e)
  BY <1>6, <1>9 DEF GoesOn
<1> QED
  BY <1>10 DEF e

(* What was built is that of a text with the essence of what was read, but *)
(* for a sign that is due and a string that is not taken yet.              *)
Follows(v) ==
  /\ IsText(v)
  /\ expect = "equals" => Essence(v) = Append(Essence(text), Sign("EQUALS"))
  /\ expect = "string" => /\ ctxString \in Strings /\ EndKind(text) = "STRING"
                          /\ Essence(text) = Append(Essence(v), Quoted(ctxString))
  /\ expect \notin {"equals", "string"} => Essence(v) = Essence(text)
  /\ expect # "string" /\ EndKind(text) = "STRING" => look # NULL /\ look.kind # "STRING"

TextOf(F, H, D, O) == TextsOK(F, H) /\ Built(F, H, D, O) /\ Follows(Reached(F, H))
TextKnown == \E F, H, D, O : TextOf(F, H, D, O)

(* The next token is added to the text.                                    *)
LEMMA ShiftedText ==
  ASSUME InputOK, text \in Seq(Vocabulary), NEW tok \in NextTokens, Shift(tok)
  PROVE  /\ tok \in Vocabulary /\ text' \in Seq(Vocabulary)
         /\ Essence(text') = EssenceWith(Essence(text), EndKind(text), tok)
         /\ EndKind(text') = tok.kind
         /\ Plain(tok) => Essence(text') = Append(Essence(text), tok)
         /\ Blank(tok) => Essence(text') = Essence(text)
<1>1. tok \in Vocabulary
  BY TokensRead
<1> DEFINE u == Append(text, tok)
<1>2. u \in Seq(Vocabulary)
  BY <1>1, AppendProperties
<1>3. Essence(u) = EssenceWith(Essence(text), EndKind(text), tok) /\ EndKind(u) = tok.kind
  BY <1>1, EssenceGrows
<1>4. text' = u
  BY DEF Shift
<1> HIDE DEF u
<1> DEFINE s == Essence(text)
<1> HIDE DEF s
<1>5. Plain(tok) => EssenceWith(s, EndKind(text), tok) = Append(s, tok)
  BY DEF Plain, EssenceWith
<1>6. Blank(tok) => EssenceWith(s, EndKind(text), tok) = s
  BY DEF Blank, EssenceWith
<1> QED
  BY <1>1, <1>2, <1>3, <1>4, <1>5, <1>6 DEF s

LEMMA TextGoesOn ==
  ASSUME NEW e, GoesOn(e), expect' # "string",
         expect' = "equals" => e = Append(Essence(text'), Sign("EQUALS")),
         expect' # "equals" => e = Essence(text'),
         EndKind(text') = "STRING" => look' # NULL /\ look'.kind # "STRING"
  PROVE  TextKnown'
<1>1. PICK F, H, D, O : /\ TextsOK(F, H) /\ Built(F, H, D, O)'
                        /\ IsText(Reached(F, H)') /\ Essence(Reached(F, H)') = e
  BY DEF GoesOn
<1>2. Follows(Reached(F, H))'
  BY <1>1 DEF Follows
<1>3. TextOf(F, H, D, O)'
  BY <1>1, <1>2 DEF TextOf
<1> QED
  BY <1>3 DEF TextKnown

-----------------------------------------------------------------------------
(* What the code does is one of the ways.                                  *)

LEMMA ReshapeGrows ==
  ASSUME IInv, NEW p \in live, NEW x \in Settings \ live, NEW n, NEW t, NEW v, NEW f,
         Reshape({}, p, Append(kids[p], x), {x}, n, t, v, f), UNCHANGED config
  PROVE  /\ Grown(p, x) /\ Last(kids'[p]) = x
         /\ name'[x] = n /\ type'[x] = t /\ value'[x] = v /\ format'[x] = f
<1>1. p \in Settings /\ p # x /\ live \subseteq Settings /\ kids[p] \in Seq(Settings)
  BY DEF IInv, TypeOK
<1>2. /\ live' = live \cup {x} /\ root' = root
      /\ \A y \in live : /\ name'[y] = name[y] /\ type'[y] = type[y] /\ value'[y] = value[y]
                         /\ format'[y] = format[y] /\ parent'[y] = parent[y]
      /\ \A y \in live \ {p} : kids'[y] = kids[y]
      /\ parent'[x] = p /\ kids'[x] = <<>> /\ kids'[p] = Append(kids[p], x)
      /\ name'[x] = n /\ type'[x] = t /\ value'[x] = v /\ format'[x] = f
  BY <1>1 DEF Reshape, config
<1>3. Last(kids'[p]) = x
  BY <1>1, <1>2, LastOfAppend
<1> QED
  BY <1>2, <1>3 DEF Grown

LEMMA AddGrows ==
  ASSUME IInv, NEW p \in live, NEW n, NEW t, MayAdd(p, n, t), ConfigSettingAdd(p, n, t),
         GetMember(p, GivenName(p, n)) = NULL
  PROVE  /\ Grown(p, Last(kids'[p]))
         /\ name'[Last(kids'[p])] = GivenName(p, n) /\ type'[Last(kids'[p])] = t
<1> DEFINE m == GivenName(p, n)
           old == GetMember(p, m)
           dead == IF old = NULL THEN {} ELSE Subtree(old)
           rest == IF old = NULL THEN kids[p] ELSE RemoveAt(kids[p], Position(p, m))
<1>1. old = NULL
  OBVIOUS
<1>2. PICK c \in Settings \ (live \ dead) :
        /\ Reshape(dead, p, Append(rest, c), {c}, m, t, ZeroOf(t), "DEFAULT")
        /\ UNCHANGED config
  BY Zenon DEF ConfigSettingAdd, Rebuild
<1>3. dead = {} /\ rest = kids[p]
  BY <1>1
<1> HIDE DEF m, old, dead, rest
<1>4. c \in Settings \ live /\ Reshape({}, p, Append(kids[p], c), {c}, m, t, ZeroOf(t), "DEFAULT")
  BY <1>2, <1>3
<1>5. Grown(p, c) /\ Last(kids'[p]) = c /\ name'[c] = m /\ type'[c] = t
  BY <1>2, <1>4, ReshapeGrows
<1> QED
  BY <1>5 DEF m

LEMMA StoredFirst ==
  ASSUME NEW t \in ScalarTypes, NEW v, NEW auto
  PROVE  Stored(t, "NONE", v, auto) = {<<t, v>>}
BY DEF Stored, SetInt, SetInt64, SetFloat, SetBool, SetString, ScalarTypes

(* What is written of the scalar that a token made.                        *)
Writes(tok, item) ==
  \A x : type'[x] = tok.type /\ value'[x] = tok.value /\ format'[x] = FormatAfter(tok, "DEFAULT")
           => ScalarText(x)' = <<item>>

LEMMA ScalarRead ==
  ASSUME ParseInv, ParseInv', phase = "reading", phase' = "reading",
         NEW F, NEW H, NEW D, NEW O, TextsOK(F, H), Built(F, H, D, O),
         expect \in ValueExpected \cup {"string"},
         NEW tok, tok.type \in ScalarTypes, StoreValue(tok),
         NEW item \in Vocabulary, Plain(item) \/ item.kind = "STRING", Writes(tok, item)
  PROVE  GoesOn(Append(Essence(Reached(F, H)), item))
<1> DEFINE p == ctxParent
<1>1. /\ TreeInv /\ IInv /\ IInv' /\ TypeOK /\ ValuesFit /\ StackOK /\ Located
      /\ ctxParent' = ctxParent /\ ctxSetting' = ctxSetting /\ open' = open
  <2>1. IInv /\ TypeOK /\ ValuesFit
    BY TreeFacts DEF ParseInv
  <2>2. IInv'
    BY DEF ParseInv, TreeInv, ArrayInv, ShapeInv
  <2> QED
    BY <2>1, <2>2 DEF ParseInv, StoreValue, Return, stack
<1>2. /\ p \in live /\ type[p] = Enclosing
      /\ InArray <=> Enclosing = "ARRAY"
      /\ InList <=> Enclosing = "LIST"
  BY ParentIs
<1>3. ((InArray \/ InList) => ok') /\ expect' = AfterValue(Enclosing)
  BY DEF StoreValue, Return
<1>4. ~IsWaiting'
  BY <1>3 DEF IsWaiting, AfterValue
<1>5. tok.type \notin Aggregates \cup {"NONE"}
  BY DEF ScalarTypes, Aggregates
<1>6. CASE InArray \/ InList
  <2>1. /\ ~Refuse
        /\ \E c \in Settings \ live :
              Reshape({}, p, Append(kids[p], c), {c}, NULL,
                      tok.type, tok.value, FormatAfter(tok, "DEFAULT"))
        /\ UNCHANGED config
    BY <1>3, <1>6 DEF StoreValue, AppendValue, Refuse, Answer
  <2>2. PICK c \in Settings \ live :
          Reshape({}, p, Append(kids[p], c), {c}, NULL,
                  tok.type, tok.value, FormatAfter(tok, "DEFAULT"))
    BY <2>1
  <2>3. /\ Grown(p, c) /\ type'[c] = tok.type /\ value'[c] = tok.value
        /\ format'[c] = FormatAfter(tok, "DEFAULT")
    BY <1>1, <1>2, <2>1, <2>2, ReshapeGrows
  <2>4. type[p] # "GROUP" /\ ~IsWaiting
    BY <1>1, <1>2, <1>6 DEF IsWaiting, StackOK, ValueExpected
  <2>5. Ready(F, H, D, O, p, c, Len(kids[p]))
    BY <1>1, <2>3, <2>4, ReadyInList
  <2>6. ScalarText(c)' = <<item>>
    BY <2>3 DEF Writes
  <2> QED
    BY <1>1, <1>4, <1>5, <2>3, <2>5, <2>6, ValueRead
<1>7. CASE ~(InArray \/ InList)
  <2>1. Enclosing = "GROUP"
    <3>1. open # <<>> => Head(open) \in Aggregates
      BY <1>1, EmptySeq DEF StackOK
    <3> QED
      BY <1>2, <1>7, <3>1 DEF Enclosing, Aggregates
  <2>2. IsWaiting /\ Waiting
    BY <1>1, <2>1 DEF IsWaiting, StackOK, ValueExpected, Located
  <2>11. PICK s : s = ctxSetting
    OBVIOUS
  <2> DEFINE auto == "AUTOCONVERT" \in opts
             results == Stored(tok.type, type[s], tok.value, auto)
  <2>3. s \in live /\ s \in Settings /\ type[s] = "NONE" /\ format[s] = "DEFAULT"
    <3>1. s \in live /\ type[s] = "NONE"
      BY <2>2, <2>11 DEF Waiting
    <3> QED
      BY <1>1, <3>1 DEF ValuesFit, TypeOK
  <2>4. results = {<<tok.type, tok.value>>}
    BY <2>3, StoredFirst
  <2>5. PICK r \in results :
          /\ type' = [type EXCEPT ![s] = r[1]]
          /\ value' = [value EXCEPT ![s] = r[2]]
          /\ format' = [format EXCEPT ![s] = FormatAfter(tok, @)]
          /\ UNCHANGED <<live, name, parent, hook, kids, config, finalized>>
    <3>1. results # {}
      <4> HIDE DEF results
      <4> QED
        BY <2>4
    <3> QED
      BY <1>7, <2>11, <3>1, Zenon DEF StoreValue, AssignValue
  <2> HIDE DEF results
  <2>6. r[1] = tok.type /\ r[2] = tok.value
    BY <2>4
  <2>7. /\ type'[s] = tok.type /\ value'[s] = tok.value
        /\ format'[s] = FormatAfter(tok, "DEFAULT")
    BY <1>1, <2>3, <2>5, <2>6 DEF TypeOK
  <2>8. Changed(s)
    BY <1>1, <2>3, <2>5 DEF Changed, TypeOK, config
  <2>9. Ready(F, H, D, O, p, s, Len(kids[p]) - 1)
    BY <1>1, <1>2, <2>1, <2>2, <2>8, <2>11, ReadyInGroup
  <2>10. ScalarText(s)' = <<item>>
    BY <2>7 DEF Writes
  <2> QED
    BY <1>1, <1>4, <1>5, <2>7, <2>9, <2>10, ValueRead
<1> QED
  BY <1>6, <1>7

-----------------------------------------------------------------------------
(* The steps of a read.                                                    *)

Reading ==
  /\ ParseInv /\ phase = "reading"
  /\ text \in Seq(Vocabulary) /\ TextKnown

LEMMA TokenRead ==
  ASSUME Reading, NEW tok \in NextTokens, Shift(tok)
  PROVE  /\ text' \in Seq(Vocabulary) /\ tok \in Vocabulary
         /\ IsToken(tok) \/ tok = Sign("EOF")
         /\ Plain(tok) => Essence(text') = Append(Essence(text), tok)
         /\ Blank(tok) => Essence(text') = Essence(text)
         /\ EndKind(text') = tok.kind
         /\ InputOK /\ StackOK /\ Located /\ TreeInv /\ IInv
<1>1. InputOK /\ StackOK /\ Located /\ TreeInv /\ IInv /\ text \in Seq(Vocabulary)
  BY TreeFacts DEF Reading, ParseInv
<1>2. /\ text' \in Seq(Vocabulary) /\ tok \in Vocabulary
      /\ Plain(tok) => Essence(text') = Append(Essence(text), tok)
      /\ Blank(tok) => Essence(text') = Essence(text)
      /\ EndKind(text') = tok.kind
  BY <1>1, ShiftedText
<1> QED
  BY <1>1, <1>2, TokensRead

LEMMA SameTextGoesOn ==
  ASSUME NEW F, NEW H, NEW D, NEW O, TextsOK(F, H), Built(F, H, D, O), IsText(Reached(F, H)),
         UNCHANGED vars, ctxParent' = ctxParent, ctxSetting' = ctxSetting,
         IsWaiting' <=> IsWaiting
  PROVE  GoesOn(Essence(Reached(F, H)))
<1>1. Built(F, H, D, O)' /\ Reached(F, H)' = Reached(F, H)
  BY NothingGoesOn
<1> DEFINE v == Reached(F, H)
           e == Essence(v)
<1>2. IsText(Reached(F, H)') /\ Essence(Reached(F, H)') = e
  BY <1>1
<1> HIDE DEF e
<1>3. GoesOn(e)
  BY <1>1, <1>2 DEF GoesOn
<1> QED
  BY <1>3 DEF e

LEMMA ParseNameText ==
  ASSUME Reading, NEW tok \in NextTokens, ParseName(tok), phase' = "reading",
         GetMember(ctxParent, tok.name) = NULL
  PROVE  TextKnown'
<1>1. /\ Shift(tok) /\ Allowed(tok) /\ tok.kind = "NAME"
      /\ ConfigSettingAdd(ctxParent, tok.name, "NONE") /\ ctxParent' = ctxParent
      /\ phase = "reading" /\ ParseInv
  BY DEF ParseName, Reading
<1>2. /\ Plain(tok) => Essence(text') = Append(Essence(text), tok)
      /\ EndKind(text') = "NAME"
      /\ IsToken(tok) \/ tok = Sign("EOF")
      /\ StackOK /\ IInv
  BY <1>1, TokenRead
<1>3. tok.name \in Names /\ tok = Name(tok.name) /\ Plain(tok)
  BY <1>1, <1>2 DEF IsToken, Sign, Name, Plain
<1>4. ok' /\ ctxSetting' = Last(kids'[ctxParent]) /\ expect' = "equals"
  BY DEF ParseName, Return
<1>5. MayAdd(ctxParent, tok.name, "NONE")
  BY <1>1, <1>4 DEF ConfigSettingAdd, Refuse, Answer
<1>6. Enclosing = "GROUP" /\ ~IsWaiting /\ expect \in SettingExpected
  BY <1>1, <1>2 DEF Allowed, StartsValue, SettingExpected, StackOK, IsWaiting
<1>7. ctxParent \in live /\ type[ctxParent] = "GROUP"
  BY <1>1, <1>6, ParentIs
<1>8. GivenName(ctxParent, tok.name) = tok.name
  BY <1>7 DEF GivenName
<1>9. Grown(ctxParent, ctxSetting') /\ name'[ctxSetting'] = tok.name
  BY <1>1, <1>2, <1>4, <1>5, <1>7, <1>8, AddGrows
<1>10. PICK F, H, D, O : TextOf(F, H, D, O)
  BY DEF Reading, TextKnown
<1>11. /\ TextsOK(F, H) /\ Built(F, H, D, O) /\ Essence(Reached(F, H)) = Essence(text)
  BY <1>6, <1>10 DEF TextOf, Follows, SettingExpected
<1>12. IsWaiting'
  BY <1>4 DEF IsWaiting
<1>13. PICK x : x = ctxSetting'
  OBVIOUS
<1> DEFINE e == Append(Append(Essence(Reached(F, H)), Name(name'[x])), Sign("EQUALS"))
<1>14. GoesOn(e)
  BY <1>1, <1>2, <1>3, <1>6, <1>7, <1>9, <1>11, <1>12, <1>13, NameRead
<1>15. e = Append(Essence(text'), Sign("EQUALS"))
  BY <1>2, <1>3, <1>9, <1>11, <1>13
<1> HIDE DEF e
<1> QED
  BY <1>2, <1>4, <1>14, <1>15, TextGoesOn

LEMMA ParseEqualsText ==
  ASSUME Reading, NEW tok \in NextTokens, ParseEquals(tok) PROVE TextKnown'
<1>1. /\ Shift(tok) /\ Allowed(tok) /\ tok.kind = "EQUALS" /\ expect' = "value"
      /\ UNCHANGED vars /\ ctxParent' = ctxParent /\ ctxSetting' = ctxSetting
  BY DEF ParseEquals, context
<1>2. /\ Plain(tok) => Essence(text') = Append(Essence(text), tok)
      /\ EndKind(text') = "EQUALS"
      /\ IsToken(tok) \/ tok = Sign("EOF")
  BY <1>1, TokenRead
<1>3. tok = Sign("EQUALS") /\ Plain(tok)
  BY <1>1, <1>2 DEF IsToken, Sign, Plain
<1>4. expect = "equals" /\ IsWaiting /\ IsWaiting'
  BY <1>1 DEF Allowed, StartsValue, IsWaiting
<1>5. PICK F, H, D, O : TextOf(F, H, D, O)
  BY DEF Reading, TextKnown
<1>6. /\ TextsOK(F, H) /\ Built(F, H, D, O) /\ IsText(Reached(F, H))
      /\ Essence(Reached(F, H)) = Append(Essence(text), Sign("EQUALS"))
  BY <1>4, <1>5 DEF TextOf, Follows
<1> DEFINE e == Essence(Reached(F, H))
<1>7. GoesOn(e)
  BY <1>1, <1>4, <1>6, SameTextGoesOn
<1>8. e = Essence(text')
  BY <1>2, <1>3, <1>6
<1> HIDE DEF e
<1> QED
  BY <1>1, <1>2, <1>7, <1>8, TextGoesOn

LEMMA ParseSeparatorText ==
  ASSUME Reading, NEW tok \in NextTokens, ParseSeparator(tok) PROVE TextKnown'
<1>1. /\ Shift(tok) /\ Allowed(tok) /\ tok.kind \in {"COMMA", "SEMICOLON"}
      /\ expect' \in {"setting", "element"}
      /\ UNCHANGED vars /\ ctxParent' = ctxParent /\ ctxSetting' = ctxSetting
  BY DEF ParseSeparator, context
<1>2. Essence(text') = Essence(text) /\ EndKind(text') # "STRING"
  BY <1>1, TokenRead DEF Blank
<1>3. expect \in {"terminator", "comma", "element"} /\ ~IsWaiting /\ ~IsWaiting'
  BY <1>1 DEF Allowed, StartsValue, IsWaiting
<1>4. PICK F, H, D, O : TextOf(F, H, D, O)
  BY DEF Reading, TextKnown
<1>5. /\ TextsOK(F, H) /\ Built(F, H, D, O) /\ IsText(Reached(F, H))
      /\ Essence(Reached(F, H)) = Essence(text)
  BY <1>3, <1>4 DEF TextOf, Follows
<1> DEFINE e == Essence(Reached(F, H))
<1>6. GoesOn(e)
  BY <1>1, <1>3, <1>5, SameTextGoesOn
<1>7. e = Essence(text')
  BY <1>2, <1>5
<1> HIDE DEF e
<1> QED
  BY <1>1, <1>2, <1>6, <1>7, TextGoesOn

LEMMA ParseEofText ==
  ASSUME Reading, NEW tok \in NextTokens, ParseEof(tok)
  PROVE  /\ TextKnown' /\ ctxParent' = root' /\ ~IsWaiting'
         /\ expect' \notin {"equals", "string"}
<1>1. /\ Shift(tok) /\ Allowed(tok) /\ tok.kind = "EOF" /\ expect' = expect /\ open' = open
      /\ UNCHANGED vars /\ ctxParent' = ctxParent /\ ctxSetting' = ctxSetting
  BY DEF ParseEof, context, Return, stack
<1>2. /\ Essence(text') = Essence(text) /\ EndKind(text') # "STRING"
      /\ Located /\ StackOK
  BY <1>1, TokenRead DEF Blank
<1>3. expect \in {"setting", "terminator", "end"} /\ open = <<>> /\ ~IsWaiting /\ ~IsWaiting'
  BY <1>1 DEF Allowed, StartsValue, IsWaiting, SettingExpected
<1>4. PICK F, H, D, O : TextOf(F, H, D, O)
  BY DEF Reading, TextKnown
<1>5. /\ TextsOK(F, H) /\ Built(F, H, D, O) /\ IsText(Reached(F, H))
      /\ Essence(Reached(F, H)) = Essence(text)
  BY <1>3, <1>4 DEF TextOf, Follows
<1> DEFINE e == Essence(Reached(F, H))
<1>6. GoesOn(e)
  BY <1>1, <1>3, <1>5, SameTextGoesOn
<1>7. e = Essence(text')
  BY <1>2, <1>5
<1> HIDE DEF e
<1>8. TextKnown'
  BY <1>1, <1>2, <1>3, <1>6, <1>7, TextGoesOn
<1>9. ctxParent = root
  <2> DEFINE o == open
  <2>1. PICK up \in [1 .. Len(o) + 1 -> live] : WayUp(up, ctxParent, o, type, parent, root)
    BY <1>2 DEF Located, Up
  <2>2. Len(o) = 0
    BY <1>3
  <2>3. up[1] = ctxParent /\ up[0 + 1] = root
    BY <2>1, <2>2 DEF WayUp
  <2> QED
    BY <2>3
<1> QED
  BY <1>1, <1>3, <1>8, <1>9 DEF vars

LEMMA ParseStartText ==
  ASSUME Reading, NEW tok \in NextTokens, ParseStart(tok), ParseInv' PROVE TextKnown'
<1>1. /\ Shift(tok) /\ Allowed(tok) /\ tok.kind = "START" /\ ParseInv
      /\ expect' = IF tok.of = "GROUP" THEN "setting" ELSE "first"
      /\ phase = "reading"
  BY DEF ParseStart, Reading
<1>2. /\ Plain(tok) => Essence(text') = Append(Essence(text), tok)
      /\ EndKind(text') = "START"
      /\ IsToken(tok) \/ tok = Sign("EOF")
      /\ StackOK /\ Located /\ TreeInv /\ IInv
  BY <1>1, TokenRead
<1>3. tok = Start(tok.of) /\ tok.of \in Aggregates /\ Plain(tok)
  BY <1>1, <1>2 DEF IsToken, Sign, Start, Plain
<1>4. /\ ctxParent \in live /\ type[ctxParent] = Enclosing
      /\ InList <=> Enclosing = "LIST"
  BY <1>1, ParentIs
<1>5. /\ Enclosing # "ARRAY" /\ expect \in {"value", "first", "element"}
      /\ Enclosing \in Aggregates
  <2>1. open # <<>> => Head(open) \in Aggregates
    BY <1>2, EmptySeq DEF StackOK
  <2> QED
    BY <1>1, <2>1 DEF Allowed, StartsValue, ValueExpected, Enclosing, Aggregates
<1>6. PICK F, H, D, O : TextOf(F, H, D, O)
  BY DEF Reading, TextKnown
<1>7. /\ TextsOK(F, H) /\ Built(F, H, D, O) /\ Essence(Reached(F, H)) = Essence(text)
  BY <1>5, <1>6 DEF TextOf, Follows
<1>8. ~IsWaiting' /\ expect' \notin {"string", "equals"}
  BY <1>1 DEF IsWaiting
<1>9. IInv'
  BY DEF ParseInv, TreeInv, ArrayInv, ShapeInv
<1> DEFINE e == Append(Essence(Reached(F, H)), tok)
<1>10. CASE InList
  <2>1. /\ ConfigSettingAdd(ctxParent, NULL, tok.of)
        /\ ctxParent' = Last(kids'[ctxParent])
    BY <1>10 DEF ParseStart
  <2>2. MayAdd(ctxParent, NULL, tok.of)
    BY <1>3, <1>4, <1>10, ParserAssumption
       DEF MayAdd, Types, GivenName, GetMember, Aggregates
  <2>10. GetMember(ctxParent, GivenName(ctxParent, NULL)) = NULL
    BY <1>4, <1>10 DEF GetMember
  <2>3. Grown(ctxParent, ctxParent') /\ type'[ctxParent'] = tok.of
    BY <1>1, <1>2, <1>4, <2>1, <2>2, <2>10, AddGrows
  <2>4. ~IsWaiting /\ type[ctxParent] # "GROUP"
    BY <1>2, <1>4, <1>5, <1>10 DEF IsWaiting, StackOK
  <2>5. PICK p, x : p = ctxParent /\ x = ctxParent'
    OBVIOUS
  <2>6. Ready(F, H, D, O, p, x, Len(kids[p]))
    BY <1>2, <1>7, <2>3, <2>4, <2>5, ReadyInList
  <2>7. GoesOn(Append(Essence(Reached(F, H)), Start(type'[x])))
    BY <1>3, <1>8, <1>9, <2>3, <2>5, <2>6, BracketRead
  <2> QED
    BY <1>1, <1>2, <1>3, <1>7, <1>8, <2>3, <2>5, <2>7, TextGoesOn
<1>11. CASE ~InList
  <2>1. Enclosing = "GROUP" /\ Waiting /\ IsWaiting
    BY <1>2, <1>4, <1>5, <1>11 DEF StackOK, Located, Aggregates, IsWaiting
  <2>2. PICK p, x : p = ctxParent /\ x = ctxSetting
    OBVIOUS
  <2>3. /\ type' = [type EXCEPT ![x] = tok.of] /\ ctxParent' = x
        /\ UNCHANGED <<live, name, value, format, parent, kids, config>>
    BY <1>11, <2>2 DEF ParseStart
  <2>4. Changed(x) /\ type'[x] = tok.of
    BY <1>2, <2>1, <2>2, <2>3 DEF Changed, config, IInv, TypeOK, Waiting
  <2>5. Ready(F, H, D, O, p, x, Len(kids[p]) - 1)
    BY <1>2, <1>4, <1>7, <2>1, <2>2, <2>4, ReadyInGroup
  <2>6. GoesOn(Append(Essence(Reached(F, H)), Start(type'[x])))
    BY <1>3, <1>8, <1>9, <2>3, <2>4, <2>5, BracketRead
  <2> QED
    BY <1>1, <1>2, <1>3, <1>7, <1>8, <2>4, <2>6, TextGoesOn
<1> QED
  BY <1>10, <1>11

LEMMA ParseEndText ==
  ASSUME Reading, NEW tok \in NextTokens, ParseEnd(tok) PROVE TextKnown'
<1>1. /\ Shift(tok) /\ Allowed(tok) /\ tok.kind = "END" /\ UNCHANGED vars
      /\ expect' = AfterValue(Enclosing') /\ ParseInv /\ phase = "reading"
  BY DEF ParseEnd, Reading
<1>2. /\ Plain(tok) => Essence(text') = Append(Essence(text), tok)
      /\ EndKind(text') = "END"
      /\ IsToken(tok) \/ tok = Sign("EOF")
      /\ StackOK /\ Located /\ IInv
  BY <1>1, TokenRead
<1>3. tok = End(tok.of) /\ Plain(tok)
  BY <1>1, <1>2 DEF IsToken, Sign, End, Plain
<1>4. /\ ctxParent \in live /\ ctxParent # NULL /\ type[ctxParent] = Enclosing
  BY <1>1, ParentIs
<1>5. /\ open # <<>> /\ Enclosing = tok.of
      /\ expect \in SettingExpected \cup {"end", "first", "element", "comma"}
  BY <1>1 DEF Allowed, StartsValue
<1>6. ctxParent' = parent[ctxParent]
  BY <1>4 DEF ParseEnd
<1>7. ctxParent # root
  <2>1. Up(parent[ctxParent], Tail(open), live, type, parent, root)
    BY <1>2, <1>5, UpPopped DEF Located, StackOK
  <2>2. Tail(open) \in Seq(Aggregates)
    BY <1>2, <1>5, EmptySeq DEF StackOK
  <2>3. parent[ctxParent] \in live
    BY <2>1, <2>2, UpStarts
  <2> QED
    BY <2>3, <1>2, <1>4, SettingAssumption DEF IInv, TypeOK, TreeOK, OnlyRootIsLoose
<1>8. ~IsWaiting /\ ~IsWaiting' /\ expect' \notin {"string", "equals"}
  BY <1>1, <1>5 DEF IsWaiting, AfterValue, SettingExpected
<1>9. PICK F, H, D, O : TextOf(F, H, D, O)
  BY DEF Reading, TextKnown
<1>10. /\ TextsOK(F, H) /\ Built(F, H, D, O) /\ Essence(Reached(F, H)) = Essence(text)
       /\ IsText(Reached(F, H))
  BY <1>5, <1>9 DEF TextOf, Follows, SettingExpected
<1>11. GoesOn(Append(Essence(Reached(F, H)), End(type[ctxParent])))
  BY <1>1, <1>2, <1>6, <1>7, <1>8, <1>10, EndRead
<1> QED
  BY <1>1, <1>2, <1>3, <1>4, <1>5, <1>8, <1>10, <1>11, TextGoesOn

LEMMA ScalarIsWritten ==
  ASSUME NEW tok \in Vocabulary, tok.kind = "SCALAR", IsToken(tok)
  PROVE  \E item \in Vocabulary : /\ Plain(item) /\ Writes(tok, item)
                                  /\ \A v, k : EssenceWith(v, k, tok) = Append(v, item)
<1> DEFINE item == IF tok.format = "OCT" THEN [tok EXCEPT !.format = "DEFAULT"] ELSE tok
<1>1. /\ tok = Scalar(tok.type, tok.value, tok.format)
      /\ tok.type \in ScalarTypes \ {"STRING"} /\ tok.format \in AllFormats
      /\ tok.type = "BOOL" => tok.value \in {0, 1}
      /\ tok.type \notin {"INT", "INT64"} => tok.format = "DEFAULT"
  BY DEF IsToken
<1>2. /\ [tok EXCEPT !.format = "DEFAULT"] = Scalar(tok.type, tok.value, "DEFAULT")
      /\ tok.format = "OCT" => [tok EXCEPT !.format = "DEFAULT"] \in Vocabulary
  BY KindsOfTokens
<1>3. item = Scalar(tok.type, tok.value, FormatAfter(tok, "DEFAULT"))
  BY <1>1, <1>2 DEF FormatAfter, FormatsTaken, AllFormats
<1>4. item \in Vocabulary
  BY <1>2
<1>5. Plain(item)
  BY <1>3 DEF Plain, Scalar, FormatAfter, FormatsTaken
<1>6. ASSUME NEW v, NEW k PROVE EssenceWith(v, k, tok) = Append(v, item)
  BY DEF EssenceWith
<1> HIDE DEF item
<1>7. ASSUME NEW x, type'[x] = tok.type, value'[x] = tok.value,
             format'[x] = FormatAfter(tok, "DEFAULT")
      PROVE  ScalarText(x)' = <<item>>
  <2>1. CASE tok.type = "BOOL"
    <3>1. FormatAfter(tok, "DEFAULT") = "DEFAULT"
      BY <2>1 DEF FormatAfter
    <3>2. ScalarText(x)' = <<Scalar("BOOL", tok.value, "DEFAULT")>>
      BY <1>1, <1>7, <2>1 DEF ScalarText
    <3> QED
      BY <1>3, <2>1, <3>1, <3>2
  <2>2. CASE tok.type \notin {"BOOL", "STRING", "NONE"}
    BY <1>3, <1>7, <2>2 DEF ScalarText
  <2> QED
    BY <1>1, <2>1, <2>2 DEF ScalarTypes
<1>8. Writes(tok, item)
  BY <1>7 DEF Writes
<1> QED
  BY <1>4, <1>5, <1>6, <1>8

LEMMA ParseScalarText ==
  ASSUME Reading, NEW tok \in NextTokens, ParseScalar(tok), ParseInv', phase' = "reading"
  PROVE  TextKnown'
<1>1. /\ Shift(tok) /\ Allowed(tok) /\ tok.kind = "SCALAR" /\ StoreValue(tok)
      /\ ParseInv /\ phase = "reading" /\ text \in Seq(Vocabulary)
  BY DEF ParseScalar, Reading
<1>2. /\ EndKind(text') = "SCALAR" /\ tok \in Vocabulary /\ InputOK
      /\ IsToken(tok) \/ tok = Sign("EOF")
  BY <1>1, TokenRead
<1>3. IsToken(tok) /\ tok.type \in ScalarTypes
  BY <1>1, <1>2 DEF IsToken, Sign
<1>4. Essence(text') = EssenceWith(Essence(text), EndKind(text), tok)
  BY <1>1, <1>2, ShiftedText
<1>5. PICK item \in Vocabulary : /\ Plain(item) /\ Writes(tok, item)
                                 /\ \A v, k : EssenceWith(v, k, tok) = Append(v, item)
  BY <1>1, <1>2, <1>3, ScalarIsWritten
<1>6. expect \in ValueExpected
  BY <1>1 DEF Allowed, StartsValue
<1>7. expect' = AfterValue(Enclosing)
  BY <1>1 DEF StoreValue, Return
<1>8. PICK F, H, D, O : TextOf(F, H, D, O)
  BY DEF Reading, TextKnown
<1>9. /\ TextsOK(F, H) /\ Built(F, H, D, O) /\ Essence(Reached(F, H)) = Essence(text)
  BY <1>6, <1>8 DEF TextOf, Follows, ValueExpected
<1>10. GoesOn(Append(Essence(Reached(F, H)), item))
  BY <1>1, <1>3, <1>5, <1>6, <1>9, ScalarRead
<1>11. Essence(text') = Append(Essence(Reached(F, H)), item)
  BY <1>4, <1>5, <1>9
<1>12. expect' \notin {"string", "equals"}
  BY <1>7 DEF AfterValue
<1> QED
  BY <1>2, <1>10, <1>11, <1>12, TextGoesOn

LEMMA TakeStringText ==
  ASSUME Reading, TakeString, ParseInv', phase' = "reading" PROVE TextKnown'
<1>1. /\ expect = "string" /\ text' = text /\ StoreValue(Quoted(ctxString))
      /\ ParseInv /\ phase = "reading" /\ text \in Seq(Vocabulary) /\ InputOK
  BY DEF TakeString, Reading, ParseInv
<1>2. PICK tok \in NextTokens : tok.kind # "STRING" /\ look' = tok
  BY DEF TakeString
<1>3. look' # NULL /\ look'.kind # "STRING"
  BY <1>1, <1>2, TokensRead
<1>4. PICK F, H, D, O : TextOf(F, H, D, O)
  BY DEF Reading, TextKnown
<1>5. /\ TextsOK(F, H) /\ Built(F, H, D, O) /\ ctxString \in Strings
      /\ Essence(text) = Append(Essence(Reached(F, H)), Quoted(ctxString))
  BY <1>1, <1>4 DEF TextOf, Follows
<1>6. PICK s : s = ctxString
  OBVIOUS
<1> DEFINE q == Quoted(s)
<1>7. q \in Vocabulary /\ q.kind = "STRING" /\ q.value = s
  BY <1>5, <1>6, QuotedIsToken
<1>8. q.type = "STRING" /\ q.type \in ScalarTypes
  BY DEF Quoted, Scalar, ScalarTypes
<1>9. s # NULL
  BY <1>5, <1>6, ParserAssumption
<1> HIDE DEF q
<1>10. Writes(q, q)
  <2>1. ASSUME NEW x, type'[x] = "STRING", value'[x] = s PROVE ScalarText(x)' = <<q>>
    BY <1>9, <2>1 DEF ScalarText, q
  <2> QED
    BY <1>7, <1>8, <2>1 DEF Writes
<1>11. StoreValue(q)
  BY <1>1, <1>6 DEF q
<1>12. GoesOn(Append(Essence(Reached(F, H)), q))
  BY <1>1, <1>5, <1>7, <1>8, <1>10, <1>11, ScalarRead
<1>13. Essence(text') = Append(Essence(Reached(F, H)), q)
  BY <1>1, <1>5, <1>6 DEF q
<1>14. expect' \notin {"string", "equals"}
  BY <1>1 DEF StoreValue, Return, AfterValue
<1> QED
  BY <1>3, <1>12, <1>13, <1>14, TextGoesOn

LEMMA ParseStringText ==
  ASSUME Reading, NEW tok \in NextTokens, ParseString(tok) PROVE TextKnown'
<1>1. /\ Shift(tok) /\ Allowed(tok) /\ tok.kind = "STRING" /\ expect' = "string"
      /\ UNCHANGED vars /\ ctxParent' = ctxParent /\ ctxSetting' = ctxSetting /\ open' = open
      /\ ctxString' = IF ctxString = NULL THEN tok.value ELSE Joined[<<ctxString, tok.value>>]
      /\ text \in Seq(Vocabulary)
  BY DEF ParseString, Reading
<1>2. /\ EndKind(text') = "STRING" /\ tok \in Vocabulary /\ InputOK /\ StackOK
  BY <1>1, TokenRead
<1>3. Essence(text') = EssenceWith(Essence(text), EndKind(text), tok)
  BY <1>1, <1>2, ShiftedText
<1>4. tok.value \in Strings /\ tok = Quoted(tok.value)
  BY <1>1, <1>2, KindsOfTokens
<1>5. expect \in ValueExpected \cup {"string"}
  BY <1>1 DEF Allowed, StartsValue
<1>6. IsWaiting' <=> IsWaiting
  BY <1>1, <1>2, <1>5 DEF IsWaiting, StackOK, ValueExpected, Enclosing
<1>7. PICK F, H, D, O : TextOf(F, H, D, O)
  BY DEF Reading, TextKnown
<1>8. TextsOK(F, H) /\ Built(F, H, D, O) /\ IsText(Reached(F, H))
  BY <1>7 DEF TextOf, Follows
<1>9. Built(F, H, D, O)' /\ Reached(F, H)' = Reached(F, H)
  BY <1>1, <1>6, <1>8, NothingGoesOn
<1> DEFINE v == Essence(Reached(F, H))
<1>10. v \in Seq(Vocabulary)
  BY <1>8, EssenceIsSeq DEF IsText
<1>11. ctxString' \in Strings /\ Essence(text') = Append(v, Quoted(ctxString'))
  <2>1. CASE expect # "string"
    <3>1. ctxString = NULL /\ v = Essence(text)
      BY <1>2, <1>5, <1>7, <2>1 DEF InputOK, TextOf, Follows, ValueExpected
    <3>2. EndKind(text) # "STRING"
      <4>1. look # NULL => tok = look
        BY <1>2, TokensRead
      <4> QED
        BY <1>1, <1>7, <2>1, <4>1 DEF TextOf, Follows
    <3> HIDE DEF v
    <3>3. EssenceWith(v, EndKind(text), tok) = Append(v, tok)
      BY <1>1, <3>2 DEF EssenceWith
    <3> QED
      BY <1>1, <1>3, <1>4, <3>1, <3>3
  <2>2. CASE expect = "string"
    <3>1. /\ ctxString \in Strings /\ EndKind(text) = "STRING"
          /\ Essence(text) = Append(v, Quoted(ctxString))
      BY <1>7, <2>2 DEF TextOf, Follows
    <3>2. /\ ctxString # NULL /\ ctxString' = Joined[<<ctxString, tok.value>>]
          /\ ctxString' \in Strings
      BY <1>1, <1>4, <3>1, ParserAssumption
    <3> HIDE DEF v
    <3>3. Quoted(ctxString) \in Vocabulary /\ Quoted(ctxString).value = ctxString
      BY <3>1, QuotedIsToken
    <3> DEFINE q == Quoted(ctxString)
               u == Append(v, q)
    <3>4. Front(u) = v /\ Last(u).value = ctxString
      BY <1>10, <3>3, FrontOfAppend
    <3> HIDE DEF u
    <3>5. EssenceWith(u, "STRING", tok)
            = Append(Front(u), Quoted(Joined[Last(u).value, tok.value]))
      BY <1>1 DEF EssenceWith
    <3> QED
      BY <1>3, <3>1, <3>2, <3>4, <3>5 DEF u
  <2> QED
    BY <2>1, <2>2
<1> HIDE DEF v
<1>12. Essence(Reached(F, H)') = v
  BY <1>9 DEF v
<1>13. Follows(Reached(F, H))'
  BY <1>1, <1>2, <1>8, <1>9, <1>11, <1>12 DEF Follows
<1>14. TextOf(F, H, D, O)'
  BY <1>8, <1>9, <1>13 DEF TextOf
<1> QED
  BY <1>14 DEF TextKnown

LEMMA CatEmpty ==
  /\ Cat(<<>>, <<>>) = <<>>
  /\ \A v \in Seq(Vocabulary) : Cat(<<>>, v) = v
<1>1. <<>> \in Seq(Vocabulary)
  OBVIOUS
<1>2. \A v \in Seq(Vocabulary) : <<>> \o v = v
  BY ConcatEmptySeq
<1> QED
  BY <1>1, <1>2 DEF Cat

(* A read begins with the root alone and nothing read.                     *)
LEMMA StartReadText ==
  ASSUME ParseInv, NEW w, StartRead(w) PROVE text' \in Seq(Vocabulary) /\ TextKnown'
<1>1. TreeInv /\ ConfigClear /\ TypeOK
  BY TreeFacts DEF ParseInv, StartRead
<1>2. PICK r \in Settings : /\ root' = r /\ live' = {r}
                            /\ kids'[r] = <<>> /\ type'[r] = "GROUP"
  <2>1. PICK r \in Settings \ (live \ Subtree(root)) :
          Rebuild(Subtree(root), NULL, <<>>, {r}, NULL, "GROUP", NULL) /\ root' = r
    BY <1>1 DEF ConfigClear, NewRoot
  <2>2. kids'[r] = <<>> /\ type'[r] = "GROUP"
    BY <2>1 DEF Rebuild, Reshape
  <2> QED
    BY <1>1, <2>1, <2>2, ClearedIsRoot
<1>3. /\ ctxParent' = r /\ text' = <<>> /\ expect' = "setting" /\ ~IsWaiting'
  BY <1>2 DEF StartRead, IsWaiting
<1> DEFINE nil == <<>>
           F == [s \in Settings |-> nil]
           D == {}
           O == {r}
<1>4. nil \in Seq(Vocabulary) /\ text' = nil
  BY <1>3
<1>5. TextsOK(F, F) /\ F[r] = <<>>
  <2> HIDE DEF nil
  <2>1. F \in [Settings -> Seq(Vocabulary)] /\ F[r] = nil
    BY <1>4
  <2> QED
    BY <2>1 DEF TextsOK, nil
<1> HIDE DEF F
<1>6. Len(kids'[r]) = 0 /\ DOMAIN kids'[r] = {}
  <2>1. Len(<<>>) = 0 /\ DOMAIN <<>> = {}
    OBVIOUS
  <2> QED
    BY <1>2, <2>1
<1>7. Named'
  BY <1>2, <1>6 DEF Named
<1>8. Way(F, F, D, O)'
  <2>1. \A i : i \notin 1 .. 0 - 1
    OBVIOUS
  <2> QED
    BY <1>2, <1>5, <1>6, <2>1 DEF Way, Aggregates
<1>9. Built(F, F, D, O)'
  BY <1>2, <1>3, <1>7, <1>8 DEF Built, Done
<1>10. Reached(F, F)' = <<>>
  <2>1. Items(type'[r], kids'[r], 0, name', F) = <<>>
    BY NoItems
  <2>2. Upto(F, F, r, 0)' = Cat(F[r], Items(type'[r], kids'[r], 0, name', F))
    BY DEF Upto
  <2>3. Upto(F, F, r, 0)' = <<>>
    BY <1>5, <2>1, <2>2, CatEmpty
  <2>4. Reached(F, F)' = Upto(F, F, r, 0)'
    BY <1>3, <1>6, Zenon DEF Reached
  <2> QED
    BY <2>3, <2>4
<1>11. Essence(nil) = nil /\ EndKind(nil) = "NONE"
  <2>1. DOMAIN <<>> = {}
    OBVIOUS
  <2> QED
    BY <2>1, EmptyEssence DEF EndKind, KindOf
<1>12. Reached(F, F)' = nil
  BY <1>10
<1> HIDE DEF nil, D, O
<1>13. Essence(Reached(F, F)') = nil /\ IsText(Reached(F, F)')
  BY <1>4, <1>11, <1>12 DEF IsText
<1>14. GoesOn(nil)
  BY <1>5, <1>9, <1>13 DEF GoesOn
<1>15. EndKind(text') # "STRING" /\ nil = Essence(text')
  BY <1>4, <1>11
<1> QED
  BY <1>3, <1>4, <1>14, <1>15, TextGoesOn

LEMMA TextStutters ==
  ASSUME UNCHANGED <<vars, context, stack, input>>, TextKnown PROVE TextKnown'
<1>1. PICK F, H, D, O : TextOf(F, H, D, O)
  BY DEF TextKnown
<1>2. TextsOK(F, H) /\ Built(F, H, D, O) /\ Follows(Reached(F, H))
  BY <1>1 DEF TextOf
<1>3. /\ ctxParent' = ctxParent /\ ctxSetting' = ctxSetting /\ ctxString' = ctxString
      /\ expect' = expect /\ open' = open /\ look' = look /\ text' = text /\ UNCHANGED vars
  BY DEF context, stack, input
<1>4. IsWaiting' <=> IsWaiting
  BY <1>3 DEF IsWaiting, Enclosing
<1>5. Built(F, H, D, O)' /\ Reached(F, H)' = Reached(F, H)
  BY <1>2, <1>3, <1>4, NothingGoesOn
<1>6. Follows(Reached(F, H))'
  BY <1>2, <1>3, <1>5 DEF Follows
<1>7. TextOf(F, H, D, O)'
  BY <1>2, <1>5, <1>6 DEF TextOf
<1> QED
  BY <1>7 DEF TextKnown

-----------------------------------------------------------------------------
(* A text that was written, as the tree w it was made of: the elements of  *)
(* each node, and the text of each, with semicolons or without.            *)

(* What is left of the text of x behind its m-th element is g[m], if e is  *)
(* what is behind the last one.                                            *)
Leads(w, x, g, e) ==
  LET t == w.type[x]
      ks == w.kids[x]
  IN /\ \A m \in 0 .. Len(ks) : g[m] \in Seq(Vocabulary)
     /\ g[Len(ks)] = e
     /\ \A m \in 1 .. Len(ks) :
          g[m - 1] = Cat(Lead(t, w.name[ks[m]], m),
                         Cat(w.text[ks[m]], Cat(Ending(t, w.semicolons), g[m])))

IsLeaf(w, x) ==
  \E tok \in Vocabulary : /\ w.text[x] = <<tok>> /\ tok.kind \in {"SCALAR", "STRING"}
                          /\ tok.type = w.type[x]

IsBranch(w, x) ==
  LET t == w.type[x]
      ks == w.kids[x]
  IN /\ ks \in Seq(w.nodes \ {w.root})
     /\ t = "GROUP" => /\ \A i \in 1 .. Len(ks) : w.name[ks[i]] \in Names
                       /\ \A i, j \in 1 .. Len(ks) :
                            w.name[ks[i]] = w.name[ks[j]] => i = j
     /\ t = "ARRAY" => \A i, j \in 1 .. Len(ks) : /\ w.type[ks[i]] \notin Aggregates
                                                  /\ w.type[ks[i]] = w.type[ks[j]]
     /\ \E g : Leads(w, x, g, <<End(t)>>) /\ w.text[x] = Cat(<<Start(t)>>, g[0])

IsSource(w) ==
  /\ w.semicolons \in BOOLEAN
  /\ w.root \in w.nodes /\ w.type[w.root] = "GROUP"
  /\ \A x \in w.nodes : /\ w.text[x] \in Seq(Vocabulary)
                        /\ w.type[x] \in Aggregates => IsBranch(w, x)
                        /\ w.type[x] \notin Aggregates => IsLeaf(w, x)

(* The texts of a sequence from the m-th on, with e behind the last.       *)
LEMMA Unwinds ==
  ASSUME NEW S, NEW s \in Seq(Seq(S)), NEW e \in Seq(S)
  PROVE  \E g \in [0 .. Len(s) -> Seq(S)] :
           /\ g[Len(s)] = e
           /\ \A m \in 1 .. Len(s) : g[m - 1] = Cat(s[m], g[m])
           /\ g[0] = Cat(FlattenSeq(s), e)
<1> DEFINE N == Len(s)
           V == Seq(S)
           h == JoinedUpTo(s)
           all == Cat(FlattenSeq(s), e)
           OK(k, u) == /\ u \in V /\ Cat(h[k], u) = all
           Tails(k, g) == /\ \A m \in k .. N : g[m] \in V
                          /\ g[N] = e
                          /\ \A m \in k + 1 .. N : g[m - 1] = Cat(s[m], g[m])
                          /\ Cat(h[k], g[k]) = all
           I == {k \in 0 .. N : \E g : Tails(k, g)}
<1>1. N \in Nat /\ \A m \in 1 .. N : s[m] \in V
  BY LenProperties, ElementOfSeq
<1>2. h \in [0 .. N -> V] /\ Joins(h, s) /\ FlattenSeq(s) = h[N]
  BY FlattenJoins
<1>3. h[0] = <<>> /\ \A k \in 1 .. N : h[k] = Cat(h[k - 1], s[k])
  BY <1>2 DEF Joins, Cat
<1> HIDE DEF h, N
<1>4. N \in I
  <2> DEFINE g == [m \in {N} |-> e]
  <2>1. Tails(N, g)
    BY <1>1, <1>2 
  <2> HIDE DEF g, Tails
  <2> QED
    BY <1>1, <2>1
<1>5. PICK k \in I : \A j \in I : k <= j
  <2>1. I \in SUBSET Nat
    BY <1>1
  <2> HIDE DEF I
  <2> QED
    BY <1>4, <2>1, LeastNatural
<1>6. k \in 0 .. N /\ \E g : Tails(k, g)
  BY <1>5
<1>7. PICK g : Tails(k, g)
  BY <1>6
<1>8. k = 0
  <2> SUFFICES ASSUME k # 0 PROVE FALSE
    OBVIOUS
  <2>1. k \in 1 .. N /\ k - 1 \in 0 .. N /\ k \in k .. N /\ (k - 1) + 1 = k
    BY <1>1, <1>6
  <2> DEFINE u == Cat(s[k], g[k])
             g2 == [m \in k - 1 .. N |-> IF m = k - 1 THEN u ELSE g[m]]
  <2>2. s[k] \in V /\ g[k] \in V /\ h[k - 1] \in V
    BY <1>1, <1>2, <1>7, <2>1
  <2>3. u \in V
    BY <2>2, CatIsSeq
  <2>4. Cat(h[k - 1], u) = all
    <3>1. Cat(Cat(h[k - 1], s[k]), g[k]) = Cat(h[k - 1], Cat(s[k], g[k]))
      BY <2>2, CatAssociates
    <3>2. Cat(h[k - 1], s[k]) = h[k]
      BY <1>3, <2>1
    <3> QED
      BY <1>7, <3>1, <3>2
  <2> HIDE DEF u
  <2>5. \A m \in k - 1 .. N : /\ m = k - 1 \/ m \in k .. N
                              /\ g2[m] = IF m = k - 1 THEN u ELSE g[m]
    BY <2>1, <1>6
  <2>6. /\ g2[k - 1] = u /\ \A m \in k .. N : m # k - 1 /\ g2[m] = g[m]
    BY <1>1, <1>6, <2>1
  <2> HIDE DEF g2, all
  <2>7. Tails(k - 1, g2)
    <3>1. \A m \in k - 1 .. N : g2[m] \in V
      BY <1>7, <2>3, <2>5, <2>6
    <3>2. g2[N] = e
      <4>1. N \in k .. N
        BY <1>1, <1>6
      <4> QED
        BY <1>7, <2>6, <4>1
    <3>3. ASSUME NEW m \in (k - 1) + 1 .. N PROVE g2[m - 1] = Cat(s[m], g2[m])
      <4>1. CASE m = k
        BY <2>1, <2>6, <4>1 DEF u
      <4>2. CASE m # k
        <5>1. m \in k + 1 .. N /\ m \in k .. N /\ m - 1 \in k .. N
          BY <1>1, <1>6, <4>2
        <5>2. g[m - 1] = Cat(s[m], g[m])
          BY <1>7, <5>1
        <5> QED
          BY <2>6, <5>1, <5>2
      <4> QED
        BY <4>1, <4>2
    <3> QED
      BY <2>4, <2>6, <3>1, <3>2, <3>3
  <2> HIDE DEF Tails
  <2>8. k - 1 \in I
    BY <2>1, <2>7
  <2> HIDE DEF I
  <2> QED
    BY <1>5, <1>6, <2>1, <2>8
<1> DEFINE f == [m \in 0 .. N |-> g[m]]
<1>9. /\ \A m \in 0 .. N : g[m] \in V
      /\ g[N] = e
      /\ \A m \in 1 .. N : g[m - 1] = Cat(s[m], g[m])
      /\ Cat(h[0], g[0]) = all
  <2> HIDE DEF all
  <2>1. 0 + 1 = 1
    OBVIOUS
  <2> QED
    BY <1>7, <1>8, <2>1
<1>10. f \in [0 .. N -> V] /\ \A m \in 0 .. N : f[m] = g[m]
  BY <1>9
<1> HIDE DEF f
<1>11. g[0] = all
  <2>1. g[0] \in V /\ h[0] = <<>>
    BY <1>1, <1>3, <1>9
  <2>2. <<>> \o g[0] = g[0]
    BY <2>1, ConcatEmptySeq
  <2> QED
    BY <1>9, <2>1, <2>2 DEF Cat
<1>12. \A m \in 1 .. N : m \in 0 .. N /\ m - 1 \in 0 .. N
  BY <1>1
<1>13. N \in 0 .. N /\ 0 \in 0 .. N
  BY <1>1
<1>14. /\ f[N] = e /\ f[0] = Cat(FlattenSeq(s), e)
       /\ \A m \in 1 .. N : f[m - 1] = Cat(s[m], f[m])
  BY <1>9, <1>10, <1>11, <1>12, <1>13
<1> QED
  BY <1>10, <1>14 DEF N

(* What is left of the text of a node.                                     *)
LEMMA LeadsExist ==
  ASSUME NEW w, NEW x, NEW e \in Seq(Vocabulary), w.semicolons \in BOOLEAN,
         Writable(w.type[x], w.kids[x], Len(w.kids[x]), w.name, w.text)
  PROVE  \E g : /\ Leads(w, x, g, e)
                /\ g[0] = Cat(FlattenSeq(Parts(w.type[x], w.kids[x], w.name, w.text,
                                               w.semicolons)), e)
<1> DEFINE t == w.type[x]
           ks == w.kids[x]
           N == Len(ks)
           s == Parts(t, ks, w.name, w.text, w.semicolons)
           V == Seq(Vocabulary)
<1>1. /\ s \in Seq(V) /\ Len(s) = N /\ N \in Nat
      /\ \A i \in 1 .. N : Ending(t, w.semicolons) \in V
  BY PartsAreTexts DEF Writable
<1>2. \A m \in 1 .. N :
        s[m] = Cat(Cat(Lead(t, w.name[ks[m]], m), w.text[ks[m]]), Ending(t, w.semicolons))
  BY DEF Parts, Part, Cat
<1> HIDE DEF s, V
<1>3. PICK g \in [0 .. Len(s) -> V] :
        /\ g[Len(s)] = e
        /\ \A m \in 1 .. Len(s) : g[m - 1] = Cat(s[m], g[m])
        /\ g[0] = Cat(FlattenSeq(s), e)
  BY <1>1, Unwinds DEF V
<1>4. ASSUME NEW m \in 1 .. N
      PROVE  g[m - 1] = Cat(Lead(t, w.name[ks[m]], m),
                            Cat(w.text[ks[m]], Cat(Ending(t, w.semicolons), g[m])))
  <2>1. PICK l, y, z, u : /\ l = Lead(t, w.name[ks[m]], m) /\ y = w.text[ks[m]]
                          /\ z = Ending(t, w.semicolons) /\ u = g[m]
    OBVIOUS
  <2>2. l \in V /\ y \in V /\ z \in V /\ u \in V
    <3>1. y \in V /\ l \in V
      BY <1>4, <2>1, LeadIsText DEF Writable, V
    <3>2. m \in 0 .. Len(s)
      BY <1>1, <1>4
    <3> QED
      BY <1>1, <1>3, <2>1, <3>1, <3>2
  <2>3. g[m - 1] = Cat(Cat(Cat(l, y), z), u)
    BY <1>1, <1>2, <1>3, <1>4, <2>1
  <2>4. /\ Cat(Cat(Cat(l, y), z), u) = Cat(Cat(l, y), Cat(z, u))
        /\ Cat(Cat(l, y), Cat(z, u)) = Cat(l, Cat(y, Cat(z, u)))
    BY <2>2, CatIsSeq, CatAssociates DEF V
  <2> QED
    BY <2>1, <2>3, <2>4
<1>5. Leads(w, x, g, e)
  BY <1>1, <1>3, <1>4 DEF Leads, V
<1> QED
  BY <1>3, <1>5 DEF s

(* The same when there is more behind it.                                  *)
LEMMA LeadsFurther ==
  ASSUME NEW w, NEW x, NEW g, NEW e, NEW z \in Seq(Vocabulary), Leads(w, x, g, e),
         w.semicolons \in BOOLEAN, Writable(w.type[x], w.kids[x], Len(w.kids[x]), w.name, w.text)
  PROVE  Leads(w, x, [m \in 0 .. Len(w.kids[x]) |-> Cat(g[m], z)], Cat(e, z))
<1> DEFINE t == w.type[x]
           ks == w.kids[x]
           N == Len(ks)
           V == Seq(Vocabulary)
           f == [m \in 0 .. N |-> Cat(g[m], z)]
           lead(m) == Lead(t, w.name[ks[m]], m)
           end == Ending(t, w.semicolons)
<1>1. N \in Nat /\ (\A m \in 1 .. N : end \in V)
  BY PartsAreTexts DEF Writable
<1>2. /\ \A m \in 0 .. N : g[m] \in V
      /\ g[N] = e
      /\ \A m \in 1 .. N : g[m - 1] = Cat(lead(m), Cat(w.text[ks[m]], Cat(end, g[m])))
  BY DEF Leads
<1>3. \A m \in 1 .. N : lead(m) \in V /\ w.text[ks[m]] \in V
  BY LeadIsText DEF Writable
<1> HIDE DEF lead, end, V
<1>4. \A m \in 0 .. N : f[m] = Cat(g[m], z) /\ f[m] \in V
  BY <1>2, CatIsSeq DEF V
<1>5. \A m \in 1 .. N : m \in 0 .. N /\ m - 1 \in 0 .. N
  BY <1>1
<1>6. N \in 0 .. N
  BY <1>1
<1> HIDE DEF f
<1>7. ASSUME NEW m \in 1 .. N
      PROVE  f[m - 1] = Cat(lead(m), Cat(w.text[ks[m]], Cat(end, f[m])))
  <2>1. PICK l, y, n, u : l = lead(m) /\ y = w.text[ks[m]] /\ n = end /\ u = g[m]
    OBVIOUS
  <2>2. l \in V /\ y \in V /\ n \in V /\ u \in V /\ z \in V
    BY <1>1, <1>2, <1>3, <1>5, <1>7, <2>1 DEF V
  <2>3. /\ Cat(Cat(l, Cat(y, Cat(n, u))), z) = Cat(l, Cat(Cat(y, Cat(n, u)), z))
        /\ Cat(Cat(y, Cat(n, u)), z) = Cat(y, Cat(Cat(n, u), z))
        /\ Cat(Cat(n, u), z) = Cat(n, Cat(u, z))
    <3>1. Cat(n, u) \in V
      BY <2>2, CatIsSeq DEF V
    <3>2. Cat(y, Cat(n, u)) \in V
      BY <2>2, <3>1, CatIsSeq DEF V
    <3>3. Cat(Cat(l, Cat(y, Cat(n, u))), z) = Cat(l, Cat(Cat(y, Cat(n, u)), z))
      BY <2>2, <3>2, CatAssociates DEF V
    <3>4. Cat(Cat(y, Cat(n, u)), z) = Cat(y, Cat(Cat(n, u), z))
      BY <2>2, <3>1, CatAssociates DEF V
    <3>5. Cat(Cat(n, u), z) = Cat(n, Cat(u, z))
      BY <2>2, CatAssociates DEF V
    <3> QED
      BY <3>3, <3>4, <3>5
  <2>4. f[m - 1] = Cat(g[m - 1], z) /\ f[m] = Cat(g[m], z)
    BY <1>4, <1>5, <1>7
  <2> QED
    BY <1>2, <1>7, <2>1, <2>3, <2>4
<1>8. f[N] = Cat(e, z)
  BY <1>2, <1>4, <1>6
<1>9. Leads(w, x, f, Cat(e, z))
  BY <1>4, <1>7, <1>8 DEF Leads, lead, end, V
<1> QED
  BY <1>9 DEF f

LEMMA BranchIsWritable ==
  ASSUME NEW w, IsSource(w), NEW x \in w.nodes, w.type[x] \in Aggregates
  PROVE  /\ Writable(w.type[x], w.kids[x], Len(w.kids[x]), w.name, w.text)
         /\ w.kids[x] \in Seq(w.nodes) /\ Len(w.kids[x]) \in Nat
         /\ \A i \in 1 .. Len(w.kids[x]) : w.kids[x][i] \in w.nodes
<1>1. IsBranch(w, x)
  BY DEF IsSource
<1> DEFINE ks == w.kids[x]
<1>2. ks \in Seq(w.nodes \ {w.root})
  BY <1>1 DEF IsBranch
<1>3. /\ Len(ks) \in Nat /\ \A i \in 1 .. Len(ks) : ks[i] \in w.nodes \ {w.root}
  BY <1>2, LenProperties, ElementOfSeq
<1>4. ks \in Seq(w.nodes)
  <2> HIDE DEF ks
  <2>1. \A i \in 1 .. Len(ks) : ks[i] \in w.nodes
    BY <1>3
  <2>2. ks = [i \in 1 .. Len(ks) |-> ks[i]]
    BY <1>2
  <2> QED
    BY <1>2, <1>3, <2>1, <2>2
<1>5. w.type[x] = "GROUP" => \A i \in 1 .. Len(ks) : w.name[ks[i]] \in Names
  BY <1>1 DEF IsBranch
<1>6. \A i \in 1 .. Len(ks) : w.text[ks[i]] \in Seq(Vocabulary)
  BY <1>3 DEF IsSource
<1> QED
  BY <1>3, <1>4, <1>5, <1>6 DEF Writable

(* The tree of an accepted text is the source of what is written of it.    *)
TreeAsSource(F, s) ==
  [root |-> root, nodes |-> live, kids |-> kids, type |-> type, name |-> name,
   text |-> F, semicolons |-> s]

LEMMA TreeIsSource ==
  ASSUME TreeInv, root \in live, Named, \A x \in live : type[x] # "NONE",
         NEW F \in [Settings -> Seq(Vocabulary)], NEW s \in BOOLEAN,
         \A x \in live : IsTextOf(x, F, s)
  PROVE  IsSource(TreeAsSource(F, s))
<1>1. PICK w : w = TreeAsSource(F, s)
  OBVIOUS
<1>2. /\ w.root = root /\ w.nodes = live /\ w.kids = kids /\ w.type = type /\ w.name = name
      /\ w.text = F /\ w.semicolons = s
  BY <1>1 DEF TreeAsSource
<1>3. IInv /\ TypeOK /\ TreeOK /\ ValuesFit
  BY TreeFacts
<1>4. ShapeOK /\ ArraysAreHomogeneous
  BY DEF TreeInv, ArrayInv, ShapeInv
<1>5. type[root] = "GROUP" /\ live \subseteq Settings
  BY <1>3, SettingAssumption DEF TreeOK, RootIsGroup, TypeOK
<1>6. \A x \in live : F[x] \in Seq(Vocabulary)
  BY <1>5
<1>7. ASSUME NEW x \in live, type[x] \notin Aggregates PROVE IsLeaf(w, x)
  <2>1. F[x] = ScalarText(x)
    BY <1>7 DEF IsTextOf
  <2>2. PICK tok \in AllTokens :
          ScalarText(x) = <<tok>> /\ tok.kind \in {"SCALAR", "STRING"} /\ tok.type = type[x]
    BY <1>3, <1>7, ScalarTextIsToken
  <2>3. tok \in Vocabulary
    BY DEF Vocabulary
  <2> QED
    BY <1>2, <2>1, <2>2, <2>3 DEF IsLeaf
<1>8. ASSUME NEW x \in live, type[x] \in Aggregates PROVE IsBranch(w, x)
  <2> DEFINE ks == kids[x]
             N == Len(ks)
             t == type[x]
             D == live \ {root}
  <2>1. /\ Writable(t, ks, N, name, F) /\ N \in Nat
        /\ ks \in Seq(Settings) /\ DOMAIN ks = 1 .. N
    BY <1>3, BodyIsWritable DEF Writable
  <2>2. \A i \in 1 .. N : ks[i] \in live /\ parent[ks[i]] = x
    BY <1>3, <2>1 DEF TreeOK, ElementsAreLive
  <2>3. x # NULL /\ parent[root] = NULL
    BY <1>3, <1>5, SettingAssumption DEF TreeOK, OnlyRootIsLoose
  <2>4. ks \in Seq(D)
    <3>1. \A i \in 1 .. N : ks[i] \in D
      BY <2>2, <2>3
    <3>2. ks = [i \in 1 .. N |-> ks[i]]
      BY <2>1
    <3>3. PICK k, m : k = ks /\ m = N
      OBVIOUS
    <3> HIDE DEF ks, D, N
    <3>4. m \in Nat /\ k = [i \in 1 .. m |-> k[i]] /\ \A i \in 1 .. m : k[i] \in D
      BY <2>1, <3>1, <3>2, <3>3
    <3>5. k \in Seq(D)
      BY <3>4
    <3> QED
      BY <3>3, <3>5
  <2>5. ASSUME t = "GROUP"
        PROVE  /\ \A i \in 1 .. N : name[ks[i]] \in Names
               /\ \A i, j \in 1 .. N : name[ks[i]] = name[ks[j]] => i = j
    <3>1. \A i \in 1 .. N : name[ks[i]] \in Names /\ name[ks[i]] # NULL
      BY <2>1, <2>5, ParserAssumption DEF Writable
    <3>2. \A i, j \in 1 .. N : name[ks[i]] = name[ks[j]] /\ i # j => name[ks[i]] = NULL
      BY <1>4, <2>1 DEF ShapeOK
    <3> QED
      BY <3>1, <3>2
  <2>6. ASSUME t = "ARRAY"
        PROVE  \A i, j \in 1 .. N : type[ks[i]] \notin Aggregates /\ type[ks[i]] = type[ks[j]]
    <3>1. \A i \in 1 .. N : type[ks[i]] \in ScalarTypes
      BY <1>4, <2>1, <2>6 DEF ShapeOK
    <3>2. \A i, j \in 1 .. N : type[ks[i]] = type[ks[j]]
      BY <1>4, <2>1, <2>6 DEF ArraysAreHomogeneous
    <3> QED
      BY <3>1, <3>2 DEF ScalarTypes, Aggregates
  <2>7. \E g : Leads(w, x, g, <<End(t)>>) /\ w.text[x] = Cat(<<Start(t)>>, g[0])
    <3> DEFINE b == FlattenSeq(Parts(t, ks, name, F, s))
               u == <<Start(t)>>
               e == <<End(t)>>
    <3>1. b \in Seq(Vocabulary)
      BY <1>8, <2>1, BracketedIsText
    <3>2. Start(t) \in Vocabulary /\ End(t) \in Vocabulary
      BY <1>8, SignsAreTokens
    <3> HIDE DEF b
    <3>3. u \in Seq(Vocabulary) /\ e \in Seq(Vocabulary)
      BY <3>2
    <3> HIDE DEF u, e
    <3>4. PICK g : Leads(w, x, g, e) /\ g[0] = Cat(b, e)
      BY <1>2, <2>1, <3>3, LeadsExist DEF b
    <3>5. F[x] = Cat(Cat(u, b), e)
      BY <1>8 DEF IsTextOf, Bracketed, Cat, b, u, e
    <3>6. F[x] = Cat(u, g[0])
      BY <3>1, <3>3, <3>4, <3>5, CatAssociates
    <3> QED
      BY <1>2, <3>4, <3>6 DEF u, e
  <2> HIDE DEF D
  <2> QED
    BY <1>2, <2>4, <2>5, <2>6, <2>7 DEF IsBranch, D
<1>9. IsSource(w)
  BY <1>2, <1>5, <1>6, <1>7, <1>8 DEF IsSource
<1> QED
  BY <1>1, <1>9

(* Before the first token all of it is left.                               *)
LEMMA AllIsLeft ==
  ASSUME TreeInv, root \in live, Named, NEW F \in [Settings -> Seq(Vocabulary)],
         NEW s \in BOOLEAN, \A x \in live : IsTextOf(x, F, s)
  PROVE  /\ ConfigWrite(s) \in Seq(Vocabulary)
         /\ \E g : /\ Leads(TreeAsSource(F, s), root, g, <<Sign("EOF")>>)
                   /\ g[0] = Cat(ConfigWrite(s), <<Sign("EOF")>>)
<1>1. PICK w : w = TreeAsSource(F, s)
  OBVIOUS
<1>2. /\ w.root = root /\ w.nodes = live /\ w.kids = kids /\ w.type = type /\ w.name = name
      /\ w.text = F /\ w.semicolons = s
  BY <1>1 DEF TreeAsSource
<1>3. IInv /\ type[root] = "GROUP"
  BY TreeFacts, SettingAssumption DEF TreeOK, RootIsGroup, TypeOK
<1>4. /\ ConfigWrite(s) = FlattenSeq(Parts("GROUP", kids[root], name, F, s))
      /\ ConfigWrite(s) \in Seq(Vocabulary)
  BY <1>3, WrittenWhole
<1>5. Writable(type[root], kids[root], Len(kids[root]), name, F)
  BY <1>3, BodyIsWritable
<1>6. <<Sign("EOF")>> \in Seq(Vocabulary)
  BY SignsAreTokens
<1>7. \E g : /\ Leads(w, root, g, <<Sign("EOF")>>)
             /\ g[0] = Cat(FlattenSeq(Parts("GROUP", kids[root], name, F, s)), <<Sign("EOF")>>)
  BY <1>2, <1>3, <1>5, <1>6, LeadsExist
<1> QED
  BY <1>1, <1>4, <1>7

-----------------------------------------------------------------------------
(* Where the parser is in a text that was written: it builds the tree T,   *)
(* in which the settings O are open; an open setting x stands for the node *)
(* S[x] of the source, and G[x][m] is what is left of the whole text when  *)
(* m elements of x were read.                                              *)

Tree(lv, ro, ks, ty, na, pa) ==
  [live |-> lv, root |-> ro, kids |-> ks, type |-> ty, name |-> na, parent |-> pa]

(* What is left behind the m-th element of p, and behind the bracket of x. *)
LeftBehind(w, G, T, p, m) == Cat(Ending(T.type[p], w.semicolons), G[p][m])
Close(w, G, T, x) ==
  IF x = T.root THEN <<Sign("EOF")>>
  ELSE Cat(<<End(T.type[x])>>, LeftBehind(w, G, T, T.parent[x], Len(T.kids[T.parent[x]])))

(* As far as x was read, it is its node.                                   *)
Mirrors(w, S, T, x) ==
  LET t == T.type[x]
      ks == w.kids[S[x]]
  IN /\ S[x] \in w.nodes /\ w.type[S[x]] = t /\ t \in Aggregates
     /\ Len(T.kids[x]) <= Len(ks)
     /\ \A i \in 1 .. Len(T.kids[x]) :
          /\ t = "GROUP" => T.name[T.kids[x][i]] = w.name[ks[i]]
          /\ t = "ARRAY" => T.type[T.kids[x][i]] = w.type[ks[i]]

Path(w, S, G, O, p, T) ==
  /\ T.root \in O /\ p \in O /\ O \in SUBSET T.live
  /\ \A x \in O : Mirrors(w, S, T, x) /\ Leads(w, S[x], G[x], Close(w, G, T, x))
  /\ \A x \in O \ {T.root} : /\ T.parent[x] \in O /\ T.kids[T.parent[x]] # <<>>
                             /\ Last(T.kids[T.parent[x]]) = x
  /\ \A i \in 1 .. Len(T.kids[p]) : T.kids[p][i] \notin O

(* What the tree is like, of all that is known of it.                      *)
IsTree(T) ==
  /\ T.root \in T.live
  /\ \A x \in T.live : /\ T.kids[x] \in Seq(T.live)
                       /\ \A i \in 1 .. Len(T.kids[x]) : /\ T.parent[T.kids[x][i]] = x
                                                         /\ T.kids[x][i] # T.root

(* From one tree to another: x is what changes below p.                    *)
Steady(p, x, T, T2) ==
  /\ T2.root = T.root /\ T.live \subseteq T2.live
  /\ \A y \in T.live : T2.name[y] = T.name[y] /\ T2.parent[y] = T.parent[y]
  /\ \A y \in T.live \ {x} : T2.type[y] = T.type[y]
  /\ \A y \in T.live \ {p} : T2.kids[y] = T.kids[y]

(* An open setting above p stays as it is.                                 *)
LEMMA AboveStays ==
  ASSUME NEW w, NEW S, NEW G, NEW O, NEW p, NEW x, NEW T, NEW T2, IsTree(T),
         Path(w, S, G, O, p, T), Steady(p, x, T, T2), x \notin O,
         x \in T.live => T.parent[x] = p /\ T.type[p] = "GROUP"
  PROVE  /\ \A y \in O : /\ T2.type[y] = T.type[y] /\ T2.parent[y] = T.parent[y]
                         /\ Close(w, G, T2, y) = Close(w, G, T, y)
         /\ \A y \in O \ {p} : T2.kids[y] = T.kids[y] /\ Mirrors(w, S, T2, y)
         /\ \A y \in O \ {T.root} : /\ T2.parent[y] \in O /\ T2.parent[y] # p
                                    /\ T2.kids[T2.parent[y]] # <<>>
                                    /\ Last(T2.kids[T2.parent[y]]) = y
<1>1. O \in SUBSET T.live /\ p \in O /\ T2.root = T.root
  BY DEF Path, Steady
<1>2. \A y \in O : T2.type[y] = T.type[y] /\ T2.parent[y] = T.parent[y] /\ T2.name[y] = T.name[y]
  BY <1>1 DEF Steady
<1>3. \A y \in O \ {p} : T2.kids[y] = T.kids[y]
  BY <1>1 DEF Steady
<1>4. ASSUME NEW y \in O \ {T.root}
      PROVE  /\ T.parent[y] \in O /\ T.parent[y] # p /\ T.kids[T.parent[y]] # <<>>
             /\ Last(T.kids[T.parent[y]]) = y
  <2>1. T.parent[y] \in O /\ T.kids[T.parent[y]] # <<>> /\ Last(T.kids[T.parent[y]]) = y
    BY DEF Path
  <2>2. T.parent[y] # p
    <3> SUFFICES ASSUME T.parent[y] = p PROVE FALSE
      OBVIOUS
    <3>1. T.kids[p] \in Seq(T.live)
      BY <1>1 DEF IsTree
    <3>2. Len(T.kids[p]) \in 1 .. Len(T.kids[p]) /\ Last(T.kids[p]) = T.kids[p][Len(T.kids[p])]
      BY <2>1, <3>1, EmptySeq, LenProperties DEF Last
    <3> QED
      BY <2>1, <3>2 DEF Path
  <2> QED
    BY <2>1, <2>2
<1>5. ASSUME NEW y \in O PROVE Close(w, G, T2, y) = Close(w, G, T, y)
  <2>1. CASE y = T.root
    BY <1>1, <2>1 DEF Close
  <2>2. CASE y # T.root
    <3> DEFINE q == T.parent[y]
    <3>1. q \in O /\ T2.parent[y] = q /\ T2.kids[q] = T.kids[q] /\ T2.type[q] = T.type[q]
          /\ T2.type[y] = T.type[y] /\ T2.root = T.root
      BY <1>1, <1>2, <1>3, <1>4, <2>2
    <3> HIDE DEF q
    <3> QED
      BY <2>2, <3>1 DEF Close, LeftBehind, q
  <2> QED
    BY <2>1, <2>2
<1>6. ASSUME NEW y \in O \ {p} PROVE Mirrors(w, S, T2, y)
  <2>1. /\ T2.kids[y] = T.kids[y] /\ T2.type[y] = T.type[y] /\ Mirrors(w, S, T, y) /\ y \in T.live
    BY <1>1, <1>2, <1>3 DEF Path
  <2>2. \A i \in 1 .. Len(T.kids[y]) : /\ T.kids[y][i] \in T.live
                                       /\ T.kids[y][i] # x \/ T.type[y] # "ARRAY"
    <3>1. T.kids[y] \in Seq(T.live)
      BY <2>1 DEF IsTree
    <3>2. \A i \in 1 .. Len(T.kids[y]) : T.kids[y][i] \in T.live /\ T.parent[T.kids[y][i]] = y
      BY <2>1, <3>1, ElementOfSeq DEF IsTree
    <3> QED
      BY <1>6, <3>2
  <2>3. \A i \in 1 .. Len(T.kids[y]) :
          /\ T2.name[T.kids[y][i]] = T.name[T.kids[y][i]]
          /\ T.type[y] = "ARRAY" => T2.type[T.kids[y][i]] = T.type[T.kids[y][i]]
    BY <2>2 DEF Steady
  <2> QED
    BY <2>1, <2>3 DEF Mirrors
<1> QED
  BY <1>2, <1>3, <1>4, <1>5, <1>6

(* The setting p has got one more element, x.                              *)
LEMMA PathGrows ==
  ASSUME NEW w, NEW S, NEW G, NEW O, NEW p, NEW x, NEW T, NEW T2, IsTree(T),
         Path(w, S, G, O, p, T), Steady(p, x, T, T2), x \notin T.live, x \in T2.live,
         T2.kids[p] = Append(T.kids[p], x), NEW e,
         Len(T.kids[p]) < Len(w.kids[S[p]]), Len(w.kids[S[p]]) \in Nat,
         e = w.kids[S[p]][Len(T.kids[p]) + 1],
         T.type[p] = "GROUP" => T2.name[x] = w.name[e],
         T.type[p] = "ARRAY" => T2.type[x] = w.type[e]
  PROVE  Path(w, S, G, O, p, T2)
<1> DEFINE n == Len(T.kids[p])
           ks == w.kids[S[p]]
<1>1. O \in SUBSET T.live /\ p \in O /\ x \notin O /\ T2.root = T.root /\ T.root \in O
  BY DEF Path, Steady
<1>2. /\ \A y \in O : /\ T2.type[y] = T.type[y] /\ T2.parent[y] = T.parent[y]
                      /\ Close(w, G, T2, y) = Close(w, G, T, y)
      /\ \A y \in O \ {p} : T2.kids[y] = T.kids[y] /\ Mirrors(w, S, T2, y)
      /\ \A y \in O \ {T.root} : /\ T2.parent[y] \in O /\ T2.parent[y] # p
                                 /\ T2.kids[T2.parent[y]] # <<>>
                                 /\ Last(T2.kids[T2.parent[y]]) = y
  BY <1>1, AboveStays
<1>3. /\ T.kids[p] \in Seq(T.live) /\ n \in Nat
      /\ \A i \in 1 .. n : T.kids[p][i] \in T.live /\ T.kids[p][i] # x
  <2>1. T.kids[p] \in Seq(T.live)
    BY <1>1 DEF IsTree
  <2> QED
    BY <2>1, LenProperties, ElementOfSeq
<1>4. /\ Len(T2.kids[p]) = n + 1 /\ T2.kids[p][n + 1] = x
      /\ \A i \in 1 .. n : T2.kids[p][i] = T.kids[p][i]
  <2>1. T.kids[p] \in Seq(T.live \cup {x}) /\ x \in T.live \cup {x}
    <3>1. \A i \in 1 .. n : T.kids[p][i] \in T.live \cup {x}
      BY <1>3
    <3>2. T.kids[p] = [i \in 1 .. n |-> T.kids[p][i]]
      BY <1>3
    <3>3. PICK k, m : k = T.kids[p] /\ m = n
      OBVIOUS
    <3> DEFINE D == T.live \cup {x}
    <3> HIDE DEF D, n
    <3>4. m \in Nat /\ k = [i \in 1 .. m |-> k[i]] /\ \A i \in 1 .. m : k[i] \in D
      BY <1>3, <3>1, <3>2, <3>3 DEF D
    <3>5. k \in Seq(D)
      BY <3>4
    <3> QED
      BY <3>3, <3>5 DEF D
  <2> QED
    BY <2>1, AppendProperties
<1>5. Mirrors(w, S, T2, p)
  <2>1. Mirrors(w, S, T, p) /\ T2.type[p] = T.type[p]
    BY <1>1, <1>2 DEF Path
  <2>2. \A i \in 1 .. n + 1 : i \in 1 .. n \/ i = n + 1
    <3> HIDE DEF n
    <3> QED
      BY <1>3
  <2>3. ASSUME NEW i \in 1 .. n + 1
        PROVE  /\ T.type[p] = "GROUP" => T2.name[T2.kids[p][i]] = w.name[ks[i]]
               /\ T.type[p] = "ARRAY" => T2.type[T2.kids[p][i]] = w.type[ks[i]]
    <3>1. CASE i = n + 1
      BY <1>4, <3>1
    <3>2. CASE i \in 1 .. n
      <4>1. /\ T.type[p] = "GROUP" => T.name[T.kids[p][i]] = w.name[ks[i]]
            /\ T.type[p] = "ARRAY" => T.type[T.kids[p][i]] = w.type[ks[i]]
        BY <2>1, <3>2 DEF Mirrors
      <4>2. /\ T2.name[T.kids[p][i]] = T.name[T.kids[p][i]]
            /\ T2.type[T.kids[p][i]] = T.type[T.kids[p][i]]
        BY <1>3, <3>2 DEF Steady
      <4> QED
        BY <1>4, <3>2, <4>1, <4>2
    <3> QED
      BY <2>2, <3>1, <3>2
  <2>4. n + 1 <= Len(ks)
    BY <1>3
  <2> QED
    BY <1>4, <2>1, <2>3, <2>4 DEF Mirrors
<1>6. \A y \in O : Mirrors(w, S, T2, y) /\ Leads(w, S[y], G[y], Close(w, G, T2, y))
  BY <1>2, <1>5 DEF Path
<1>7. \A i \in 1 .. n + 1 : T2.kids[p][i] \notin O
  <2>1. \A i \in 1 .. n + 1 : i \in 1 .. n \/ i = n + 1
    <3> HIDE DEF n
    <3> QED
      BY <1>3
  <2> QED
    BY <1>1, <1>4, <2>1 DEF Path
<1>8. O \in SUBSET T2.live
  BY <1>1 DEF Steady
<1> QED
  BY <1>1, <1>2, <1>4, <1>6, <1>7, <1>8 DEF Path

(* The last element of a group gets its type.                              *)
LEMMA PathChanges ==
  ASSUME NEW w, NEW S, NEW G, NEW O, NEW p, NEW x, NEW T, NEW T2, IsTree(T),
         Path(w, S, G, O, p, T), Steady(p, x, T, T2), T2.kids[p] = T.kids[p],
         x \in T.live, x \notin O, T.parent[x] = p, T.type[p] = "GROUP"
  PROVE  Path(w, S, G, O, p, T2)
<1>1. O \in SUBSET T.live /\ p \in O /\ T2.root = T.root /\ T.root \in O
  BY DEF Path, Steady
<1>2. /\ \A y \in O : /\ T2.type[y] = T.type[y] /\ T2.parent[y] = T.parent[y]
                      /\ Close(w, G, T2, y) = Close(w, G, T, y)
      /\ \A y \in O \ {p} : T2.kids[y] = T.kids[y] /\ Mirrors(w, S, T2, y)
      /\ \A y \in O \ {T.root} : /\ T2.parent[y] \in O /\ T2.parent[y] # p
                                 /\ T2.kids[T2.parent[y]] # <<>>
                                 /\ Last(T2.kids[T2.parent[y]]) = y
  BY <1>1, AboveStays
<1>3. Mirrors(w, S, T2, p)
  <2>1. Mirrors(w, S, T, p) /\ T2.type[p] = "GROUP" /\ T2.kids[p] = T.kids[p]
    BY <1>1, <1>2 DEF Path
  <2>2. \A i \in 1 .. Len(T.kids[p]) : T2.name[T.kids[p][i]] = T.name[T.kids[p][i]]
    <3>1. T.kids[p] \in Seq(T.live)
      BY <1>1 DEF IsTree
    <3> QED
      BY <3>1, ElementOfSeq DEF Steady
  <2> QED
    BY <2>1, <2>2 DEF Mirrors
<1>4. \A y \in O : Mirrors(w, S, T2, y) /\ Leads(w, S[y], G[y], Close(w, G, T2, y))
  BY <1>2, <1>3 DEF Path
<1>5. O \in SUBSET T2.live
  BY <1>1 DEF Steady
<1>6. \A i \in 1 .. Len(T2.kids[p]) : T2.kids[p][i] \notin O
  BY DEF Path
<1> QED
  BY <1>1, <1>2, <1>4, <1>5, <1>6 DEF Path

(* What is left is a text.                                                 *)
LEMMA LeftIsText ==
  ASSUME NEW w, NEW S, NEW G, NEW O, NEW p, NEW T, IsSource(w), Path(w, S, G, O, p, T),
         NEW m \in 0 .. Len(w.kids[S[p]])
  PROVE  G[p][m] \in Seq(Vocabulary) /\ LeftBehind(w, G, T, p, m) \in Seq(Vocabulary)
<1>1. G[p][m] \in Seq(Vocabulary)
  BY DEF Path, Leads
<1>2. Ending(T.type[p], w.semicolons) \in Seq(Vocabulary)
  BY SignsAreTokens DEF Ending
<1> QED
  BY <1>1, <1>2, CatIsSeq DEF LeftBehind

(* The bracket of the last element x of p is opened, which stands for e.   *)
Opens(w, O, p, x, e, T) ==
  /\ x \in T.live /\ x \notin O /\ T.parent[x] = p
  /\ T.kids[p] # <<>> /\ Last(T.kids[p]) = x /\ T.kids[x] = <<>>
  /\ e \in w.nodes /\ T.type[x] = w.type[e] /\ w.type[e] \in Aggregates
(* Within the bracket of x, v is left.                                     *)
Opened(w, O, x, T, v) ==
  \E S, G : Path(w, S, G, O, x, T) /\ G[x][0] = v

LEMMA PathOpens ==
  ASSUME NEW w, NEW S, NEW G, NEW O, NEW p, NEW T, IsSource(w), IsTree(T),
         Path(w, S, G, O, p, T), NEW x, NEW e, Opens(w, O, p, x, e, T),
         NEW g, NEW v, v = <<End(w.type[e])>>, Leads(w, e, g, v)
  PROVE  Opened(w, O \cup {x}, x, T, Cat(g[0], LeftBehind(w, G, T, p, Len(T.kids[p]))))
<1> /\ x \in T.live /\ x \notin O /\ T.parent[x] = p
    /\ T.kids[p] # <<>> /\ Last(T.kids[p]) = x /\ T.kids[x] = <<>>
    /\ e \in w.nodes /\ T.type[x] = w.type[e] /\ w.type[e] \in Aggregates
  BY DEF Opens
<1> DEFINE n == Len(T.kids[p])
           z == LeftBehind(w, G, T, p, n)
           O2 == O \cup {x}
           h == [m \in 0 .. Len(w.kids[e]) |-> Cat(g[m], z)]
           S2 == [y \in O2 |-> IF y = x THEN e ELSE S[y]]
           G2 == [y \in O2 |-> IF y = x THEN h ELSE G[y]]
<1>1. O \in SUBSET T.live /\ p \in O /\ T.root \in O /\ x # T.root /\ x # p
  BY DEF Path
<1>2. /\ Writable(w.type[e], w.kids[e], Len(w.kids[e]), w.name, w.text)
      /\ Len(w.kids[e]) \in Nat /\ w.semicolons \in BOOLEAN
  BY BranchIsWritable DEF IsSource
<1>3. z \in Seq(Vocabulary)
  <2>1. T.kids[p] \in Seq(T.live) /\ n <= Len(w.kids[S[p]])
    BY <1>1 DEF IsTree, Path, Mirrors
  <2>2. S[p] \in w.nodes /\ w.type[S[p]] \in Aggregates
    BY <1>1 DEF Path, Mirrors
  <2>3. Len(w.kids[S[p]]) \in Nat /\ n \in Nat
    BY <2>1, <2>2, BranchIsWritable, LenProperties
  <2>4. n \in 0 .. Len(w.kids[S[p]])
    BY <2>1, <2>3
  <2> QED
    BY <2>4, LeftIsText
<1>4. /\ S2[x] = e /\ G2[x] = h /\ \A y \in O : S2[y] = S[y] /\ G2[y] = G[y]
  OBVIOUS
<1>5. Leads(w, e, h, Cat(<<End(w.type[e])>>, z)) /\ h[0] = Cat(g[0], z)
  <2>1. Leads(w, e, h, Cat(<<End(w.type[e])>>, z))
    <3> HIDE DEF z
    <3> QED
      BY <1>2, <1>3, LeadsFurther
  <2>2. 0 \in 0 .. Len(w.kids[e])
    BY <1>2
  <2> QED
    BY <2>1, <2>2
<1> HIDE DEF h, S2, G2
<1>6. \A y \in O \ {T.root} : T.parent[y] \in O /\ T.kids[T.parent[y]] # <<>>
                              /\ Last(T.kids[T.parent[y]]) = y
  BY DEF Path
<1>7. ASSUME NEW y \in O PROVE Close(w, G2, T, y) = Close(w, G, T, y)
  <2>1. CASE y = T.root
    BY <2>1 DEF Close
  <2>2. CASE y # T.root
    BY <1>4, <1>6, <2>2 DEF Close, LeftBehind
  <2> QED
    BY <2>1, <2>2
<1>8. Close(w, G2, T, x) = Cat(<<End(w.type[e])>>, z)
  BY <1>1, <1>4 DEF Close, LeftBehind
<1>9. Len(T.kids[x]) = 0
  <2>1. T.kids[x] \in Seq(T.live)
    BY DEF IsTree
  <2> QED
    BY <2>1, EmptySeq
<1>10. Mirrors(w, S2, T, x)
  BY <1>2, <1>4, <1>9 DEF Mirrors
<1>11. \A y \in O : Mirrors(w, S2, T, y)
  <2>1. \A y \in O : Mirrors(w, S, T, y)
    BY DEF Path
  <2> QED
    BY <1>4, <2>1 DEF Mirrors
<1>12. \A y \in O : Leads(w, S2[y], G2[y], Close(w, G2, T, y))
  <2>1. \A y \in O : Leads(w, S[y], G[y], Close(w, G, T, y))
    BY DEF Path
  <2> QED
    BY <1>4, <1>7, <2>1
<1>13. Leads(w, S2[x], G2[x], Close(w, G2, T, x))
  BY <1>4, <1>5, <1>8
<1>14. Path(w, S2, G2, O2, x, T)
  <2>1. T.root \in O2 /\ x \in O2 /\ O2 \in SUBSET T.live
    BY <1>1
  <2>2. \A y \in O2 : Mirrors(w, S2, T, y) /\ Leads(w, S2[y], G2[y], Close(w, G2, T, y))
    BY <1>10, <1>11, <1>12, <1>13
  <2>3. \A y \in O2 \ {T.root} : T.parent[y] \in O2 /\ T.kids[T.parent[y]] # <<>>
                                 /\ Last(T.kids[T.parent[y]]) = y
    BY <1>1, <1>6
  <2>4. \A i \in 1 .. Len(T.kids[x]) : T.kids[x][i] \notin O2
    BY <1>9
  <2> QED
    BY <2>1, <2>2, <2>3, <2>4 DEF Path
<1> QED
  BY <1>4, <1>5, <1>14 DEF Opened

(* The bracket of p is closed.                                             *)
LEMMA PathCloses ==
  ASSUME NEW w, NEW S, NEW G, NEW O, NEW p, NEW T, IsTree(T), Path(w, S, G, O, p, T),
         p # T.root
  PROVE  Path(w, S, G, O \ {p}, T.parent[p], T) /\ T.kids[T.parent[p]] # <<>>
<1> DEFINE q == T.parent[p]
           O2 == O \ {p}
<1>1. O \in SUBSET T.live /\ p \in O /\ T.root \in O
  BY DEF Path
<1>2. \A y \in O \ {T.root} : T.parent[y] \in O /\ T.kids[T.parent[y]] # <<>>
                              /\ Last(T.kids[T.parent[y]]) = y
  BY DEF Path
<1>3. ASSUME NEW y \in O \ {T.root} PROVE T.parent[y] # p
  <2> SUFFICES ASSUME T.parent[y] = p PROVE FALSE
    OBVIOUS
  <2>1. T.kids[p] \in Seq(T.live) /\ T.kids[p] # <<>> /\ Last(T.kids[p]) = y
    BY <1>1, <1>2 DEF IsTree
  <2>2. Len(T.kids[p]) \in 1 .. Len(T.kids[p]) /\ Last(T.kids[p]) = T.kids[p][Len(T.kids[p])]
    BY <2>1, EmptySeq, LenProperties DEF Last
  <2> QED
    BY <2>1, <2>2 DEF Path
<1>4. ASSUME NEW i \in 1 .. Len(T.kids[q]) PROVE T.kids[q][i] \notin O2
  <2> SUFFICES ASSUME T.kids[q][i] \in O2 PROVE FALSE
    OBVIOUS
  <2>1. q \in T.live
    BY <1>1, <1>2
  <2>2. T.parent[T.kids[q][i]] = q /\ T.kids[q][i] # T.root
    BY <2>1 DEF IsTree
  <2>3. Last(T.kids[q]) = T.kids[q][i] /\ Last(T.kids[q]) = p
    BY <1>1, <1>2, <2>2
  <2> QED
    BY <2>3
<1>5. T.root \in O2 /\ q \in O2 /\ O2 \in SUBSET T.live /\ T.kids[q] # <<>>
  BY <1>1, <1>2, <1>3
<1>6. \A y \in O2 \ {T.root} : T.parent[y] \in O2 /\ T.kids[T.parent[y]] # <<>>
                               /\ Last(T.kids[T.parent[y]]) = y
  BY <1>2, <1>3
<1>7. \A y \in O2 : Mirrors(w, S, T, y) /\ Leads(w, S[y], G[y], Close(w, G, T, y))
  BY DEF Path
<1> QED
  BY <1>4, <1>5, <1>6, <1>7 DEF Path

(* The element of the source that is due, of a value that is expected.     *)
Due(T, p) == IF T.type[p] = "GROUP" THEN Len(T.kids[p]) ELSE Len(T.kids[p]) + 1

(* What is left of the text when e is expected within p.                   *)
Left(w, S, G, T, p, e) ==
  LET n == Len(T.kids[p])
      due == w.text[w.kids[S[p]][Due(T, p)]]
      rest == LeftBehind(w, G, T, p, Due(T, p))
  IN IF e \in {"setting", "first"} THEN G[p][n]
     ELSE IF e \in {"terminator", "comma"} THEN LeftBehind(w, G, T, p, n)
     ELSE IF e = "equals" THEN Cat(<<Sign("EQUALS")>>, Cat(due, rest))
     ELSE IF e = "string" THEN rest
     ELSE Cat(due, rest)

(* What is expected is something of the innermost bracket that is not over.*)
Owed(w, S, T, p, e) ==
  LET n == Len(T.kids[p])
      ks == w.kids[S[p]]
  IN /\ \/ e \in {"setting", "terminator", "equals", "value"} /\ T.type[p] = "GROUP"
        \/ e \in {"first", "element", "comma"} /\ T.type[p] # "GROUP"
        \/ e = "string"
     /\ e \in {"equals", "value", "element", "string"} => Due(T, p) \in 1 .. Len(ks)
     /\ e = "first" => n = 0
     /\ e = "comma" => n >= 1
     /\ e = "string" => w.type[ks[Due(T, p)]] = "STRING"

(* The next token a, and what is left behind it.                           *)
Value(w, x, a, r, z) ==
  \/ /\ w.type[x] \in Aggregates /\ a = Start(w.type[x])
     /\ \E g : Leads(w, x, g, <<End(w.type[x])>>) /\ r = Cat(g[0], z)
  \/ /\ w.type[x] \notin Aggregates /\ a.kind \in {"SCALAR", "STRING"}
     /\ a.type = w.type[x] /\ r = z

Comes(w, S, G, T, p, e, a, r) ==
  LET n == Len(T.kids[p])
      ks == w.kids[S[p]]
      t == T.type[p]
      q == T.parent[p]
  IN \/ a = Sign("SEMICOLON") /\ e = "terminator" /\ r = G[p][n]
     \/ /\ e \in SettingExpected /\ n < Len(ks) /\ a = Name(w.name[ks[n + 1]])
        /\ r = Cat(<<Sign("EQUALS")>>, Cat(w.text[ks[n + 1]], LeftBehind(w, G, T, p, n + 1)))
     \/ a = Sign("EOF") /\ e \in SettingExpected /\ p = T.root /\ r = <<>>
     \/ /\ a = End(t) /\ e \in SettingExpected \cup {"first", "comma"} /\ p # T.root
        /\ r = LeftBehind(w, G, T, q, Len(T.kids[q]))
     \/ /\ a = Sign("EQUALS") /\ e = "equals"
        /\ r = Cat(w.text[ks[n]], LeftBehind(w, G, T, p, n))
     \/ /\ e \in ValueExpected /\ Due(T, p) \in 1 .. Len(ks)
        /\ Value(w, ks[Due(T, p)], a, r, LeftBehind(w, G, T, p, Due(T, p)))
     \/ /\ a = Sign("COMMA") /\ e = "comma" /\ n < Len(ks)
        /\ r = Cat(w.text[ks[n + 1]], LeftBehind(w, G, T, p, n + 1))
     \/ e = "string" /\ a.kind # "STRING"

Heads(left, a, r) == left = Cat(<<a>>, r) /\ a \in Vocabulary /\ r \in Seq(Vocabulary)

LEMMA ValueComes ==
  ASSUME NEW w, IsSource(w), NEW x \in w.nodes, NEW z \in Seq(Vocabulary)
  PROVE  \E a, r : Heads(Cat(w.text[x], z), a, r) /\ Value(w, x, a, r, z)
<1>1. CASE w.type[x] \in Aggregates
  <2>1. IsBranch(w, x) /\ Len(w.kids[x]) \in Nat
    BY <1>1, BranchIsWritable DEF IsSource
  <2>2. PICK g : Leads(w, x, g, <<End(w.type[x])>>) /\ w.text[x] = Cat(<<Start(w.type[x])>>, g[0])
    BY <2>1 DEF IsBranch
  <2>3. g[0] \in Seq(Vocabulary)
    BY <2>1, <2>2 DEF Leads
  <2>4. Start(w.type[x]) \in Vocabulary
    BY <1>1, SignsAreTokens
  <2>5. <<Start(w.type[x])>> \in Seq(Vocabulary)
    BY <2>4
  <2>6. Cat(w.text[x], z) = Cat(<<Start(w.type[x])>>, Cat(g[0], z))
    <3>1. PICK b, c : b = <<Start(w.type[x])>> /\ c = g[0]
      OBVIOUS
    <3>2. b \in Seq(Vocabulary) /\ c \in Seq(Vocabulary)
      BY <2>3, <2>5, <3>1
    <3>3. Cat(Cat(b, c), z) = Cat(b, Cat(c, z))
      BY <3>2, CatAssociates
    <3> QED
      BY <2>2, <3>1, <3>3
  <2>7. Cat(g[0], z) \in Seq(Vocabulary)
    BY <2>3, CatIsSeq
  <2> QED
    BY <1>1, <2>2, <2>4, <2>6, <2>7 DEF Heads, Value
<1>2. CASE w.type[x] \notin Aggregates
  <2>1. PICK tok \in Vocabulary : /\ w.text[x] = <<tok>> /\ tok.kind \in {"SCALAR", "STRING"}
                                  /\ tok.type = w.type[x]
    BY <1>2 DEF IsSource, IsLeaf
  <2> QED
    BY <1>2, <2>1 DEF Heads, Value
<1> QED
  BY <1>1, <1>2

(* What is left within a bracket.                                          *)
LEMMA Within ==
  ASSUME NEW w, NEW S, NEW G, NEW O, NEW p, NEW T, IsSource(w), Path(w, S, G, O, p, T),
         NEW m \in Nat
  PROVE  LET ks == w.kids[S[p]]
             rest == Cat(w.text[ks[m + 1]], LeftBehind(w, G, T, p, m + 1))
         IN /\ Len(ks) \in Nat
            /\ m = Len(ks) => G[p][m] = Close(w, G, T, p)
            /\ m < Len(ks) =>
                 /\ ks[m + 1] \in w.nodes /\ w.text[ks[m + 1]] \in Seq(Vocabulary)
                 /\ LeftBehind(w, G, T, p, m + 1) \in Seq(Vocabulary) /\ rest \in Seq(Vocabulary)
                 /\ G[p][m] = Cat(Lead(T.type[p], w.name[ks[m + 1]], m + 1), rest)
                 /\ T.type[p] = "GROUP" => w.name[ks[m + 1]] \in Names
<1> DEFINE ks == w.kids[S[p]]
           rest == Cat(w.text[ks[m + 1]], LeftBehind(w, G, T, p, m + 1))
<1>1. /\ S[p] \in w.nodes /\ w.type[S[p]] = T.type[p] /\ w.type[S[p]] \in Aggregates
      /\ Leads(w, S[p], G[p], Close(w, G, T, p))
  BY DEF Path, Mirrors
<1>2. Len(ks) \in Nat /\ \A i \in 1 .. Len(ks) : ks[i] \in w.nodes
  BY <1>1, BranchIsWritable
<1>3. m = Len(ks) => G[p][m] = Close(w, G, T, p)
  BY <1>1 DEF Leads
<1>4. ASSUME m < Len(ks)
      PROVE  /\ ks[m + 1] \in w.nodes /\ w.text[ks[m + 1]] \in Seq(Vocabulary)
             /\ LeftBehind(w, G, T, p, m + 1) \in Seq(Vocabulary) /\ rest \in Seq(Vocabulary)
             /\ G[p][m] = Cat(Lead(T.type[p], w.name[ks[m + 1]], m + 1), rest)
             /\ T.type[p] = "GROUP" => w.name[ks[m + 1]] \in Names
  <2>1. m + 1 \in 1 .. Len(ks) /\ m + 1 \in 0 .. Len(ks) /\ (m + 1) - 1 = m
    BY <1>2, <1>4
  <2>2. ks[m + 1] \in w.nodes /\ w.text[ks[m + 1]] \in Seq(Vocabulary)
    BY <1>2, <2>1 DEF IsSource
  <2>3. LeftBehind(w, G, T, p, m + 1) \in Seq(Vocabulary)
    BY <2>1, LeftIsText
  <2>4. rest \in Seq(Vocabulary)
    BY <2>2, <2>3, CatIsSeq
  <2>5. G[p][m] = Cat(Lead(T.type[p], w.name[ks[m + 1]], m + 1), rest)
    BY <1>1, <2>1 DEF Leads, LeftBehind
  <2>6. T.type[p] = "GROUP" => w.name[ks[m + 1]] \in Names
    <3>1. IsBranch(w, S[p])
      BY <1>1 DEF IsSource
    <3> QED
      BY <1>1, <2>1, <3>1 DEF IsBranch
  <2> QED
    BY <2>2, <2>3, <2>4, <2>5, <2>6
<1> HIDE DEF ks, rest
<1>5. ks = w.kids[S[p]] /\ rest = Cat(w.text[ks[m + 1]], LeftBehind(w, G, T, p, m + 1))
  BY DEF ks, rest
<1> QED
  BY <1>2, <1>3, <1>4, <1>5

LEMMA CatTwo ==
  ASSUME NEW a \in Vocabulary, NEW b \in Vocabulary, NEW r \in Seq(Vocabulary)
  PROVE  /\ Cat(<<a, b>>, r) = Cat(<<a>>, Cat(<<b>>, r))
         /\ Cat(<<b>>, r) \in Seq(Vocabulary)
<1>1. <<a>> \in Seq(Vocabulary) /\ <<b>> \in Seq(Vocabulary)
  OBVIOUS
<1>2. Cat(Cat(<<a>>, <<b>>), r) = Cat(<<a>>, Cat(<<b>>, r))
  <2>1. PICK u, v : u = <<a>> /\ v = <<b>>
    OBVIOUS
  <2>2. u \in Seq(Vocabulary) /\ v \in Seq(Vocabulary)
    BY <1>1, <2>1
  <2>3. Cat(Cat(u, v), r) = Cat(u, Cat(v, r))
    BY <2>2, CatAssociates
  <2> QED
    BY <2>1, <2>3
<1>3. Cat(<<a>>, <<b>>) = <<a, b>>
  <2>1. <<>> \o <<a, b>> = (<<>> \o <<a>>) \o <<b>>
    BY ConcatTwo, EmptySeq
  <2>2. <<>> \o <<a, b>> = <<a, b>>
    <3>1. <<a, b>> \in Seq(Vocabulary)
      OBVIOUS
    <3> QED
      BY <3>1, ConcatEmptySeq
  <2>3. <<>> \o <<a>> = <<a>>
    BY <1>1, ConcatEmptySeq
  <2> QED
    BY <2>1, <2>2, <2>3 DEF Cat
<1>4. Cat(<<b>>, r) \in Seq(Vocabulary)
  BY <1>1, CatIsSeq
<1> QED
  BY <1>2, <1>3, <1>4

(* Between two elements, or behind the last one.                           *)
LEMMA GapComes ==
  ASSUME NEW w, NEW S, NEW G, NEW O, NEW p, NEW T, NEW e, IsSource(w), IsTree(T),
         Path(w, S, G, O, p, T), Owed(w, S, T, p, e), T.type[T.root] = "GROUP",
         e \in SettingExpected \cup {"first", "comma"}
  PROVE  \E a, r : /\ Heads(G[p][Len(T.kids[p])], a, r)
                   /\ Comes(w, S, G, T, p, e, a, r)
<1> DEFINE n == Len(T.kids[p])
           ks == w.kids[S[p]]
           t == T.type[p]
           rest == Cat(w.text[ks[n + 1]], LeftBehind(w, G, T, p, n + 1))
<1>1. /\ p \in T.live /\ p \in O /\ S[p] \in w.nodes /\ w.type[S[p]] = t /\ t \in Aggregates
      /\ n <= Len(ks)
  BY DEF Path, Mirrors
<1>2. n \in Nat /\ Len(ks) \in Nat
  <2>1. T.kids[p] \in Seq(T.live)
    BY <1>1 DEF IsTree
  <2> QED
    BY <1>1, <2>1, LenProperties, BranchIsWritable
<1>3. /\ n = Len(ks) => G[p][n] = Close(w, G, T, p)
      /\ n < Len(ks) =>
           /\ ks[n + 1] \in w.nodes /\ w.text[ks[n + 1]] \in Seq(Vocabulary)
           /\ LeftBehind(w, G, T, p, n + 1) \in Seq(Vocabulary) /\ rest \in Seq(Vocabulary)
           /\ G[p][n] = Cat(Lead(t, w.name[ks[n + 1]], n + 1), rest)
           /\ t = "GROUP" => w.name[ks[n + 1]] \in Names
  <2> HIDE DEF n
  <2> QED
    BY <1>2, Within
<1>4. /\ e \in SettingExpected => t = "GROUP"
      /\ e \in {"first", "comma"} => t # "GROUP"
      /\ e = "first" => n = 0
      /\ e = "comma" => n >= 1
  BY DEF Owed, SettingExpected
<1>5. CASE n = Len(ks) /\ p = T.root
  <2>1. G[p][n] = <<Sign("EOF")>>
    BY <1>3, <1>5 DEF Close
  <2>2. Sign("EOF") \in Vocabulary
    BY SignsAreTokens
  <2>3. Cat(<<Sign("EOF")>>, <<>>) = <<Sign("EOF")>>
    BY DEF Cat
  <2>4. Heads(G[p][n], Sign("EOF"), <<>>)
    BY <2>1, <2>2, <2>3 DEF Heads
  <2>5. Comes(w, S, G, T, p, e, Sign("EOF"), <<>>)
    BY <1>4, <1>5 DEF Comes
  <2> QED
    BY <2>4, <2>5
<1>6. CASE n = Len(ks) /\ p # T.root
  <2> DEFINE q == T.parent[p]
             z == LeftBehind(w, G, T, q, Len(T.kids[q]))
  <2>1. G[p][n] = Cat(<<End(t)>>, z)
    BY <1>3, <1>6 DEF Close
  <2>2. End(t) \in Vocabulary
    BY <1>1, SignsAreTokens
  <2>3. z \in Seq(Vocabulary)
    <3>1. Path(w, S, G, O \ {p}, q, T)
      BY <1>6, PathCloses
    <3>2. q \in T.live /\ S[q] \in w.nodes /\ w.type[S[q]] \in Aggregates
          /\ Len(T.kids[q]) <= Len(w.kids[S[q]])
      BY <3>1 DEF Path, Mirrors
    <3>3. Len(T.kids[q]) \in Nat /\ Len(w.kids[S[q]]) \in Nat
      <4>1. T.kids[q] \in Seq(T.live)
        BY <3>2 DEF IsTree
      <4> QED
        BY <3>2, <4>1, LenProperties, BranchIsWritable
    <3>4. Len(T.kids[q]) \in 0 .. Len(w.kids[S[q]])
      BY <3>2, <3>3
    <3> QED
      BY <3>1, <3>4, LeftIsText
  <2>4. Heads(G[p][n], End(t), z)
    BY <2>1, <2>2, <2>3 DEF Heads
  <2>5. Comes(w, S, G, T, p, e, End(t), z)
    BY <1>6 DEF Comes
  <2> QED
    BY <2>4, <2>5
<1>7. CASE n < Len(ks) /\ e \in SettingExpected
  <2> DEFINE a == Name(w.name[ks[n + 1]])
             r == Cat(<<Sign("EQUALS")>>, rest)
  <2>1. a \in Vocabulary /\ Sign("EQUALS") \in Vocabulary
    BY <1>3, <1>4, <1>7, SignsAreTokens
  <2>2. Lead(t, w.name[ks[n + 1]], n + 1) = <<a, Sign("EQUALS")>>
    BY <1>4, <1>7 DEF Lead
  <2> HIDE DEF rest, a
  <2>3. G[p][n] = Cat(<<a>>, r) /\ r \in Seq(Vocabulary)
    <3>1. Cat(<<a, Sign("EQUALS")>>, rest) = Cat(<<a>>, r) /\ r \in Seq(Vocabulary)
      BY <1>3, <1>7, <2>1, CatTwo
    <3> QED
      BY <1>3, <1>7, <2>2, <3>1
  <2>4. Heads(G[p][n], a, r)
    BY <2>1, <2>3 DEF Heads
  <2>5. Comes(w, S, G, T, p, e, a, r)
    BY <1>7 DEF Comes, a, rest
  <2> QED
    BY <2>4, <2>5
<1>8. CASE n < Len(ks) /\ e = "comma"
  <2>1. Lead(t, w.name[ks[n + 1]], n + 1) = <<Sign("COMMA")>>
    BY <1>2, <1>4, <1>8 DEF Lead
  <2>2. Sign("COMMA") \in Vocabulary
    BY SignsAreTokens
  <2>3. Heads(G[p][n], Sign("COMMA"), rest)
    <3> HIDE DEF rest
    <3> QED
      BY <1>3, <1>8, <2>1, <2>2 DEF Heads
  <2>4. Comes(w, S, G, T, p, e, Sign("COMMA"), rest)
    BY <1>8 DEF Comes
  <2> QED
    BY <2>3, <2>4
<1>9. CASE n < Len(ks) /\ e = "first"
  <2>1. n = 0 /\ t # "GROUP"
    BY <1>4, <1>9
  <2>2. Lead(t, w.name[ks[n + 1]], n + 1) = <<>>
    BY <2>1 DEF Lead
  <2>3. G[p][n] = rest
    <3> HIDE DEF rest
    <3>1. Cat(<<>>, rest) = rest
      BY <1>3, <1>9, CatEmpty
    <3> QED
      BY <1>3, <1>9, <2>2, <3>1
  <2>4. Due(T, p) = n + 1 /\ Due(T, p) \in 1 .. Len(ks)
    BY <1>2, <1>9, <2>1 DEF Due
  <2>5. PICK a, r : /\ Heads(Cat(w.text[ks[n + 1]], LeftBehind(w, G, T, p, n + 1)), a, r)
                    /\ Value(w, ks[n + 1], a, r, LeftBehind(w, G, T, p, n + 1))
    BY <1>3, <1>9, ValueComes
  <2>6. Comes(w, S, G, T, p, e, a, r)
    BY <1>9, <2>4, <2>5 DEF Comes, ValueExpected
  <2> QED
    BY <2>3, <2>5, <2>6
<1>10. n = Len(ks) \/ n < Len(ks)
  BY <1>1, <1>2
<1> QED
  BY <1>5, <1>6, <1>7, <1>8, <1>9, <1>10

(* What is left begins with a token that is expected.                      *)
LEMMA TokenComes ==
  ASSUME NEW w, NEW S, NEW G, NEW O, NEW p, NEW T, NEW e, IsSource(w), IsTree(T),
         Path(w, S, G, O, p, T), Owed(w, S, T, p, e), T.type[T.root] = "GROUP"
  PROVE  \E a, r : /\ Heads(Left(w, S, G, T, p, e), a, r)
                   /\ Comes(w, S, G, T, p, e, a, r)
<1> DEFINE n == Len(T.kids[p])
           ks == w.kids[S[p]]
           t == T.type[p]
           k == Due(T, p)
<1>1. /\ p \in T.live /\ p \in O /\ S[p] \in w.nodes /\ w.type[S[p]] = t /\ t \in Aggregates
      /\ n <= Len(ks)
  BY DEF Path, Mirrors
<1>2. n \in Nat /\ Len(ks) \in Nat
  <2>1. T.kids[p] \in Seq(T.live)
    BY <1>1 DEF IsTree
  <2> QED
    BY <1>1, <2>1, LenProperties, BranchIsWritable
<1>3. n \in 0 .. Len(ks)
  BY <1>1, <1>2
<1>4. CASE e \in {"setting", "first"}
  <2>1. Left(w, S, G, T, p, e) = G[p][n]
    BY <1>4 DEF Left
  <2> QED
    BY <1>4, <2>1, GapComes DEF SettingExpected
<1>5. CASE e \in {"terminator", "comma"}
  <2>1. Left(w, S, G, T, p, e) = Cat(Ending(t, w.semicolons), G[p][n])
    BY <1>5 DEF Left, LeftBehind
  <2>2. G[p][n] \in Seq(Vocabulary)
    BY <1>3, LeftIsText
  <2>3. CASE t = "GROUP" /\ w.semicolons
    <3>1. e = "terminator"
      BY <1>5, <2>3 DEF Owed
    <3>2. Heads(Left(w, S, G, T, p, e), Sign("SEMICOLON"), G[p][n])
      <4>1. Ending(t, w.semicolons) = <<Sign("SEMICOLON")>>
        BY <2>3 DEF Ending
      <4>2. Sign("SEMICOLON") \in Vocabulary
        BY SignsAreTokens
      <4> QED
        BY <2>1, <2>2, <4>1, <4>2 DEF Heads
    <3>3. Comes(w, S, G, T, p, e, Sign("SEMICOLON"), G[p][n])
      BY <3>1 DEF Comes
    <3> QED
      BY <3>2, <3>3
  <2>4. CASE ~(t = "GROUP" /\ w.semicolons)
    <3>1. Ending(t, w.semicolons) = <<>>
      BY <2>4 DEF Ending
    <3>2. Cat(<<>>, G[p][n]) = G[p][n]
      BY <2>2, CatEmpty
    <3>3. Left(w, S, G, T, p, e) = G[p][n]
      BY <2>1, <3>1, <3>2
    <3> QED
      BY <1>5, <3>3, GapComes DEF SettingExpected
  <2> QED
    BY <2>3, <2>4
<1>6. ASSUME e \in {"equals", "value", "element", "string"}
      PROVE  /\ k \in 1 .. Len(ks) /\ ks[k] \in w.nodes
             /\ w.text[ks[k]] \in Seq(Vocabulary)
             /\ LeftBehind(w, G, T, p, k) \in Seq(Vocabulary)
  <2>1. k \in 1 .. Len(ks)
    BY <1>6 DEF Owed
  <2>2. k \in 0 .. Len(ks)
    BY <1>2, <2>1
  <2>3. ks[k] \in w.nodes
    BY <1>1, <2>1, BranchIsWritable
  <2> HIDE DEF k, ks
  <2>4. LeftBehind(w, G, T, p, k) \in Seq(Vocabulary)
    BY <2>2, LeftIsText DEF ks
  <2> QED
    BY <2>1, <2>3, <2>4 DEF IsSource
<1>7. CASE e \in {"value", "element"}
  <2>1. Left(w, S, G, T, p, e) = Cat(w.text[ks[k]], LeftBehind(w, G, T, p, k))
    BY <1>7 DEF Left
  <2>2. PICK a, r : /\ Heads(Cat(w.text[ks[k]], LeftBehind(w, G, T, p, k)), a, r)
                    /\ Value(w, ks[k], a, r, LeftBehind(w, G, T, p, k))
    <3>1. ks[k] \in w.nodes /\ LeftBehind(w, G, T, p, k) \in Seq(Vocabulary)
      BY <1>6, <1>7
    <3> QED
      BY <3>1, ValueComes
  <2>3. Comes(w, S, G, T, p, e, a, r)
    BY <1>6, <1>7, <2>2 DEF Comes, ValueExpected
  <2> QED
    BY <2>1, <2>2, <2>3
<1>8. CASE e = "equals"
  <2> DEFINE rest == Cat(w.text[ks[k]], LeftBehind(w, G, T, p, k))
  <2>1. Left(w, S, G, T, p, e) = Cat(<<Sign("EQUALS")>>, rest)
    BY <1>8 DEF Left
  <2>2. rest \in Seq(Vocabulary) /\ Sign("EQUALS") \in Vocabulary
    BY <1>6, <1>8, CatIsSeq, SignsAreTokens
  <2>3. Heads(Left(w, S, G, T, p, e), Sign("EQUALS"), rest)
    BY <2>1, <2>2 DEF Heads
  <2>4. k = n
    BY <1>8 DEF Owed, Due
  <2>5. Comes(w, S, G, T, p, e, Sign("EQUALS"), rest)
    BY <1>8, <2>4 DEF Comes
  <2> QED
    BY <2>3, <2>5
<1>9. CASE e = "string"
  <2>1. Left(w, S, G, T, p, e) = LeftBehind(w, G, T, p, k)
    BY <1>9 DEF Left
  <2>2. /\ k \in 1 .. Len(ks) /\ k \in Nat /\ k >= 1
    BY <1>6, <1>9
  <2>3. G[p][k] \in Seq(Vocabulary)
    <3>1. k \in 0 .. Len(ks)
      BY <1>2, <2>2
    <3> HIDE DEF k, ks
    <3> QED
      BY <3>1, LeftIsText DEF ks
  <2>4. \E a, r : Heads(G[p][k], a, r) /\ a.kind # "STRING"
    <3>1. k = Len(ks) \/ k < Len(ks)
      BY <1>2, <2>2
    <3>2. LET rest == Cat(w.text[ks[k + 1]], LeftBehind(w, G, T, p, k + 1))
          IN /\ k = Len(ks) => G[p][k] = Close(w, G, T, p)
             /\ k < Len(ks) =>
                  /\ rest \in Seq(Vocabulary)
                  /\ G[p][k] = Cat(Lead(t, w.name[ks[k + 1]], k + 1), rest)
                  /\ t = "GROUP" => w.name[ks[k + 1]] \in Names
      <4> HIDE DEF k
      <4> QED
        BY <2>2, Within
    <3> HIDE DEF k
    <3>3. CASE k < Len(ks) /\ t = "GROUP"
      <4> DEFINE a == Name(w.name[ks[k + 1]])
                 rest == Cat(w.text[ks[k + 1]], LeftBehind(w, G, T, p, k + 1))
                 r == Cat(<<Sign("EQUALS")>>, rest)
      <4>1. a \in Vocabulary /\ Sign("EQUALS") \in Vocabulary /\ rest \in Seq(Vocabulary)
        BY <3>2, <3>3, SignsAreTokens
      <4>2. G[p][k] = Cat(<<a, Sign("EQUALS")>>, rest)
        BY <3>2, <3>3 DEF Lead
      <4>3. a.kind # "STRING"
        BY DEF Name
      <4> HIDE DEF rest, a
      <4>4. Cat(<<a, Sign("EQUALS")>>, rest) = Cat(<<a>>, r) /\ r \in Seq(Vocabulary)
        BY <4>1, CatTwo
      <4> QED
        BY <4>1, <4>2, <4>3, <4>4 DEF Heads
    <3>4. CASE k < Len(ks) /\ t # "GROUP"
      <4> DEFINE rest == Cat(w.text[ks[k + 1]], LeftBehind(w, G, T, p, k + 1))
      <4>1. G[p][k] = Cat(<<Sign("COMMA")>>, rest)
        BY <2>2, <3>2, <3>4 DEF Lead
      <4>2. Sign("COMMA") \in Vocabulary /\ Sign("COMMA").kind # "STRING"
        BY SignsAreTokens DEF Sign
      <4>3. rest \in Seq(Vocabulary)
        BY <3>2, <3>4
      <4> HIDE DEF rest
      <4> QED
        BY <4>1, <4>2, <4>3 DEF Heads
    <3>5. CASE k = Len(ks) /\ p = T.root
      <4>1. G[p][k] = <<Sign("EOF")>>
        BY <3>2, <3>5 DEF Close
      <4>2. Sign("EOF") \in Vocabulary /\ Sign("EOF").kind # "STRING"
        BY SignsAreTokens DEF Sign
      <4>3. Cat(<<Sign("EOF")>>, <<>>) = <<Sign("EOF")>> /\ <<>> \in Seq(Vocabulary)
        BY EmptySeq DEF Cat
      <4>4. Heads(G[p][k], Sign("EOF"), <<>>)
        BY <4>1, <4>2, <4>3 DEF Heads
      <4> QED
        BY <4>2, <4>4
    <3>6. CASE k = Len(ks) /\ p # T.root
      <4> DEFINE q == T.parent[p]
                 z == LeftBehind(w, G, T, q, Len(T.kids[q]))
      <4>1. G[p][k] = Cat(<<End(t)>>, z)
        BY <3>2, <3>6 DEF Close
      <4>2. End(t) \in Vocabulary /\ End(t).kind # "STRING"
        BY <1>1, SignsAreTokens DEF End
      <4>3. z \in Seq(Vocabulary)
        <5>1. Path(w, S, G, O \ {p}, q, T)
          BY <3>6, PathCloses
        <5>2. q \in T.live /\ S[q] \in w.nodes /\ w.type[S[q]] \in Aggregates
              /\ Len(T.kids[q]) <= Len(w.kids[S[q]])
          BY <5>1 DEF Path, Mirrors
        <5>3. Len(T.kids[q]) \in Nat /\ Len(w.kids[S[q]]) \in Nat
          <6>1. T.kids[q] \in Seq(T.live)
            BY <5>2 DEF IsTree
          <6> QED
            BY <5>2, <6>1, LenProperties, BranchIsWritable
        <5>4. Len(T.kids[q]) \in 0 .. Len(w.kids[S[q]])
          BY <5>2, <5>3
        <5> QED
          BY <5>1, <5>4, LeftIsText
      <4> QED
        BY <4>1, <4>2, <4>3 DEF Heads
    <3> QED
      BY <3>1, <3>3, <3>4, <3>5, <3>6
  <2>5. CASE t = "GROUP" /\ w.semicolons
    <3>1. Left(w, S, G, T, p, e) = Cat(<<Sign("SEMICOLON")>>, G[p][k])
      BY <2>1, <2>5 DEF LeftBehind, Ending
    <3>2. Sign("SEMICOLON") \in Vocabulary /\ Sign("SEMICOLON").kind # "STRING"
      BY SignsAreTokens DEF Sign
    <3>3. Heads(Left(w, S, G, T, p, e), Sign("SEMICOLON"), G[p][k])
      BY <2>3, <3>1, <3>2 DEF Heads
    <3>4. Comes(w, S, G, T, p, e, Sign("SEMICOLON"), G[p][k])
      BY <1>9, <3>2 DEF Comes
    <3> QED
      BY <3>3, <3>4
  <2>6. CASE ~(t = "GROUP" /\ w.semicolons)
    <3>1. Left(w, S, G, T, p, e) = Cat(<<>>, G[p][k])
      BY <2>1, <2>6 DEF LeftBehind, Ending
    <3>2. Cat(<<>>, G[p][k]) = G[p][k]
      BY <2>3, CatEmpty
    <3>3. PICK a, r : Heads(G[p][k], a, r) /\ a.kind # "STRING"
      BY <2>4
    <3>4. Comes(w, S, G, T, p, e, a, r)
      BY <1>9, <3>3 DEF Comes
    <3> QED
      BY <3>1, <3>2, <3>3, <3>4
  <2> QED
    BY <2>5, <2>6
<1>10. e \in {"setting", "first", "terminator", "comma", "equals", "value", "element", "string"}
  BY DEF Owed
<1> QED
  BY <1>4, <1>5, <1>7, <1>8, <1>9, <1>10

-----------------------------------------------------------------------------
(* The settings as the tree, and the invariant of the second read.         *)

(* The tree as it is.                                                      *)
Now == Tree(live, root, kids, type, name, parent)

LEMMA NowIs ==
  /\ Now.live = live /\ Now.root = root /\ Now.kids = kids /\ Now.type = type
  /\ Now.name = name /\ Now.parent = parent
BY DEF Now, Tree

LEMMA NowIsTree ==
  ASSUME IInv, root \in live
  PROVE  IsTree(Now) /\ Now.type[Now.root] = "GROUP"
<1>1. TypeOK /\ TreeOK /\ root # NULL
  BY SettingAssumption DEF IInv, TypeOK
<1>2. ASSUME NEW x \in live
      PROVE  /\ kids[x] \in Seq(live)
             /\ \A i \in 1 .. Len(kids[x]) : parent[kids[x][i]] = x /\ kids[x][i] # root
  <2> DEFINE N == Len(kids[x])
  <2>1. kids[x] \in Seq(Settings) /\ x \in Settings
    BY <1>1 DEF TypeOK
  <2>2. N \in Nat /\ DOMAIN kids[x] = 1 .. N /\ kids[x] = [i \in 1 .. N |-> kids[x][i]]
    BY <2>1, LenProperties
  <2>3. \A i \in 1 .. N : kids[x][i] \in live /\ parent[kids[x][i]] = x
    BY <1>1, <2>2 DEF TreeOK, ElementsAreLive
  <2>4. parent[root] = NULL /\ x # NULL
    BY <1>1, <2>1, SettingAssumption DEF TreeOK, OnlyRootIsLoose
  <2>5. kids[x] \in Seq(live)
    <3>1. PICK k, m : k = kids[x] /\ m = N
      OBVIOUS
    <3> HIDE DEF N
    <3>2. m \in Nat /\ k = [i \in 1 .. m |-> k[i]] /\ \A i \in 1 .. m : k[i] \in live
      BY <2>2, <2>3, <3>1
    <3>3. k \in Seq(live)
      BY <3>2
    <3> QED
      BY <3>1, <3>3
  <2> QED
    BY <2>3, <2>4, <2>5
<1>3. type[root] = "GROUP"
  BY <1>1 DEF TreeOK, RootIsGroup
<1> QED
  BY <1>2, <1>3, NowIs DEF IsTree

(* A token behind the text that was read.                                  *)
LEMMA HeadsFirst ==
  ASSUME NEW v \in Seq(Vocabulary), NEW left, NEW a, NEW r, Heads(left, a, r)
  PROVE  /\ Cat(Append(v, a), r) = Cat(v, left)
         /\ Len(v) + 1 <= Len(Cat(v, left)) /\ Cat(v, left)[Len(v) + 1] = a
         /\ left \in Seq(Vocabulary) /\ left[1] = a
<1>1. a \in Vocabulary /\ r \in Seq(Vocabulary) /\ left = Cat(<<a>>, r)
  BY DEF Heads
<1>2. PICK u : u = <<a>>
  OBVIOUS
<1>3. u \in Seq(Vocabulary) /\ Len(u) = 1 /\ u[1] = a
  BY <1>1, <1>2
<1>4. left \in Seq(Vocabulary) /\ left = u \o r
  BY <1>1, <1>2, <1>3, CatIsSeq DEF Cat
<1>5. Cat(Cat(v, u), r) = Cat(v, Cat(u, r))
  BY <1>1, <1>3, CatAssociates
<1>6. Cat(v, u) = Append(v, a)
  BY <1>1, <1>2, ConcatOne DEF Cat
<1>7. Len(left) = 1 + Len(r) /\ left[1] = a /\ Len(r) \in Nat
  <2>1. /\ Len(r) \in Nat /\ Len(u \o r) = Len(u) + Len(r)
        /\ \A i \in 1 .. Len(u) + Len(r) :
             (u \o r)[i] = IF i <= Len(u) THEN u[i] ELSE r[i - Len(u)]
    BY <1>1, <1>3, ConcatProperties, LenProperties
  <2>2. 1 \in 1 .. Len(u) + Len(r) /\ 1 <= Len(u)
    BY <1>3, <2>1
  <2> QED
    BY <1>3, <1>4, <2>1, <2>2
<1>8. /\ Len(v) \in Nat /\ Len(v \o left) = Len(v) + Len(left)
      /\ (v \o left)[Len(v) + 1] = left[1]
  <2>1. /\ Len(v) \in Nat /\ Len(v \o left) = Len(v) + Len(left)
        /\ \A i \in 1 .. Len(v) + Len(left) :
             (v \o left)[i] = IF i <= Len(v) THEN v[i] ELSE left[i - Len(v)]
    BY <1>4, ConcatProperties, LenProperties
  <2>2. Len(v) + 1 \in 1 .. Len(v) + Len(left) /\ ~(Len(v) + 1 <= Len(v))
        /\ (Len(v) + 1) - Len(v) = 1
    BY <1>7, <2>1
  <2> QED
    BY <2>1, <2>2
<1> QED
  BY <1>1, <1>2, <1>4, <1>5, <1>6, <1>7, <1>8 DEF Cat

(* The parser is where it is in the text that was written: what was read,  *)
(* followed by what is left, is all of it.                                 *)
Whole == Append(written, Sign("EOF"))
Ahead(left) == /\ Cat(text, left) = Whole
               /\ look # NULL => \E r : Heads(left, look, r)
Rest(w, S, G) == Left(w, S, G, Now, ctxParent, expect)
RoundTo(w, S, G, O) ==
  /\ IsSource(w)
  /\ Path(w, S, G, O, ctxParent, Now)
  /\ Owed(w, S, Now, ctxParent, expect)
  /\ Ahead(Rest(w, S, G))

(* The inductive invariant of a text that was written and is read again.   *)
RoundInv ==
  written # NULL =>
    /\ phase \notin {"refused", "failed"}
    /\ phase = "reading" => \E w, S, G, O : RoundTo(w, S, G, O)
    /\ phase = "accepted" => text = Whole

(* The only token that may come, and what is behind it.                    *)
Round(w, S, G, O, a, r) ==
  /\ RoundTo(w, S, G, O)
  /\ Heads(Rest(w, S, G), a, r)
  /\ Comes(w, S, G, Now, ctxParent, expect, a, r)
  /\ NextTokens = {a}
  /\ ParserInv /\ written # NULL /\ phase = "reading"

LEMMA NextIs ==
  ASSUME InputOK, written # NULL, NEW left, Ahead(left), NEW a, NEW r, Heads(left, a, r)
  PROVE  NextTokens = {a}
<1>1. text \in Seq(Vocabulary) /\ written \in Seq(Vocabulary)
  BY DEF InputOK
<1>2. CASE look # NULL
  <2>1. PICK r2 : Heads(left, look, r2)
    BY <1>2 DEF Ahead
  <2>2. look = a
    BY <1>1, <2>1, HeadsFirst
  <2> QED
    BY <1>2, <2>2 DEF NextTokens
<1>3. CASE look = NULL
  <2>1. Len(text) + 1 <= Len(Whole) /\ Whole[Len(text) + 1] = a
    BY <1>1, HeadsFirst DEF Ahead
  <2>2. PICK e \in Vocabulary : e = Sign("EOF")
    BY SignsAreTokens
  <2>3. /\ Len(Append(written, e)) = Len(written) + 1
        /\ Append(written, e)[Len(written) + 1] = e
        /\ \A i \in 1 .. Len(written) : Append(written, e)[i] = written[i]
        /\ Len(written) \in Nat /\ Len(text) \in Nat
    BY <1>1, AppendProperties, LenProperties
  <2>4. Whole = Append(written, e)
    BY <2>2 DEF Whole
  <2>5. a = IF Len(text) < Len(written) THEN written[Len(text) + 1] ELSE Sign("EOF")
    <3>1. CASE Len(text) < Len(written)
      <4>1. Len(text) + 1 \in 1 .. Len(written)
        BY <2>3, <3>1
      <4> QED
        BY <2>1, <2>3, <2>4, <3>1, <4>1
    <3>2. CASE ~(Len(text) < Len(written))
      <4>1. Len(text) + 1 = Len(written) + 1
        BY <2>1, <2>3, <2>4, <3>2
      <4> QED
        BY <2>1, <2>2, <2>3, <2>4, <3>2, <4>1
    <3> QED
      BY <3>1, <3>2
  <2> QED
    BY <1>3, <2>5 DEF NextTokens
<1> QED
  BY <1>2, <1>3

LEMMA RoundComes ==
  ASSUME ParserInv, RoundInv, phase = "reading", written # NULL
  PROVE  \E w, S, G, O, a, r : Round(w, S, G, O, a, r)
<1>1. PICK w, S, G, O : RoundTo(w, S, G, O)
  BY DEF RoundInv
<1>2. ParseInv /\ InputOK /\ IInv
  BY TreeFacts DEF ParserInv, ParseInv
<1>3. root \in live
  <2>1. Now.root \in O /\ O \in SUBSET Now.live
    BY <1>1 DEF RoundTo, Path
  <2> QED
    BY <2>1, NowIs
<1>4. IsTree(Now) /\ Now.type[Now.root] = "GROUP"
  BY <1>2, <1>3, NowIsTree
<1>5. PICK a, r : /\ Heads(Rest(w, S, G), a, r)
                  /\ Comes(w, S, G, Now, ctxParent, expect, a, r)
  BY <1>1, <1>4, TokenComes DEF RoundTo, Rest
<1>6. NextTokens = {a}
  BY <1>1, <1>2, <1>5, NextIs DEF RoundTo
<1> QED
  BY <1>1, <1>5, <1>6 DEF Round

(* The token was shifted.                                                  *)
LEMMA RoundGoesOn ==
  ASSUME NEW w, NEW S, NEW G, NEW O, NEW a, NEW r, Round(w, S, G, O, a, r), Shift(a),
         NEW S2, NEW G2, NEW O2, Path(w, S2, G2, O2, ctxParent', Now'),
         Owed(w, S2, Now', ctxParent', expect'), Rest(w, S2, G2)' = r, phase' = "reading"
  PROVE  RoundInv'
<1>1. text \in Seq(Vocabulary) /\ Cat(text, Rest(w, S, G)) = Whole /\ IsSource(w)
  BY DEF Round, RoundTo, Ahead, ParserInv, ParseInv, InputOK
<1>2. Cat(Append(text, a), r) = Whole
  BY <1>1, HeadsFirst DEF Round
<1>3. text' = Append(text, a) /\ look' = NULL /\ written' = written
  BY DEF Shift
<1>4. Cat(text', r) = Whole'
  BY <1>2, <1>3 DEF Whole
<1>5. Ahead(Rest(w, S2, G2))'
  BY <1>3, <1>4 DEF Ahead
<1>6. RoundTo(w, S2, G2, O2)'
  BY <1>1, <1>5 DEF RoundTo
<1> QED
  BY <1>6 DEF RoundInv

-----------------------------------------------------------------------------
(* Each step keeps the parser where it is in the text.                     *)

LEMMA RoundFacts ==
  ASSUME NEW w, NEW S, NEW G, NEW O, NEW a, NEW r, Round(w, S, G, O, a, r)
  PROVE  /\ ParserInv /\ ParseInv /\ InputOK /\ StackOK /\ Located /\ TreeInv /\ IInv
         /\ phase = "reading" /\ written # NULL
         /\ IsSource(w) /\ IsTree(Now) /\ Path(w, S, G, O, ctxParent, Now)
         /\ Owed(w, S, Now, ctxParent, expect)
         /\ Comes(w, S, G, Now, ctxParent, expect, a, r)
         /\ a \in Vocabulary /\ (IsToken(a) \/ a = Sign("EOF"))
         /\ type[root] = "GROUP" /\ root \in live
<1>1. /\ ParserInv /\ phase = "reading" /\ written # NULL /\ RoundTo(w, S, G, O)
      /\ Comes(w, S, G, Now, ctxParent, expect, a, r) /\ NextTokens = {a}
  BY DEF Round
<1>2. IsSource(w) /\ Path(w, S, G, O, ctxParent, Now) /\ Owed(w, S, Now, ctxParent, expect)
  BY <1>1 DEF RoundTo
<1>3. ParseInv /\ InputOK /\ StackOK /\ Located /\ TreeInv /\ IInv
  BY <1>1, TreeFacts DEF ParserInv, ParseInv
<1>4. root \in live
  BY <1>2, NowIs DEF Path
<1>5. IsTree(Now) /\ type[root] = "GROUP"
  BY <1>3, <1>4, NowIsTree, NowIs
<1>6. a \in Vocabulary /\ (IsToken(a) \/ a = Sign("EOF"))
  BY <1>1, <1>3, TokensRead
<1> QED
  BY <1>1, <1>2, <1>3, <1>4, <1>5, <1>6

LEMMA RoundNumbers ==
  ASSUME NEW w, NEW S, NEW G, NEW O, NEW a, NEW r, Round(w, S, G, O, a, r)
  PROVE  LET n == Len(kids[ctxParent])
             ks == w.kids[S[ctxParent]]
         IN /\ ctxParent \in live /\ ctxParent \in O
            /\ type[ctxParent] = Enclosing /\ type[ctxParent] \in Aggregates
            /\ S[ctxParent] \in w.nodes /\ w.type[S[ctxParent]] = type[ctxParent]
            /\ n \in Nat /\ Len(ks) \in Nat /\ n <= Len(ks)
            /\ \A i \in 1 .. Len(ks) : ks[i] \in w.nodes
            /\ Due(Now, ctxParent) = IF type[ctxParent] = "GROUP" THEN n ELSE n + 1
            /\ ctxParent = root <=> open = <<>>
<1> DEFINE n == Len(kids[ctxParent])
           ks == w.kids[S[ctxParent]]
<1>1. /\ ParseInv /\ StackOK /\ Located /\ IInv /\ phase = "reading" /\ root \in live
      /\ IsSource(w) /\ IsTree(Now) /\ Path(w, S, G, O, ctxParent, Now)
  BY RoundFacts
<1>2. /\ Now.kids = kids /\ Now.type = type /\ Now.live = live
  BY NowIs
<1>3. /\ ctxParent \in live /\ ctxParent \in O
      /\ S[ctxParent] \in w.nodes /\ w.type[S[ctxParent]] = type[ctxParent]
      /\ type[ctxParent] \in Aggregates /\ n <= Len(ks)
  BY <1>1, <1>2 DEF Path, Mirrors
<1>4. type[ctxParent] = Enclosing
  BY <1>1, ParentIs
<1>5. Len(ks) \in Nat /\ \A i \in 1 .. Len(ks) : ks[i] \in w.nodes
  BY <1>1, <1>3, BranchIsWritable
<1>6. n \in Nat
  <2>1. kids[ctxParent] \in Seq(live)
    BY <1>1, <1>2, <1>3 DEF IsTree
  <2> QED
    BY <2>1, LenProperties
<1>7. Due(Now, ctxParent) = IF type[ctxParent] = "GROUP" THEN n ELSE n + 1
  BY <1>2 DEF Due
<1>8. ctxParent = root <=> open = <<>>
  <2>1. PICK up \in [1 .. Len(open) + 1 -> live] : WayUp(up, ctxParent, open, type, parent, root)
    BY <1>1 DEF Located, Up
  <2>2. CASE open = <<>>
    BY <2>1, <2>2, EmptySeq DEF WayUp
  <2>3. CASE open # <<>>
    <3>1. open \in Seq(Aggregates) /\ Len(open) \in Nat /\ Len(open) # 0
          /\ DOMAIN open = 1 .. Len(open)
      BY <1>1, <2>3, EmptySeq, LenProperties DEF StackOK
    <3>2. 1 \in DOMAIN open /\ 1 + 1 \in 1 .. Len(open) + 1
      BY <3>1
    <3>3. parent[ctxParent] \in live
      BY <2>1, <3>2 DEF WayUp
    <3>4. parent[root] = NULL /\ NULL \notin live
      BY <1>1, SettingAssumption DEF IInv, TypeOK, TreeOK, OnlyRootIsLoose
    <3> QED
      BY <2>3, <3>3, <3>4
  <2> QED
    BY <2>2, <2>3
<1> QED
  BY <1>3, <1>4, <1>5, <1>6, <1>7, <1>8

(* By its kind the token tells what comes.                                 *)
LEMMA KindComes ==
  ASSUME NEW w, NEW S, NEW G, NEW O, NEW p, NEW T, NEW e, NEW a, NEW r,
         Comes(w, S, G, T, p, e, a, r), e # "string"
  PROVE  LET n == Len(T.kids[p])
             ks == w.kids[S[p]]
             k == Due(T, p)
             q == T.parent[p]
         IN /\ a.kind = "SEMICOLON" => e = "terminator" /\ r = G[p][n]
            /\ a.kind = "NAME" =>
                 /\ e \in SettingExpected /\ n < Len(ks) /\ a = Name(w.name[ks[n + 1]])
                 /\ r = Cat(<<Sign("EQUALS")>>,
                            Cat(w.text[ks[n + 1]], LeftBehind(w, G, T, p, n + 1)))
            /\ a.kind = "EOF" => p = T.root /\ r = <<>>
            /\ a.kind = "END" => p # T.root /\ r = LeftBehind(w, G, T, q, Len(T.kids[q]))
            /\ a.kind = "EQUALS" => r = Cat(w.text[ks[n]], LeftBehind(w, G, T, p, n))
            /\ a.kind \in {"START", "SCALAR", "STRING"} =>
                 /\ e \in ValueExpected /\ k \in 1 .. Len(ks)
                 /\ Value(w, ks[k], a, r, LeftBehind(w, G, T, p, k))
            /\ a.kind = "COMMA" =>
                 /\ e = "comma" /\ n < Len(ks)
                 /\ r = Cat(w.text[ks[n + 1]], LeftBehind(w, G, T, p, n + 1))
<1> DEFINE n == Len(T.kids[p])
           ks == w.kids[S[p]]
           t == T.type[p]
           k == Due(T, p)
           q == T.parent[p]
           l == Cat(<<Sign("EQUALS")>>, Cat(w.text[ks[n + 1]], LeftBehind(w, G, T, p, n + 1)))
           c == Cat(w.text[ks[n + 1]], LeftBehind(w, G, T, p, n + 1))
           u == Cat(w.text[ks[n]], LeftBehind(w, G, T, p, n))
           y == LeftBehind(w, G, T, q, Len(T.kids[q]))
           v == Value(w, ks[k], a, r, LeftBehind(w, G, T, p, k))
           x == G[p][n]
           na == w.name[ks[n + 1]]
           N == Len(ks)
<1>1. \/ a = Sign("SEMICOLON") /\ e = "terminator" /\ r = x
      \/ e \in SettingExpected /\ n < N /\ a = Name(na) /\ r = l
      \/ a = Sign("EOF") /\ e \in SettingExpected /\ p = T.root /\ r = <<>>
      \/ /\ a = End(t) /\ e \in SettingExpected \cup {"first", "comma"} /\ p # T.root
         /\ r = y
      \/ a = Sign("EQUALS") /\ e = "equals" /\ r = u
      \/ e \in ValueExpected /\ k \in 1 .. N /\ v
      \/ a = Sign("COMMA") /\ e = "comma" /\ n < N /\ r = c
  BY DEF Comes
<1>2. v => a.kind \in {"START", "SCALAR", "STRING"}
  BY DEF Value, Start
<1> HIDE DEF l, c, u, y, v, x, na, t, k, n, N
<1>3. \/ a.kind = "SEMICOLON" /\ e = "terminator" /\ r = x
      \/ a.kind = "NAME" /\ e \in SettingExpected /\ n < N /\ a = Name(na) /\ r = l
      \/ a.kind = "EOF" /\ p = T.root /\ r = <<>>
      \/ a.kind = "END" /\ p # T.root /\ r = y
      \/ a.kind = "EQUALS" /\ r = u
      \/ e \in ValueExpected /\ k \in 1 .. N /\ v /\ a.kind \in {"START", "SCALAR", "STRING"}
      \/ a.kind = "COMMA" /\ e = "comma" /\ n < N /\ r = c
  BY <1>1, <1>2 DEF Sign, Name, End
<1>4. /\ a.kind = "SEMICOLON" => e = "terminator" /\ r = x
      /\ a.kind = "NAME" => e \in SettingExpected /\ n < N /\ a = Name(na) /\ r = l
      /\ a.kind = "EOF" => p = T.root /\ r = <<>>
      /\ a.kind = "END" => p # T.root /\ r = y
      /\ a.kind = "EQUALS" => r = u
      /\ a.kind \in {"START", "SCALAR", "STRING"} => e \in ValueExpected /\ k \in 1 .. N /\ v
      /\ a.kind = "COMMA" => e = "comma" /\ n < N /\ r = c
  BY <1>3
<1> QED
  BY <1>4 DEF l, c, u, y, v, x, na, t, k, n, N

LEMMA ParentType == ParseInv /\ phase = "reading" => type[ctxParent] = Enclosing
BY ParentIs

(* The settings stay as they are.                                          *)
LEMMA NowStays == ASSUME UNCHANGED vars PROVE Now' = Now
BY DEF Now, Tree, vars

LEMMA ParseSeparatorRound ==
  ASSUME NEW w, NEW S, NEW G, NEW O, NEW a, NEW r, Round(w, S, G, O, a, r), ParseSeparator(a)
  PROVE  RoundInv'
<1>1. /\ Shift(a) /\ a.kind \in {"COMMA", "SEMICOLON"} /\ UNCHANGED vars
      /\ expect' = (IF expect = "terminator" THEN "setting" ELSE "element")
      /\ ctxParent' = ctxParent /\ phase' = "reading"
  BY RoundFacts DEF ParseSeparator, context
<1>2. Now' = Now
  BY <1>1, NowStays
<1> DEFINE n == Len(kids[ctxParent])
           ks == w.kids[S[ctxParent]]
<1>3. /\ Path(w, S, G, O, ctxParent, Now) /\ Owed(w, S, Now, ctxParent, expect)
      /\ Comes(w, S, G, Now, ctxParent, expect, a, r)
  BY RoundFacts
<1>4. /\ n \in Nat /\ Len(ks) \in Nat
      /\ Due(Now, ctxParent) = IF type[ctxParent] = "GROUP" THEN n ELSE n + 1
      /\ Now.kids = kids /\ Now.type = type
  BY RoundNumbers, NowIs
<1>5. \/ a.kind = "SEMICOLON" /\ expect = "terminator" /\ r = G[ctxParent][n]
      \/ /\ a.kind = "COMMA" /\ expect = "comma" /\ n < Len(ks)
         /\ r = Cat(w.text[ks[n + 1]], LeftBehind(w, G, Now, ctxParent, n + 1))
  <2>1. expect # "string"
    BY DEF ParseSeparator, Allowed, StartsValue
  <2> QED
    BY <1>1, <1>3, <1>4, <2>1, KindComes
<1>6. CASE expect = "terminator"
  <2>1. expect' = "setting" /\ type[ctxParent] = "GROUP" /\ r = G[ctxParent][n]
    BY <1>1, <1>3, <1>4, <1>5, <1>6 DEF Owed
  <2>2. Owed(w, S, Now', ctxParent', expect')
    BY <1>1, <1>2, <1>4, <2>1 DEF Owed
  <2>3. Rest(w, S, G)' = r
    BY <1>1, <1>2, <1>4, <2>1 DEF Rest, Left
  <2> QED
    BY <1>1, <1>2, <1>3, <2>2, <2>3, RoundGoesOn
<1>7. CASE expect = "comma"
  <2>1. expect' = "element" /\ type[ctxParent] # "GROUP"
    BY <1>1, <1>3, <1>4, <1>7 DEF Owed
  <2>2. Due(Now, ctxParent) = n + 1 /\ n < Len(ks)
        /\ r = Cat(w.text[ks[n + 1]], LeftBehind(w, G, Now, ctxParent, n + 1))
    BY <1>4, <1>5, <1>7, <2>1
  <2>3. Owed(w, S, Now', ctxParent', expect')
    BY <1>1, <1>2, <1>4, <2>1, <2>2 DEF Owed
  <2>4. Rest(w, S, G)' = r
    BY <1>1, <1>2, <1>4, <2>1, <2>2 DEF Rest, Left
  <2> QED
    BY <1>1, <1>2, <1>3, <2>3, <2>4, RoundGoesOn
<1> QED
  BY <1>5, <1>6, <1>7

LEMMA ParseEqualsRound ==
  ASSUME NEW w, NEW S, NEW G, NEW O, NEW a, NEW r, Round(w, S, G, O, a, r), ParseEquals(a)
  PROVE  RoundInv'
<1>1. /\ Shift(a) /\ a.kind = "EQUALS" /\ UNCHANGED vars /\ expect' = "value"
      /\ ctxParent' = ctxParent /\ phase' = "reading"
  BY RoundFacts DEF ParseEquals, context
<1>2. Now' = Now
  BY <1>1, NowStays
<1> DEFINE n == Len(kids[ctxParent])
           ks == w.kids[S[ctxParent]]
<1>3. /\ Path(w, S, G, O, ctxParent, Now) /\ Owed(w, S, Now, ctxParent, expect)
      /\ Comes(w, S, G, Now, ctxParent, expect, a, r)
  BY RoundFacts
<1>4. /\ Due(Now, ctxParent) = IF type[ctxParent] = "GROUP" THEN n ELSE n + 1
      /\ Now.kids = kids /\ Now.type = type
  BY RoundNumbers, NowIs
<1>5. expect = "equals" /\ r = Cat(w.text[ks[n]], LeftBehind(w, G, Now, ctxParent, n))
  <2>1. expect = "equals"
    BY <1>1 DEF ParseEquals, Allowed, StartsValue
  <2> QED
    BY <1>1, <1>3, <1>4, <2>1, KindComes
<1>6. type[ctxParent] = "GROUP" /\ Due(Now, ctxParent) = n /\ n \in 1 .. Len(ks)
  BY <1>3, <1>4, <1>5 DEF Owed
<1>7. Owed(w, S, Now', ctxParent', expect')
  BY <1>1, <1>2, <1>4, <1>6 DEF Owed
<1>8. Rest(w, S, G)' = r
  BY <1>1, <1>2, <1>4, <1>5, <1>6 DEF Rest, Left
<1> QED
  BY <1>1, <1>2, <1>3, <1>7, <1>8, RoundGoesOn

LEMMA ParseStringRound ==
  ASSUME NEW w, NEW S, NEW G, NEW O, NEW a, NEW r, Round(w, S, G, O, a, r), ParseString(a)
  PROVE  RoundInv'
<1>1. /\ Shift(a) /\ a.kind = "STRING" /\ UNCHANGED vars /\ expect' = "string"
      /\ ctxParent' = ctxParent /\ phase' = "reading"
  BY RoundFacts DEF ParseString
<1>2. Now' = Now
  BY <1>1, NowStays
<1> DEFINE k == Due(Now, ctxParent)
           ks == w.kids[S[ctxParent]]
<1>3. /\ Path(w, S, G, O, ctxParent, Now) /\ Owed(w, S, Now, ctxParent, expect)
      /\ Comes(w, S, G, Now, ctxParent, expect, a, r)
      /\ a \in Vocabulary
  BY RoundFacts
<1>4. a.type = "STRING"
  BY <1>1, <1>3, KindsOfTokens DEF Quoted, Scalar
<1>5. /\ k \in 1 .. Len(ks) /\ Value(w, ks[k], a, r, LeftBehind(w, G, Now, ctxParent, k))
  BY <1>1, <1>3 DEF Comes, Sign, Start, End, Name
<1>6. w.type[ks[k]] = "STRING" /\ r = LeftBehind(w, G, Now, ctxParent, k)
  BY <1>1, <1>4, <1>5 DEF Value, Start
<1>7. Owed(w, S, Now', ctxParent', expect')
  BY <1>1, <1>2, <1>5, <1>6 DEF Owed
<1>8. Rest(w, S, G)' = r
  BY <1>1, <1>2, <1>6 DEF Rest, Left
<1> QED
  BY <1>1, <1>2, <1>3, <1>7, <1>8, RoundGoesOn

LEMMA ParseEndRound ==
  ASSUME NEW w, NEW S, NEW G, NEW O, NEW a, NEW r, Round(w, S, G, O, a, r), ParseEnd(a),
         ParserInv'
  PROVE  RoundInv'
<1>1. /\ Shift(a) /\ a.kind = "END" /\ UNCHANGED vars
      /\ expect' = AfterValue(Enclosing')
      /\ ctxParent' = (IF ctxParent = NULL THEN NULL ELSE parent[ctxParent])
      /\ phase' = "reading"
  BY RoundFacts DEF ParseEnd
<1>2. Now' = Now /\ type' = type
  BY <1>1, NowStays DEF vars
<1>3. /\ Path(w, S, G, O, ctxParent, Now) /\ IsTree(Now)
      /\ Comes(w, S, G, Now, ctxParent, expect, a, r) /\ ParseInv /\ phase = "reading"
  BY RoundFacts
<1>4. /\ Now.kids = kids /\ Now.type = type /\ Now.parent = parent /\ Now.root = root
      /\ Now.live = live
  BY NowIs
<1> DEFINE q == parent[ctxParent]
<1>5. ctxParent # root /\ r = LeftBehind(w, G, Now, q, Len(kids[q]))
  <2>1. expect # "string"
    BY <1>1 DEF ParseEnd, Allowed, StartsValue, SettingExpected
  <2> QED
    BY <1>1, <1>3, <1>4, <2>1, KindComes
<1>6. Path(w, S, G, O \ {ctxParent}, q, Now) /\ kids[q] # <<>>
  BY <1>3, <1>4, <1>5, PathCloses
<1>7. ctxParent' = q
  BY <1>1, <1>3, ParentIs
<1>8. q \in live /\ Len(kids[q]) \in Nat /\ Len(kids[q]) # 0
  <2>1. q \in Now.live
    BY <1>6 DEF Path
  <2>2. kids[q] \in Seq(live)
    BY <1>3, <1>4, <2>1 DEF IsTree
  <2> QED
    BY <1>4, <1>6, <2>1, <2>2, EmptySeq, LenProperties
<1>9. type[q] = Enclosing'
  <2>1. (ParseInv /\ phase = "reading" => type[ctxParent] = Enclosing)'
    BY ParentType, PTL
  <2> QED
    BY <1>1, <1>2, <1>7, <2>1 DEF ParserInv
<1>10. expect' = IF type[q] = "GROUP" THEN "terminator" ELSE "comma"
  BY <1>1, <1>9 DEF AfterValue
<1>11. Owed(w, S, Now', ctxParent', expect')
  BY <1>2, <1>4, <1>7, <1>8, <1>10 DEF Owed
<1>12. Rest(w, S, G)' = r
  BY <1>2, <1>4, <1>5, <1>7, <1>10 DEF Rest, Left
<1> QED
  BY <1>1, <1>2, <1>6, <1>7, <1>11, <1>12, RoundGoesOn

LEMMA ParseEofRound ==
  ASSUME NEW w, NEW S, NEW G, NEW O, NEW a, NEW r, Round(w, S, G, O, a, r), ParseEof(a)
  PROVE  RoundInv'
<1>1. /\ Shift(a) /\ a.kind = "EOF" /\ phase' = "accepted"
  BY DEF ParseEof, Return
<1>2. r = <<>>
  <2>1. Comes(w, S, G, Now, ctxParent, expect, a, r) /\ expect # "string"
    BY RoundFacts DEF ParseEof, Allowed, StartsValue, SettingExpected
  <2> QED
    BY <1>1, <2>1, KindComes
<1>3. text \in Seq(Vocabulary) /\ Cat(text, Rest(w, S, G)) = Whole /\ a \in Vocabulary
  BY RoundFacts DEF Round, RoundTo, Ahead, InputOK
<1>4. Cat(Append(text, a), <<>>) = Whole
  BY <1>2, <1>3, HeadsFirst DEF Round
<1>5. text' = Append(text, a) /\ written' = written
  BY <1>1 DEF Shift
<1>6. Cat(Append(text, a), <<>>) = Append(text, a)
  <2>1. Append(text, a) \in Seq(Vocabulary)
    BY <1>3, AppendProperties
  <2> QED
    BY <2>1, ConcatEmptySeq DEF Cat
<1> QED
  BY <1>1, <1>4, <1>5, <1>6 DEF RoundInv, Whole

(* The token that comes is allowed.                                        *)
LEMMA RoundIsLegal ==
  ASSUME NEW w, NEW S, NEW G, NEW O, NEW a, NEW r, Round(w, S, G, O, a, r), expect # "string"
  PROVE  Allowed(a)
<1> DEFINE n == Len(kids[ctxParent])
           ks == w.kids[S[ctxParent]]
           k == Due(Now, ctxParent)
<1>1. /\ Comes(w, S, G, Now, ctxParent, expect, a, r) /\ IsSource(w)
      /\ Owed(w, S, Now, ctxParent, expect) /\ StackOK
  BY RoundFacts
<1>2. /\ type[ctxParent] = Enclosing /\ type[ctxParent] \in Aggregates
      /\ S[ctxParent] \in w.nodes /\ w.type[S[ctxParent]] = type[ctxParent]
      /\ ctxParent = root <=> open = <<>>
      /\ Now.type = type /\ Now.root = root
  BY RoundNumbers, NowIs
<1>3. CASE a = Sign("SEMICOLON") /\ expect = "terminator"
  BY <1>3 DEF Allowed, Sign
<1>4. CASE expect \in SettingExpected /\ a = Name(w.name[ks[n + 1]])
  BY <1>4, Zenon DEF Allowed, Name
<1>5. CASE a = Sign("EOF") /\ expect \in SettingExpected /\ ctxParent = root
  BY <1>2, <1>5 DEF Allowed, Sign
<1>6. CASE a = End(type[ctxParent]) /\ expect \in SettingExpected \cup {"first", "comma"}
           /\ ctxParent # root
  <2>1. a.kind = "END" /\ a.of = type[ctxParent] /\ open # <<>> /\ Enclosing = a.of
    BY <1>2, <1>6 DEF End
  <2>2. expect \in IF a.of = "GROUP" THEN SettingExpected ELSE {"first", "element", "comma"}
    BY <1>1, <1>2, <1>6, <2>1 DEF SettingExpected, StackOK
  <2> QED
    BY <2>1, <2>2 DEF Allowed
<1>7. CASE a = Sign("EQUALS") /\ expect = "equals"
  BY <1>7 DEF Allowed, Sign
<1>8. CASE /\ expect \in ValueExpected /\ k \in 1 .. Len(ks)
           /\ Value(w, ks[k], a, r, LeftBehind(w, G, Now, ctxParent, k))
  <2>1. StartsValue(a)
    <3>1. CASE a.kind \in {"SCALAR", "STRING"}
      BY <3>1 DEF StartsValue
    <3>2. CASE a = Start(w.type[ks[k]]) /\ w.type[ks[k]] \in Aggregates
      <4>1. Enclosing # "ARRAY"
        <5> SUFFICES ASSUME Enclosing = "ARRAY" PROVE FALSE
          OBVIOUS
        <5>1. IsBranch(w, S[ctxParent]) /\ w.type[S[ctxParent]] = "ARRAY"
          BY <1>1, <1>2 DEF IsSource
        <5>2. w.type[ks[k]] \notin Aggregates
          <6> HIDE DEF k
          <6> QED
            BY <1>8, <5>1 DEF IsBranch
        <5> QED
          BY <3>2, <5>2
      <4> QED
        BY <3>2, <4>1 DEF StartsValue, Start
    <3> QED
      BY <1>8, <3>1, <3>2 DEF Value
  <2> QED
    BY <1>8, <2>1 DEF Allowed
<1>9. CASE a = Sign("COMMA") /\ expect = "comma"
  BY <1>9 DEF Allowed, Sign
<1> QED
  BY <1>1, <1>2, <1>3, <1>4, <1>5, <1>6, <1>7, <1>8, <1>9, NowIs DEF Comes

LEMMA ParseErrorRound ==
  ASSUME NEW w, NEW S, NEW G, NEW O, NEW a, NEW r, Round(w, S, G, O, a, r)
  PROVE  ~ParseError(a)
BY RoundIsLegal DEF ParseError

LEMMA NowGrows ==
  ASSUME IInv, NEW p \in live, NEW x, Grown(p, x)
  PROVE  /\ Steady(p, x, Now, Now') /\ x \notin Now.live /\ x \in Now'.live
         /\ Now'.kids[p] = Append(Now.kids[p], x) /\ Now'.type = type' /\ Now'.name = name'
<1>1. /\ Now'.live = live' /\ Now'.root = root' /\ Now'.kids = kids' /\ Now'.type = type'
      /\ Now'.name = name' /\ Now'.parent = parent'
  BY DEF Now, Tree
<1> QED
  BY <1>1, NowIs DEF Steady, Grown

LEMMA NowChanges ==
  ASSUME NEW p, NEW x, Changed(x)
  PROVE  /\ Steady(p, x, Now, Now') /\ Now'.kids = kids /\ Now'.type = type'
<1>1. /\ Now'.live = live' /\ Now'.root = root' /\ Now'.kids = kids' /\ Now'.type = type'
      /\ Now'.name = name' /\ Now'.parent = parent'
  BY DEF Now, Tree
<1> QED
  BY <1>1, NowIs DEF Steady, Changed

(* The bracket gets one more element, x.                                   *)
LEMMA RoundGrows ==
  ASSUME NEW w, NEW S, NEW G, NEW O, NEW a, NEW r, Round(w, S, G, O, a, r),
         NEW x, Grown(ctxParent, x), Len(kids[ctxParent]) < Len(w.kids[S[ctxParent]]),
         NEW e, e = w.kids[S[ctxParent]][Len(kids[ctxParent]) + 1],
         type[ctxParent] = "GROUP" => name'[x] = w.name[e],
         type[ctxParent] = "ARRAY" => type'[x] = w.type[e]
  PROVE  /\ Path(w, S, G, O, ctxParent, Now')
         /\ Len(kids'[ctxParent]) = Len(kids[ctxParent]) + 1
         /\ type'[ctxParent] = type[ctxParent]
         /\ \A m : LeftBehind(w, G, Now', ctxParent, m) = LeftBehind(w, G, Now, ctxParent, m)
<1> DEFINE p == ctxParent
<1>1. p \in live /\ Len(w.kids[S[p]]) \in Nat
  BY RoundNumbers
<1>2. IInv /\ IsTree(Now) /\ Path(w, S, G, O, p, Now)
  BY RoundFacts
<1>3. /\ Steady(p, x, Now, Now') /\ x \notin Now.live /\ x \in Now'.live
      /\ Now'.kids[p] = Append(Now.kids[p], x) /\ Now'.type = type' /\ Now'.name = name'
  BY <1>1, <1>2, NowGrows
<1>4. Now.kids = kids /\ Now.type = type
  BY NowIs
<1> HIDE DEF p
<1>5. Path(w, S, G, O, p, Now')
  BY <1>1, <1>2, <1>3, <1>4, PathGrows DEF p
<1>6. Len(kids'[p]) = Len(kids[p]) + 1
  <2>1. kids[p] \in Seq(Settings) /\ x \in Settings /\ kids'[p] = Append(kids[p], x)
    BY <1>1, <1>2 DEF IInv, TypeOK, Grown, p
  <2> QED
    BY <2>1, AppendProperties
<1>7. type'[p] = type[p]
  BY <1>1 DEF Grown, p
<1>8. \A m : LeftBehind(w, G, Now', p, m) = LeftBehind(w, G, Now, p, m)
  BY <1>3, <1>4, <1>7 DEF LeftBehind
<1> QED
  BY <1>5, <1>6, <1>7, <1>8 DEF p

(* The setting that waits gets its type.                                   *)
LEMMA RoundChanges ==
  ASSUME NEW w, NEW S, NEW G, NEW O, NEW a, NEW r, Round(w, S, G, O, a, r),
         Waiting, type[ctxParent] = "GROUP", Changed(ctxSetting)
  PROVE  /\ Path(w, S, G, O, ctxParent, Now') /\ kids' = kids
         /\ type'[ctxParent] = type[ctxParent]
         /\ \A m : LeftBehind(w, G, Now', ctxParent, m) = LeftBehind(w, G, Now, ctxParent, m)
         /\ ctxSetting \notin O /\ parent[ctxSetting] = ctxParent
<1> DEFINE p == ctxParent
           x == ctxSetting
<1>1. p \in live /\ p \in O
  BY RoundNumbers
<1>2. IsTree(Now) /\ Path(w, S, G, O, p, Now)
  BY RoundFacts
<1>3. /\ Now.kids = kids /\ Now.type = type /\ Now.live = live /\ Now.parent = parent
  BY NowIs
<1>4. /\ Steady(p, x, Now, Now') /\ Now'.kids = kids /\ Now'.type = type'
  BY NowChanges
<1>5. x \in live /\ kids[p] # <<>> /\ x = Last(kids[p])
  BY DEF Waiting
<1>6. /\ Len(kids[p]) \in 1 .. Len(kids[p]) /\ x = kids[p][Len(kids[p])]
  <2>1. kids[p] \in Seq(live)
    BY <1>1, <1>2, <1>3 DEF IsTree
  <2> QED
    BY <1>5, <2>1, EmptySeq, LenProperties DEF Last
<1>7. x \notin O /\ parent[x] = p
  BY <1>1, <1>2, <1>3, <1>6 DEF Path, IsTree
<1>8. x # p
  BY <1>1, <1>7
<1> HIDE DEF p, x
<1>9. Path(w, S, G, O, p, Now')
  BY <1>2, <1>3, <1>4, <1>5, <1>7, PathChanges DEF p
<1>10. type'[p] = type[p] /\ kids' = kids
  BY <1>1, <1>8 DEF Changed, x
<1>11. \A m : LeftBehind(w, G, Now', p, m) = LeftBehind(w, G, Now, p, m)
  BY <1>3, <1>4, <1>10 DEF LeftBehind
<1> QED
  BY <1>7, <1>9, <1>10, <1>11 DEF p, x

(* A value is stored where it is due.                                      *)
LEMMA StoreRound ==
  ASSUME NEW w, NEW S, NEW G, NEW O, NEW a, NEW r, Round(w, S, G, O, a, r),
         NEW tok, tok.type \in ScalarTypes, StoreValue(tok),
         expect \in ValueExpected \cup {"string"},
         NEW k, k = Due(Now, ctxParent), k \in 1 .. Len(w.kids[S[ctxParent]]),
         tok.type = w.type[w.kids[S[ctxParent]][k]]
  PROVE  /\ phase' = "reading" /\ ctxParent' = ctxParent
         /\ Path(w, S, G, O, ctxParent, Now')
         /\ Owed(w, S, Now', ctxParent, expect')
         /\ Left(w, S, G, Now', ctxParent, expect') = LeftBehind(w, G, Now, ctxParent, k)
<1> DEFINE p == ctxParent
           n == Len(kids[p])
           ks == w.kids[S[p]]
<1>1. /\ ParseInv /\ TreeInv /\ IInv /\ TypeOK /\ ValuesFit /\ StackOK /\ Located
      /\ phase = "reading" /\ IsSource(w) /\ Path(w, S, G, O, p, Now)
  BY RoundFacts, TreeFacts DEF ParserInv, ParseInv
<1>2. /\ p \in live /\ type[p] = Enclosing /\ type[p] \in Aggregates
      /\ S[p] \in w.nodes /\ w.type[S[p]] = type[p]
      /\ n \in Nat /\ Len(ks) \in Nat
      /\ k = IF type[p] = "GROUP" THEN n ELSE n + 1
  BY RoundNumbers
<1>3. /\ InArray <=> Enclosing = "ARRAY"
      /\ InList <=> Enclosing = "LIST"
  BY <1>1, ParentIs
<1>4. /\ ctxParent' = ctxParent
      /\ Now.kids = kids /\ Now.type = type /\ Now'.kids = kids' /\ Now'.type = type'
  BY NowIs DEF StoreValue, Now, Tree
<1>5. CASE InArray \/ InList
  <2>1. type[p] # "GROUP" /\ k = n + 1 /\ n < Len(ks)
    BY <1>2, <1>3, <1>5
  <2>2. CheckType(p, tok.type)
    <3>1. CASE type[p] = "ARRAY" /\ kids[p] # <<>>
      <4>1. kids[p] \in Seq(Settings)
        BY <1>1, <1>2 DEF TypeOK
      <4>2. 1 \in 1 .. n /\ 1 \in 1 .. Len(ks)
        BY <1>2, <2>1, <3>1, <4>1, EmptySeq
      <4>3. type[kids[p][1]] = w.type[ks[1]]
        BY <1>1, <1>2, <1>4, <3>1, <4>2 DEF Path, Mirrors
      <4>4. IsBranch(w, S[p])
        BY <1>1, <1>2 DEF IsSource
      <4>5. w.type[ks[1]] = w.type[ks[k]]
        BY <1>2, <3>1, <4>2, <4>4 DEF IsBranch
      <4> QED
        BY <4>3, <4>5 DEF CheckType
    <3> QED
      BY <1>2, <1>3, <1>5, <3>1 DEF CheckType
  <2>3. /\ \E c \in Settings \ live :
              Reshape({}, p, Append(kids[p], c), {c}, NULL,
                      tok.type, tok.value, FormatAfter(tok, "DEFAULT"))
        /\ UNCHANGED config /\ ok'
    BY <1>5, <2>2 DEF StoreValue, AppendValue, Answer
  <2>4. PICK c \in Settings \ live :
          Reshape({}, p, Append(kids[p], c), {c}, NULL,
                  tok.type, tok.value, FormatAfter(tok, "DEFAULT"))
    BY <2>3
  <2>5. Grown(p, c) /\ type'[c] = tok.type
    <3>1. PICK f : f = FormatAfter(tok, "DEFAULT")
      OBVIOUS
    <3>2. Reshape({}, p, Append(kids[p], c), {c}, NULL, tok.type, tok.value, f)
      BY <2>4, <3>1
    <3>3. IInv /\ p \in live /\ UNCHANGED config
      BY <1>1, <1>2, <2>3
    <3> HIDE DEF p, n, ks
    <3> QED
      BY <3>2, <3>3, ReshapeGrows
  <2>6. phase' = "reading" /\ expect' = "comma"
    <3>1. expect' = AfterValue(Enclosing) /\ phase' = phase
      BY <1>5, <2>3 DEF StoreValue
    <3> QED
      BY <1>1, <1>2, <2>1, <3>1 DEF AfterValue
  <2>7. /\ Path(w, S, G, O, p, Now') /\ Len(kids'[p]) = n + 1 /\ type'[p] = type[p]
        /\ LeftBehind(w, G, Now', p, k) = LeftBehind(w, G, Now, p, k)
    BY <2>1, <2>5, RoundGrows
  <2>8. Owed(w, S, Now', p, expect')
    BY <1>2, <1>4, <2>1, <2>6, <2>7 DEF Owed
  <2>9. Left(w, S, G, Now', p, expect') = LeftBehind(w, G, Now, p, k)
    BY <1>4, <2>1, <2>6, <2>7 DEF Left
  <2> QED
    BY <1>4, <2>6, <2>7, <2>8, <2>9
<1>6. CASE ~(InArray \/ InList)
  <2>1. Enclosing = "GROUP" /\ k = n
    BY <1>2, <1>3, <1>6 DEF Aggregates
  <2>2. Waiting
    BY <1>1, <2>1 DEF IsWaiting, StackOK, ValueExpected, Located
  <2>3. PICK s : s = ctxSetting
    OBVIOUS
  <2> DEFINE auto == "AUTOCONVERT" \in opts
             results == Stored(tok.type, type[s], tok.value, auto)
  <2>4. s \in live /\ s \in Settings /\ type[s] = "NONE"
    BY <1>1, <2>2, <2>3 DEF Waiting, TypeOK
  <2>5. results = {<<tok.type, tok.value>>}
    BY <2>4, StoredFirst
  <2>6. PICK t \in results :
          /\ type' = [type EXCEPT ![s] = t[1]]
          /\ value' = [value EXCEPT ![s] = t[2]]
          /\ format' = [format EXCEPT ![s] = FormatAfter(tok, @)]
          /\ UNCHANGED <<live, name, parent, hook, kids, config, finalized>>
    <3>1. results # {}
      <4> HIDE DEF results
      <4> QED
        BY <2>5
    <3> QED
      BY <1>6, <2>3, <3>1 DEF StoreValue, AssignValue
  <2>7. Changed(s)
    BY <1>1, <2>4, <2>6 DEF Changed, config, TypeOK
  <2>8. phase' = "reading" /\ expect' = "terminator"
    <3>1. expect' = AfterValue(Enclosing) /\ phase' = phase
      BY <1>6 DEF StoreValue
    <3> QED
      BY <1>1, <2>1, <3>1 DEF AfterValue
  <2>9. /\ Path(w, S, G, O, p, Now') /\ kids' = kids /\ type'[p] = type[p]
        /\ LeftBehind(w, G, Now', p, k) = LeftBehind(w, G, Now, p, k)
    BY <1>2, <2>1, <2>2, <2>3, <2>7, RoundChanges
  <2>10. Owed(w, S, Now', p, expect')
    BY <1>2, <1>4, <2>1, <2>8, <2>9 DEF Owed
  <2>11. Left(w, S, G, Now', p, expect') = LeftBehind(w, G, Now, p, k)
    BY <1>4, <2>1, <2>8, <2>9 DEF Left
  <2> QED
    BY <1>4, <2>8, <2>9, <2>10, <2>11
<1> QED
  BY <1>5, <1>6

(* The name that comes is new in its group.                                *)
LEMMA RoundIsFresh ==
  ASSUME NEW w, NEW S, NEW G, NEW O, NEW a, NEW r, Round(w, S, G, O, a, r),
         a.kind = "NAME", expect # "string"
  PROVE  /\ GetMember(ctxParent, a.name) = NULL /\ a.name \in Names
         /\ type[ctxParent] = "GROUP"
<1> DEFINE p == ctxParent
           n == Len(kids[p])
           ks == w.kids[S[p]]
<1>1. /\ IsSource(w) /\ Path(w, S, G, O, p, Now) /\ IInv
      /\ Owed(w, S, Now, p, expect) /\ Comes(w, S, G, Now, p, expect, a, r)
  BY RoundFacts
<1>2. Now.kids = kids /\ Now.type = type /\ Now.name = name
  BY NowIs
<1>3. /\ p \in live /\ p \in O /\ S[p] \in w.nodes /\ w.type[S[p]] = type[p]
      /\ type[p] \in Aggregates /\ n \in Nat /\ Len(ks) \in Nat
  BY RoundNumbers
<1>4. expect \in SettingExpected /\ n < Len(ks) /\ a = Name(w.name[ks[n + 1]])
  BY <1>1, <1>2, KindComes
<1>5. type[p] = "GROUP"
  BY <1>1, <1>2, <1>4 DEF Owed, SettingExpected
<1>6. /\ \A i \in 1 .. Len(ks) : w.name[ks[i]] \in Names
      /\ \A i, j \in 1 .. Len(ks) : w.name[ks[i]] = w.name[ks[j]] => i = j
  BY <1>1, <1>3, <1>5 DEF IsSource, IsBranch
<1>7. \A i \in 1 .. n : name[kids[p][i]] = w.name[ks[i]]
  BY <1>1, <1>2, <1>3, <1>5 DEF Path, Mirrors
<1>8. a.name = w.name[ks[n + 1]] /\ n + 1 \in 1 .. Len(ks)
  BY <1>3, <1>4 DEF Name
<1>9. kids[p] \in Seq(Settings)
  BY <1>1, <1>3 DEF IInv, TypeOK
<1>10. Position(p, a.name) = 0
  <2> SUFFICES ASSUME Position(p, a.name) # 0 PROVE FALSE
    OBVIOUS
  <2>1. PICK i \in 1 .. n : name[kids[p][i]] = a.name
    BY <1>9, PositionNames, LenProperties
  <2>2. i \in 1 .. Len(ks) /\ i # n + 1
    <3> HIDE DEF n, ks
    <3> QED
      BY <1>3, <1>4
  <2> QED
    BY <1>6, <1>7, <1>8, <2>1, <2>2
<1> QED
  BY <1>5, <1>6, <1>8, <1>10 DEF GetMember, ListSearch

LEMMA ParseNameRound ==
  ASSUME NEW w, NEW S, NEW G, NEW O, NEW a, NEW r, Round(w, S, G, O, a, r), ParseName(a)
  PROVE  RoundInv'
<1> DEFINE p == ctxParent
           n == Len(kids[p])
           ks == w.kids[S[p]]
<1>1. /\ Shift(a) /\ Allowed(a) /\ a.kind = "NAME" /\ ConfigSettingAdd(p, a.name, "NONE")
      /\ ctxParent' = p
  BY DEF ParseName
<1>2. expect # "string"
  BY <1>1 DEF Allowed, StartsValue, SettingExpected
<1>3. GetMember(p, a.name) = NULL /\ a.name \in Names /\ type[p] = "GROUP"
  BY <1>1, <1>2, RoundIsFresh
<1>4. /\ IInv /\ phase = "reading" /\ Comes(w, S, G, Now, p, expect, a, r)
  BY RoundFacts
<1>5. p \in live /\ n \in Nat /\ Len(ks) \in Nat
  BY RoundNumbers
<1>6. GivenName(p, a.name) = a.name
  BY <1>3 DEF GivenName
<1>7. MayAdd(p, a.name, "NONE")
  <2>1. "NONE" \in Types
    BY DEF Types
  <2>2. a.name # BadName
    BY <1>3, ParserAssumption
  <2> QED
    BY <1>3, <1>6, <2>1, <2>2 DEF MayAdd, Aggregates
<1>8. ok' /\ phase' = "reading" /\ expect' = "equals"
  BY <1>1, <1>4, <1>7 DEF ParseName, ConfigSettingAdd, Answer
<1>9. PICK x : x = Last(kids'[p])
  OBVIOUS
<1>10. Grown(p, x) /\ name'[x] = a.name
  BY <1>1, <1>3, <1>4, <1>5, <1>6, <1>7, <1>9, AddGrows
<1>11. Now.kids = kids /\ Now.type = type /\ Now'.kids = kids' /\ Now'.type = type'
  BY NowIs DEF Now, Tree
<1>12. /\ n < Len(ks) /\ a = Name(w.name[ks[n + 1]])
       /\ r = Cat(<<Sign("EQUALS")>>, Cat(w.text[ks[n + 1]], LeftBehind(w, G, Now, p, n + 1)))
  <2>1. /\ Len(Now.kids[p]) < Len(ks) /\ a = Name(w.name[ks[Len(Now.kids[p]) + 1]])
        /\ r = Cat(<<Sign("EQUALS")>>,
                   Cat(w.text[ks[Len(Now.kids[p]) + 1]],
                       LeftBehind(w, G, Now, p, Len(Now.kids[p]) + 1)))
    <3> HIDE DEF p
    <3> QED
      BY <1>1, <1>2, <1>4, KindComes
  <2> QED
    BY <1>11, <2>1
<1>13. name'[x] = w.name[ks[n + 1]]
  BY <1>10, <1>12 DEF Name
<1>14. /\ Path(w, S, G, O, p, Now') /\ Len(kids'[p]) = n + 1 /\ type'[p] = type[p]
       /\ \A m : LeftBehind(w, G, Now', p, m) = LeftBehind(w, G, Now, p, m)
  BY <1>3, <1>10, <1>12, <1>13, RoundGrows
<1>15. Due(Now', p) = n + 1 /\ n + 1 \in 1 .. Len(ks)
  <2> HIDE DEF n, ks
  <2> QED
    BY <1>3, <1>5, <1>11, <1>12, <1>14 DEF Due
<1>16. Owed(w, S, Now', p, "equals")
  BY <1>3, <1>11, <1>14, <1>15 DEF Owed
<1>17. Left(w, S, G, Now', p, "equals") = r
  BY <1>12, <1>14, <1>15 DEF Left
<1>18. Rest(w, S, G)' = r
  BY <1>1, <1>8, <1>17 DEF Rest
<1> QED
  BY <1>1, <1>8, <1>14, <1>16, <1>18, RoundGoesOn

LEMMA NowTree == IInv /\ root \in live => IsTree(Now)
BY NowIsTree

(* Behind the bracket of e there is r, when z is behind all of e.          *)
Inside(w, e, r, z) == \E g : Leads(w, e, g, <<End(w.type[e])>>) /\ r = Cat(g[0], z)

(* A bracket opens.                                                        *)
LEMMA OpenRound ==
  ASSUME NEW w, NEW S, NEW G, NEW O, NEW a, NEW r, Round(w, S, G, O, a, r), ParseStart(a),
         ParserInv', NEW p, NEW e, NEW T, T = Now', Path(w, S, G, O, p, T),
         Opens(w, O, p, ctxParent', e, T), a = Start(w.type[e]),
         Inside(w, e, r, LeftBehind(w, G, T, p, Len(T.kids[p])))
  PROVE  RoundInv'
<1> DEFINE x == ctxParent'
           z == LeftBehind(w, G, T, p, Len(T.kids[p]))
<1>1. /\ Shift(a) /\ expect' = (IF a.of = "GROUP" THEN "setting" ELSE "first")
      /\ phase' = "reading" /\ IsSource(w)
  BY RoundFacts DEF ParseStart
<1>2. /\ Now'.live = live' /\ Now'.kids = kids' /\ Now'.type = type'
      /\ Now'.parent = parent'
  BY DEF Now, Tree
<1>15. /\ x \in live' /\ kids'[x] = <<>> /\ type'[x] = w.type[e] /\ w.type[e] \in Aggregates
  BY <1>2 DEF Opens
<1>3. IsTree(T)
  <2>1. IInv' /\ root' \in live'
    <3>1. IInv'
      BY DEF ParserInv, ParseInv, TreeInv, ArrayInv, ShapeInv
    <3>2. Now'.root \in O /\ O \in SUBSET Now'.live /\ Now'.root = root'
      BY DEF Path, Now, Tree
    <3> QED
      BY <1>2, <3>1, <3>2
  <2>2. (IInv /\ root \in live => IsTree(Now))'
    BY NowTree, PTL
  <2> QED
    BY <2>1, <2>2
<1>4. PICK g : Leads(w, e, g, <<End(w.type[e])>>) /\ r = Cat(g[0], z)
  BY DEF Inside
<1>5. a.of = w.type[e]
  BY DEF Start
<1>7. Opened(w, O \cup {x}, x, T, Cat(g[0], LeftBehind(w, G, T, p, Len(T.kids[p]))))
  <2>3. PICK v : v = <<End(w.type[e])>>
    OBVIOUS
  <2>4. Leads(w, e, g, v)
    BY <1>4, <2>3
  <2> QED
    BY <1>1, <1>3, <2>3, <2>4, PathOpens
<1>14. PICK S2, G2 : Path(w, S2, G2, O \cup {x}, x, T) /\ G2[x][0] = r
  BY <1>4, <1>7 DEF Opened
<1>9. Len(kids'[x]) = 0
  BY <1>15
<1>10. expect' \in {"setting", "first"} /\ (expect' = "setting" <=> type'[x] = "GROUP")
  BY <1>1, <1>5, <1>15
<1>11. Owed(w, S2, T, x, expect')
  BY <1>2, <1>9, <1>10 DEF Owed
<1>12. Rest(w, S2, G2)' = r
  BY <1>2, <1>9, <1>10, <1>14 DEF Rest, Left
<1>13. PICK O2 : O2 = O \cup {x}
  OBVIOUS
<1> QED
  BY <1>1, <1>11, <1>12, <1>13, <1>14, RoundGoesOn

LEMMA ParseStartRound ==
  ASSUME NEW w, NEW S, NEW G, NEW O, NEW a, NEW r, Round(w, S, G, O, a, r), ParseStart(a),
         ParserInv'
  PROVE  RoundInv'
<1> DEFINE p == ctxParent
           n == Len(kids[p])
           ks == w.kids[S[p]]
           k == Due(Now, p)
<1>1. /\ Shift(a) /\ Allowed(a) /\ a.kind = "START"
      /\ IF InList
         THEN /\ ConfigSettingAdd(p, NULL, a.of)
              /\ ctxParent' = Last(kids'[p])
         ELSE /\ type' = [type EXCEPT ![ctxSetting] = a.of]
              /\ ctxParent' = ctxSetting
              /\ UNCHANGED <<live, name, value, format, parent, kids, config>>
  BY DEF ParseStart
<1>2. expect # "string" /\ expect \in ValueExpected /\ Enclosing # "ARRAY"
  BY <1>1 DEF Allowed, StartsValue, ValueExpected
<1>3. /\ ParseInv /\ TreeInv /\ IInv /\ TypeOK /\ StackOK /\ Located /\ phase = "reading"
      /\ ShapeOK /\ Path(w, S, G, O, p, Now) /\ Comes(w, S, G, Now, p, expect, a, r)
  BY RoundFacts, TreeFacts DEF ParserInv, ParseInv, TreeInv, ArrayInv, ShapeInv
<1>4. /\ p \in live /\ type[p] = Enclosing /\ type[p] \in Aggregates
      /\ n \in Nat /\ Len(ks) \in Nat /\ \A i \in 1 .. Len(ks) : ks[i] \in w.nodes
      /\ k = IF type[p] = "GROUP" THEN n ELSE n + 1
  BY RoundNumbers
<1>5. Now.kids = kids /\ Now.type = type /\ Now.live = live
  BY NowIs
<1>6. InList <=> Enclosing = "LIST"
  BY <1>3, ParentIs
<1>7. k \in 1 .. Len(ks) /\ Value(w, ks[k], a, r, LeftBehind(w, G, Now, p, k))
  BY <1>1, <1>2, <1>3, KindComes
<1>8. PICK e : e = ks[k]
  OBVIOUS
<1>9. e \in w.nodes
  <2> HIDE DEF k, ks
  <2> QED
    BY <1>4, <1>7, <1>8
<1>10. /\ w.type[e] \in Aggregates /\ a = Start(w.type[e])
       /\ Inside(w, e, r, LeftBehind(w, G, Now, p, k))
  BY <1>1, <1>7, <1>8 DEF Value, Inside
<1>11. a.of = w.type[e]
  BY <1>10 DEF Start
<1>12. O \in SUBSET live
  BY <1>3, <1>5 DEF Path
<1>13. PICK x : x = ctxParent'
  OBVIOUS
<1>14. PICK T : T = Now'
  OBVIOUS
<1>17. /\ T.live = live' /\ T.kids = kids' /\ T.type = type' /\ T.parent = parent'
  BY <1>14 DEF Now, Tree
<1>15. CASE InList
  <2>1. type[p] = "LIST" /\ k = n + 1 /\ n < Len(ks)
    BY <1>4, <1>6, <1>7, <1>15
  <2>2. MayAdd(p, NULL, a.of)
    BY <1>10, <1>11, <2>1, ParserAssumption
       DEF MayAdd, Types, GivenName, GetMember, Aggregates
  <2>3. GetMember(p, GivenName(p, NULL)) = NULL
    BY <2>1 DEF GetMember
  <2>4. Grown(p, x) /\ type'[x] = a.of
    BY <1>1, <1>3, <1>4, <1>13, <1>15, <2>2, <2>3, AddGrows
  <2>5. /\ Path(w, S, G, O, p, Now')
        /\ Len(kids'[p]) = n + 1
        /\ \A m : LeftBehind(w, G, Now', p, m) = LeftBehind(w, G, Now, p, m)
    BY <2>1, <2>4, RoundGrows
  <2>6. /\ x \in live' /\ x \notin O /\ parent'[x] = p /\ kids'[x] = <<>>
        /\ kids'[p] = Append(kids[p], x)
    BY <1>12, <2>4 DEF Grown
  <2>7. kids'[p] # <<>> /\ Last(kids'[p]) = x
    <3>1. kids[p] \in Seq(Settings) /\ x \in Settings
      BY <1>3, <1>4, <2>4 DEF TypeOK, Grown
    <3> QED
      BY <2>6, <3>1, LastOfAppend
  <2>8. Inside(w, e, r, LeftBehind(w, G, T, p, Len(T.kids[p])))
    BY <1>10, <1>14, <1>17, <2>1, <2>5
  <2>9. Opens(w, O, p, ctxParent', e, T)
    BY <1>9, <1>10, <1>11, <1>13, <1>17, <2>4, <2>6, <2>7 DEF Opens
  <2> HIDE DEF p, n, ks, k
  <2> QED
    BY <1>10, <1>14, <2>5, <2>8, <2>9, OpenRound
<1>16. CASE ~InList
  <2>1. Enclosing = "GROUP" /\ type[p] = "GROUP" /\ k = n
    BY <1>2, <1>4, <1>6, <1>16 DEF Aggregates
  <2>2. Waiting
    BY <1>2, <1>3, <2>1 DEF StackOK, ValueExpected, Located
  <2>3. /\ type' = [type EXCEPT ![x] = a.of] /\ x = ctxSetting
        /\ UNCHANGED <<live, name, value, format, parent, kids, config>>
    BY <1>1, <1>13, <1>16
  <2>4. /\ x \in live /\ type[x] = "NONE" /\ kids[p] # <<>> /\ Last(kids[p]) = x
    BY <2>2, <2>3 DEF Waiting
  <2>5. Changed(ctxSetting) /\ type'[x] = a.of
    BY <1>3, <2>3, <2>4 DEF Changed, config, TypeOK
  <2>6. /\ Path(w, S, G, O, p, Now') /\ kids' = kids
        /\ \A m : LeftBehind(w, G, Now', p, m) = LeftBehind(w, G, Now, p, m)
        /\ x \notin O /\ parent[x] = p
    BY <2>1, <2>2, <2>3, <2>5, RoundChanges
  <2>7. kids'[x] = <<>>
    BY <1>3, <2>3, <2>4 DEF ShapeOK, Aggregates
  <2>8. Inside(w, e, r, LeftBehind(w, G, T, p, Len(T.kids[p])))
    BY <1>10, <1>14, <1>17, <2>1, <2>6
  <2>9. x \in live' /\ parent'[x] = p /\ kids'[p] # <<>> /\ Last(kids'[p]) = x
    BY <2>3, <2>4, <2>6
  <2>10. Opens(w, O, p, ctxParent', e, T)
    BY <1>9, <1>10, <1>11, <1>13, <1>17, <2>5, <2>6, <2>7, <2>9 DEF Opens
  <2> HIDE DEF p, n, ks, k
  <2> QED
    BY <1>10, <1>14, <2>6, <2>8, <2>10, OpenRound
<1> QED
  BY <1>15, <1>16

LEMMA ParseScalarRound ==
  ASSUME NEW w, NEW S, NEW G, NEW O, NEW a, NEW r, Round(w, S, G, O, a, r), ParseScalar(a)
  PROVE  RoundInv'
<1> DEFINE ks == w.kids[S[ctxParent]]
<1>1. /\ Shift(a) /\ Allowed(a) /\ a.kind = "SCALAR" /\ StoreValue(a)
  BY DEF ParseScalar
<1>2. expect \in ValueExpected /\ expect # "string"
  BY <1>1 DEF Allowed, StartsValue, ValueExpected
<1>3. /\ Comes(w, S, G, Now, ctxParent, expect, a, r) /\ (IsToken(a) \/ a = Sign("EOF"))
  BY RoundFacts
<1>4. a.type \in ScalarTypes
  BY <1>1, <1>3 DEF IsToken, Sign
<1>5. PICK k : k = Due(Now, ctxParent)
  OBVIOUS
<1>6. k \in 1 .. Len(ks) /\ Value(w, ks[k], a, r, LeftBehind(w, G, Now, ctxParent, k))
  BY <1>1, <1>2, <1>3, <1>5, KindComes
<1>7. a.type = w.type[ks[k]] /\ r = LeftBehind(w, G, Now, ctxParent, k)
  BY <1>1, <1>6 DEF Value, Start
<1>8. /\ phase' = "reading" /\ ctxParent' = ctxParent
      /\ Path(w, S, G, O, ctxParent, Now')
      /\ Owed(w, S, Now', ctxParent, expect')
      /\ Left(w, S, G, Now', ctxParent, expect') = r
  BY <1>1, <1>2, <1>4, <1>5, <1>6, <1>7, StoreRound
<1>9. Rest(w, S, G)' = r
  BY <1>8 DEF Rest
<1> QED
  BY <1>1, <1>8, <1>9, RoundGoesOn

LEMMA TakeStringRound ==
  ASSUME NEW w, NEW S, NEW G, NEW O, NEW a, NEW r, Round(w, S, G, O, a, r), TakeString
  PROVE  RoundInv'
<1> DEFINE ks == w.kids[S[ctxParent]]
<1>1. /\ expect = "string" /\ StoreValue(Quoted(ctxString)) /\ look' = a
      /\ text' = text /\ written' = written
  BY DEF TakeString, Round
<1>2. IsSource(w) /\ Owed(w, S, Now, ctxParent, expect)
  BY RoundFacts
<1>3. Cat(text, Rest(w, S, G)) = Whole /\ Heads(Rest(w, S, G), a, r)
  BY DEF Round, RoundTo, Ahead
<1>4. PICK k : k = Due(Now, ctxParent)
  OBVIOUS
<1>5. k \in 1 .. Len(ks) /\ w.type[ks[k]] = "STRING"
  BY <1>1, <1>2, <1>4 DEF Owed
<1>6. PICK tok : tok = Quoted(ctxString)
  OBVIOUS
<1>7. tok.type = "STRING" /\ tok.type \in ScalarTypes
  BY <1>6 DEF Quoted, Scalar, ScalarTypes
<1>8. StoreValue(tok)
  BY <1>1, <1>6
<1>9. /\ phase' = "reading" /\ ctxParent' = ctxParent
      /\ Path(w, S, G, O, ctxParent, Now')
      /\ Owed(w, S, Now', ctxParent, expect')
      /\ Left(w, S, G, Now', ctxParent, expect') = LeftBehind(w, G, Now, ctxParent, k)
  BY <1>1, <1>4, <1>5, <1>7, <1>8, StoreRound
<1>10. Rest(w, S, G) = LeftBehind(w, G, Now, ctxParent, k)
  BY <1>1, <1>4 DEF Rest, Left
<1>11. Rest(w, S, G)' = Rest(w, S, G)
  BY <1>9, <1>10 DEF Rest
<1>12. Ahead(Rest(w, S, G))'
  BY <1>1, <1>3, <1>11 DEF Ahead, Whole
<1>13. RoundTo(w, S, G, O)'
  BY <1>2, <1>9, <1>12 DEF RoundTo
<1> QED
  BY <1>9, <1>13 DEF RoundInv

(* A text that was written is before the parser.                           *)
LEMMA ReadAgainBegins ==
  ASSUME ParserInv, ReadAgain
  PROVE  RoundInv'
<1>1. PICK s \in BOOLEAN : StartRead(ConfigWrite(s))
  BY DEF ReadAgain
<1>2. TreeInv /\ IInv /\ ValuesFit /\ Named /\ root \in live /\ \A x \in live : type[x] # "NONE"
  <2>1. root # NULL /\ phase = "accepted"
    BY <1>1 DEF StartRead, ConfigClear, ReadAgain
  <2> QED
    BY <2>1, TreeFacts DEF ParserInv, ParseInv, NamesInv, IInv, TypeOK
<1>3. PICK F \in [Settings -> Seq(Vocabulary)] : \A x \in live : IsTextOf(x, F, s)
  BY <1>2, TextsExist
<1>4. PICK w : w = TreeAsSource(F, s)
  OBVIOUS
<1>5. IsSource(w)
  BY <1>2, <1>3, <1>4, TreeIsSource
<1>6. PICK v : v = ConfigWrite(s)
  OBVIOUS
<1>7. PICK g : Leads(w, root, g, <<Sign("EOF")>>) /\ g[0] = Cat(v, <<Sign("EOF")>>)
  BY <1>2, <1>3, <1>4, <1>6, AllIsLeft
<1>8. v \in Seq(Vocabulary)
  BY <1>2, <1>3, <1>6, AllIsLeft
<1>9. /\ ConfigClear /\ phase' = "reading" /\ ctxParent' = root' /\ expect' = "setting"
      /\ look' = NULL /\ text' = <<>> /\ written' = v
  BY <1>1, <1>6 DEF StartRead
<1>10. PICK r : r = root'
  OBVIOUS
<1>11. live' = {r} /\ type'[r] = "GROUP" /\ kids'[r] = <<>> /\ Len(kids'[r]) = 0
  BY <1>2, <1>9, <1>10, ClearedIsRoot
<1>12. PICK e : e = root
  OBVIOUS
<1> DEFINE S == [y \in {r} |-> e]
           G == [y \in {r} |-> g]
           O == {r}
<1>13. S[r] = e /\ G[r] = g
  OBVIOUS
<1> HIDE DEF S, G
<1>14. PICK T : T = Now'
  OBVIOUS
<1>15. /\ T.live = {r} /\ T.root = r /\ T.type[r] = "GROUP" /\ T.kids[r] = <<>>
       /\ Len(T.kids[r]) = 0
  BY <1>10, <1>11, <1>14 DEF Now, Tree
<1>16. w.nodes = live /\ w.root = e /\ w.type[e] = "GROUP" /\ Len(w.kids[e]) \in Nat
  <2>1. w.nodes = live /\ w.root = e /\ w.type[e] = "GROUP" /\ w.root \in w.nodes
    BY <1>4, <1>5, <1>12 DEF TreeAsSource, IsSource
  <2> QED
    BY <1>5, <2>1, BranchIsWritable DEF Aggregates
<1>17. Path(w, S, G, O, r, T)
  <2>1. Mirrors(w, S, T, r)
    BY <1>2, <1>12, <1>13, <1>15, <1>16 DEF Mirrors, Aggregates
  <2>2. Leads(w, S[r], G[r], Close(w, G, T, r))
    BY <1>7, <1>12, <1>13, <1>15 DEF Close
  <2> QED
    BY <1>15, <2>1, <2>2 DEF Path
<1>18. Owed(w, S, T, r, "setting")
  BY <1>15 DEF Owed
<1>19. Left(w, S, G, T, r, "setting") = g[0]
  BY <1>13, <1>15 DEF Left
<1>20. Cat(text', g[0]) = Whole'
  <2>1. PICK eof \in Vocabulary : eof = Sign("EOF")
    BY SignsAreTokens
  <2>2. Cat(v, <<eof>>) = Append(v, eof)
    BY <1>8, <2>1 DEF Cat
  <2>3. Append(v, eof) \in Seq(Vocabulary)
    BY <1>8, <2>1, AppendProperties
  <2>4. Cat(<<>>, Cat(v, <<eof>>)) = Append(v, eof)
    BY <2>2, <2>3, CatEmpty
  <2> QED
    BY <1>7, <1>9, <2>1, <2>4 DEF Whole
<1>21. Rest(w, S, G)' = g[0]
  BY <1>9, <1>10, <1>14, <1>19 DEF Rest
<1>22. Ahead(Rest(w, S, G))'
  BY <1>9, <1>20, <1>21 DEF Ahead
<1>23. RoundTo(w, S, G, O)'
  BY <1>5, <1>9, <1>10, <1>14, <1>17, <1>18, <1>22 DEF RoundTo
<1> QED
  BY <1>9, <1>23 DEF RoundInv

LEMMA RoundStep ==
  ASSUME ParserInv, ParserInv', RoundInv, ParserStep PROVE RoundInv'
<1>1. phase = "reading"
  BY DEF ParserStep, TakeString, ParseName, ParseEquals, ParseStart, ParseEnd, ParseSeparator,
         ParseScalar, ParseString, ParseEof, ParseError, Shift
<1>2. CASE written = NULL
  <2>1. written' = written
    BY DEF ParserStep, TakeString, ParseName, ParseEquals, ParseStart, ParseEnd, ParseSeparator,
           ParseScalar, ParseString, ParseEof, ParseError, Shift
  <2> QED
    BY <1>2, <2>1 DEF RoundInv
<1>3. CASE written # NULL
  <2>1. PICK w, S, G, O, a, r : Round(w, S, G, O, a, r)
    BY <1>1, <1>3, RoundComes
  <2>2. NextTokens = {a}
    BY <2>1 DEF Round
  <2>3. \/ ParseName(a) \/ ParseEquals(a) \/ ParseStart(a) \/ ParseEnd(a)
        \/ ParseSeparator(a) \/ ParseScalar(a) \/ ParseString(a)
        \/ ParseEof(a) \/ ParseError(a) \/ TakeString
    BY <2>2 DEF ParserStep
  <2> QED
    BY <2>1, <2>3, ParseNameRound, ParseEqualsRound, ParseStartRound, ParseEndRound,
       ParseSeparatorRound, ParseScalarRound, ParseStringRound, ParseEofRound,
       ParseErrorRound, TakeStringRound
<1> QED
  BY <1>2, <1>3

LEMMA RoundInvKept ==
  ASSUME ParserInv, ParserInv', RoundInv, [ParserNext]_parserVars PROVE RoundInv'
<1>1. CASE StartRead(NULL)
  BY <1>1 DEF StartRead, RoundInv
<1>2. CASE ReadAgain
  BY <1>2, ReadAgainBegins
<1>3. CASE ChangeOptions
  BY <1>3 DEF ChangeOptions, RoundInv, input
<1>4. CASE ParserStep
  BY <1>4, RoundStep
<1>5. CASE UNCHANGED parserVars
  <2>1. /\ written' = written /\ phase' = phase /\ text' = text /\ look' = look
        /\ expect' = expect /\ ctxParent' = ctxParent /\ UNCHANGED vars
    BY <1>5 DEF parserVars, context, stack, input
  <2>2. Now' = Now
    BY <2>1, NowStays
  <2>3. \A w, S, G, O : RoundTo(w, S, G, O) => RoundTo(w, S, G, O)'
    BY <2>1, <2>2 DEF RoundTo, Rest, Ahead, Whole
  <2> QED
    BY <2>1, <2>3 DEF RoundInv, Whole
<1> QED
  BY <1>1, <1>2, <1>3, <1>4, <1>5 DEF ParserNext

-----------------------------------------------------------------------------
(* The two reads together.                                                 *)

(* No setting takes the place of another: not without the option, and not  *)
(* in a text that was written.                                             *)
Distinct == "ALLOW_OVERRIDES" \notin opts \/ written # NULL

(* The inductive invariant: what was built is known while a text is read,  *)
(* and whole when it ends.                                                 *)
TextInv ==
  phase \in {"reading", "accepted"} /\ Distinct =>
    /\ text \in Seq(Vocabulary) /\ TextKnown
    /\ phase = "accepted" => /\ ctxParent = root /\ ~IsWaiting
                             /\ expect \notin {"equals", "string"}

LEMMA ReshapeKeepsOptions ==
  ASSUME NEW tok, StoreValue(tok) PROVE opts' = opts
BY DEF StoreValue, AppendValue, AssignValue, Refuse, Unchanged, config

LEMMA NameIsFresh ==
  ASSUME ParserInv, RoundInv, Distinct, NEW tok \in NextTokens, ParseName(tok),
         phase' = "reading"
  PROVE  GetMember(ctxParent, tok.name) = NULL
<1>1. /\ Shift(tok) /\ Allowed(tok) /\ tok.kind = "NAME" /\ phase = "reading"
      /\ ConfigSettingAdd(ctxParent, tok.name, "NONE") /\ ok'
  BY DEF ParseName, Shift, Return
<1>2. expect # "string" /\ expect \in SettingExpected
  BY <1>1 DEF Allowed, StartsValue, SettingExpected
<1>3. CASE written # NULL
  <2>1. PICK w, S, G, O, a, r : Round(w, S, G, O, a, r)
    BY <1>1, <1>3, RoundComes
  <2>2. tok = a
    BY <2>1 DEF Round
  <2> QED
    BY <1>1, <1>2, <2>1, <2>2, RoundIsFresh
<1>4. CASE written = NULL
  <2>1. MayAdd(ctxParent, tok.name, "NONE")
    BY <1>1 DEF ConfigSettingAdd, Refuse, Answer
  <2>2. type[ctxParent] = "GROUP"
    BY <1>1, <1>2, ParentIs DEF ParserInv, ParseInv, StackOK, SettingExpected
  <2> QED
    BY <1>4, <2>1, <2>2 DEF MayAdd, GivenName, Distinct
<1> QED
  BY <1>3, <1>4

LEMMA ParserStepText ==
  ASSUME ParserInv, ParserInv', RoundInv, TextInv, ParserStep PROVE TextInv'
<1> ParseInv /\ ParseInv'
  BY DEF ParserInv
<1>1. phase = "reading"
  BY DEF ParserStep, TakeString, ParseName, ParseEquals, ParseStart, ParseEnd, ParseSeparator,
         ParseScalar, ParseString, ParseEof, ParseError, Shift
<1>2. opts' = opts
  <2>1. ASSUME NEW p, NEW n, NEW t, ConfigSettingAdd(p, n, t) PROVE opts' = opts
    BY <2>1 DEF ConfigSettingAdd, Refuse, Unchanged, config
  <2>2. ASSUME NEW tok \in NextTokens, ParseName(tok) \/ ParseStart(tok) PROVE opts' = opts
    BY <2>1, <2>2 DEF ParseName, ParseStart, config
  <2>3. ASSUME NEW tok \in NextTokens,
               \/ ParseEquals(tok) \/ ParseEnd(tok) \/ ParseSeparator(tok)
               \/ ParseString(tok) \/ ParseEof(tok) \/ ParseError(tok)
        PROVE  opts' = opts
    BY <2>3 DEF ParseEquals, ParseEnd, ParseSeparator, ParseString, ParseEof, ParseError, vars,
                config
  <2>4. ASSUME NEW tok \in NextTokens, ParseScalar(tok) PROVE opts' = opts
    BY <2>4, ReshapeKeepsOptions DEF ParseScalar
  <2>5. ASSUME TakeString PROVE opts' = opts
    BY <2>5, ReshapeKeepsOptions DEF TakeString
  <2> QED
    BY <2>2, <2>3, <2>4, <2>5 DEF ParserStep
<1>9. written' = written
  BY DEF ParserStep, TakeString, ParseName, ParseEquals, ParseStart, ParseEnd, ParseSeparator,
         ParseScalar, ParseString, ParseEof, ParseError, Shift
<1> SUFFICES ASSUME Distinct, phase' \in {"reading", "accepted"}
             PROVE  /\ text' \in Seq(Vocabulary) /\ TextKnown'
                    /\ phase' = "accepted" => /\ ctxParent' = root' /\ ~IsWaiting'
                                              /\ expect' \notin {"equals", "string"}
  BY <1>2, <1>9 DEF TextInv, Distinct
<1>3. Reading
  BY <1>1 DEF Reading, TextInv
<1>4. CASE TakeString
  <2>1. phase' = "reading" /\ text' = text
    <3>1. phase' \in {"reading", "failed"}
      BY <1>1, <1>4 DEF TakeString, StoreValue, Return
    <3> QED
      BY <1>4, <3>1 DEF TakeString
  <2> QED
    BY <1>3, <1>4, <2>1, TakeStringText DEF Reading
<1>5. ASSUME NEW tok \in NextTokens, Shift(tok) PROVE text' \in Seq(Vocabulary)
  BY <1>3, <1>5, TokenRead
<1>6. ASSUME NEW tok \in NextTokens,
             \/ ParseName(tok) \/ ParseEquals(tok) \/ ParseStart(tok) \/ ParseEnd(tok)
             \/ ParseSeparator(tok) \/ ParseScalar(tok) \/ ParseString(tok)
      PROVE  text' \in Seq(Vocabulary) /\ TextKnown' /\ phase' = "reading"
  <2>1. Shift(tok)
    BY <1>6 DEF ParseName, ParseEquals, ParseStart, ParseEnd, ParseSeparator, ParseScalar,
                ParseString
  <2>2. phase' = "reading"
    <3>1. phase' \in {"reading", "failed"}
      BY <1>1, <1>6 DEF ParseName, ParseEquals, ParseStart, ParseEnd, ParseSeparator, ParseScalar,
                        ParseString, StoreValue, Return
    <3> QED
      BY <3>1
  <2>3. TextKnown'
    BY <1>3, <1>6, <2>2, NameIsFresh, ParseNameText, ParseEqualsText, ParseStartText, ParseEndText,
       ParseSeparatorText, ParseScalarText, ParseStringText
  <2> QED
    BY <1>5, <2>1, <2>2, <2>3
<1>7. ASSUME NEW tok \in NextTokens, ParseEof(tok)
      PROVE  /\ text' \in Seq(Vocabulary) /\ TextKnown' /\ ctxParent' = root' /\ ~IsWaiting'
             /\ expect' \notin {"equals", "string"}
  <2>1. Shift(tok)
    BY <1>7 DEF ParseEof
  <2>2. text' \in Seq(Vocabulary)
    BY <1>5, <2>1
  <2> QED
    BY <1>3, <1>7, <2>2, ParseEofText
<1>8. ASSUME NEW tok \in NextTokens, ParseError(tok) PROVE FALSE
  BY <1>8 DEF ParseError, Return
<1> QED
  BY <1>4, <1>6, <1>7, <1>8 DEF ParserStep

LEMMA TextInvKept ==
  ASSUME ParserInv, ParserInv', RoundInv, TextInv, [ParserNext]_parserVars PROVE TextInv'
<1> ParseInv /\ ParseInv'
  BY DEF ParserInv
<1>1. CASE Begins
  <2>1. PICK w : StartRead(w)
    BY <1>1 DEF Begins
  <2>2. phase' = "reading"
    BY <2>1 DEF StartRead
  <2> QED
    BY <2>1, <2>2, StartReadText DEF TextInv
<1>2. CASE ChangeOptions
  BY <1>2 DEF ChangeOptions, TextInv
<1>3. CASE UNCHANGED parserVars
  <2>1. UNCHANGED <<vars, context, stack, input>> /\ phase' = phase
    BY <1>3 DEF parserVars
  <2>2. /\ opts' = opts /\ written' = written /\ text' = text /\ ctxParent' = ctxParent
        /\ root' = root
        /\ expect' = expect /\ open' = open
    BY <2>1 DEF vars, context, stack, input
  <2>3. TextKnown => TextKnown'
    BY <2>1, TextStutters
  <2>4. IsWaiting' <=> IsWaiting
    BY <2>2 DEF IsWaiting, Enclosing
  <2> QED
    BY <2>1, <2>2, <2>3, <2>4 DEF TextInv, Distinct
<1>4. CASE ParserStep
  BY <1>4, ParserStepText
<1> QED
  BY <1>1, <1>2, <1>3, <1>4, ParserNextIs

(* When the text has ended, what was built is all there is, and written it *)
(* is what was reached.                                                    *)
LEMMA AllIsWritten ==
  ASSUME TreeInv, root \in live, NEW F, NEW H, NEW D, NEW O, TextsOK(F, H), Built(F, H, D, O),
         ctxParent = root, ~IsWaiting
  PROVE  ConfigWrite(TRUE) = Reached(F, H)
<1>1. IInv /\ Named /\ Done(F, D) /\ Way(F, H, D, O) /\ D \in SUBSET live
  BY TreeFacts DEF Built
<1>2. root \notin D /\ H[root] = <<>> /\ root \in Settings /\ live \subseteq Settings
  BY <1>1 DEF Way, IInv, TypeOK
<1>3. /\ Writable(type[root], kids[root], Len(kids[root]), name, F)
      /\ kids[root] \in Seq(Settings) /\ Len(kids[root]) \in Nat
      /\ DOMAIN kids[root] = 1 .. Len(kids[root])
  BY <1>1, BodyIsWritable DEF TextsOK
<1>4. \A i \in 1 .. Len(kids[root]) : kids[root][i] \in D
  <2> SUFFICES ASSUME NEW i \in 1 .. Len(kids[root]) PROVE kids[root][i] \in D
    OBVIOUS
  <2>1. CASE i \in 1 .. Len(kids[root]) - 1
    BY <1>1, <2>1 DEF Way
  <2>2. CASE i = Len(kids[root])
    <3>1. kids[root] # <<>>
      BY <1>3, EmptySeq
    <3>2. Last(kids[root]) \in D
      BY <3>1 DEF Built
    <3> QED
      BY <2>2, <3>2 DEF Last
  <2> QED
    BY <1>3, <2>1, <2>2
<1>5. \A x \in D : \A i \in 1 .. Len(kids[x]) : kids[x][i] \in D
  BY <1>1 DEF Done
<1> DEFINE T == {root} \cup D
<1>6. live \subseteq T
  <2>1. Closed(T)
    <3>1. \A x \in T : \A i \in DOMAIN kids[x] : kids[x][i] \in T
      <4>1. \A x \in T : DOMAIN kids[x] = 1 .. Len(kids[x])
        BY <1>1, BodyIsWritable DEF TextsOK
      <4> QED
        BY <1>4, <1>5, <4>1
    <3> QED
      BY <3>1 DEF Closed, ToSet
  <2>2. Subtree(root) \subseteq T
    BY <1>1, <2>1, SubtreeIsLeast
  <2>3. root # NULL => live = Subtree(root)
    BY <1>1 DEF IInv, NothingLeaks
  <2> QED
    BY <1>2, <2>2, <2>3, SettingAssumption
<1> DEFINE b == Body(root, F)
           y == (<<Start("GROUP")>> \o b) \o <<End("GROUP")>>
           G == [F EXCEPT ![root] = y]
<1>7. type[root] = "GROUP"
  BY <1>1, <1>2, SettingAssumption DEF IInv, TypeOK, TreeOK, RootIsGroup
<1>8. b \in Seq(Vocabulary) /\ y \in Seq(Vocabulary)
  <2>1. b \in Seq(Vocabulary)
    BY <1>3, ItemsAreText DEF Body
  <2>2. Start("GROUP") \in Vocabulary /\ End("GROUP") \in Vocabulary
    BY SignsAreTokens DEF Aggregates
  <2> HIDE DEF b
  <2> QED
    BY <2>1, <2>2, WithinBrackets
<1> HIDE DEF b, y
<1>9. /\ G \in [Settings -> Seq(Vocabulary)] /\ G[root] = y
      /\ \A x \in D : G[x] = F[x]
  BY <1>1, <1>2, <1>8 DEF TextsOK
<1> HIDE DEF G
<1>10. \A x \in T : Body(x, G) = Body(x, F)
  <2>1. \A x \in T : \A i \in 1 .. Len(kids[x]) : G[kids[x][i]] = F[kids[x][i]]
    BY <1>4, <1>5, <1>9
  <2> QED
    BY <2>1, SameItems DEF Body
<1>11. ASSUME NEW x \in live PROVE Finished(x, G)
  <2>1. CASE x = root
    BY <1>7, <1>9, <1>10, <2>1 DEF Finished, Aggregates, y, b
  <2>2. CASE x \in D
    <3>1. Finished(x, F)
      BY <1>1, <2>2 DEF Done
    <3>2. Body(x, G) = Body(x, F) /\ G[x] = F[x]
      BY <1>9, <1>10, <2>2
    <3> QED
      BY <3>1, <3>2 DEF Finished
  <2> QED
    BY <1>6, <2>1, <2>2
<1>12. ConfigWrite(TRUE) = Body(root, G)
  <2>1. \A x \in live : IsTextOf(x, G, TRUE)
    BY <1>11, FinishedIsText
  <2>2. ConfigWrite(TRUE) = FlattenSeq(Parts("GROUP", kids[root], name, G, TRUE))
    BY <1>1, <1>9, <2>1, WrittenWhole
  <2>3. Parts("GROUP", kids[root], name, G, TRUE)
          = Pieces("GROUP", kids[root], Len(kids[root]), name, G)
    BY DEF Pieces, Parts, Piece, Part, Trail, Ending
  <2> QED
    BY <1>7, <2>2, <2>3 DEF Body, Items
<1>13. Reached(F, H) = Cat(<<>>, b)
  BY <1>2, Zenon DEF Reached, Upto, Body, b
<1>14. Cat(<<>>, b) = b
  BY <1>8, CatEmpty
<1>15. Body(root, G) = b
  BY <1>10 DEF b
<1> QED
  BY <1>12, <1>13, <1>14, <1>15

(* The invariants of a read hold together.                                 *)
LEMMA ReadInvariance == ParserSpec => [](ParserInv /\ RoundInv /\ TextInv)
<1>1. ParserInit => RoundInv /\ TextInv
  BY DEF ParserInit, RoundInv, TextInv
<1>2. ParserInv /\ ParserInv' /\ RoundInv /\ [ParserNext]_parserVars => RoundInv'
  BY RoundInvKept
<1>3. ParserInv /\ ParserInv' /\ RoundInv /\ TextInv /\ [ParserNext]_parserVars => TextInv'
  BY TextInvKept
<1> QED
  BY <1>1, <1>2, <1>3, ParserInvariance, PTL DEF ParserSpec

(* When a text was read whole, what is written has its essence.            *)
LEMMA WrittenIsTheText ==
  ParserInv /\ TextInv /\ phase = "accepted" /\ Distinct
    => text \in Seq(Vocabulary) /\ Essence(ConfigWrite(TRUE)) = Essence(text)
<1> SUFFICES ASSUME ParserInv, TextInv, phase = "accepted", Distinct
             PROVE  text \in Seq(Vocabulary) /\ Essence(ConfigWrite(TRUE)) = Essence(text)
  OBVIOUS
<1>1. /\ TreeInv /\ TextKnown /\ ctxParent = root /\ ~IsWaiting
      /\ expect \notin {"equals", "string"} /\ text \in Seq(Vocabulary)
  BY DEF ParserInv, ParseInv, TextInv
<1>2. PICK F, H, D, O : TextOf(F, H, D, O)
  BY <1>1 DEF TextKnown
<1>3. /\ TextsOK(F, H) /\ Built(F, H, D, O) /\ Essence(Reached(F, H)) = Essence(text)
  BY <1>1, <1>2 DEF TextOf, Follows
<1>4. root \in live
  BY <1>1, <1>3 DEF Built
<1>5. ConfigWrite(TRUE) = Reached(F, H)
  BY <1>1, <1>3, <1>4, AllIsWritten
<1> QED
  BY <1>1, <1>3, <1>5

(* The tree of every text that was read whole is the tree of that text:    *)
(* what config_write() makes of it has the names, the brackets and the     *)
(* values of the file in the order of the file, whatever its length and    *)
(* however deep it nests.                                                  *)
THEOREM TreeIsTheTextAlways == ParserSpec => []TreeIsTheText
<1>1. ParserInv /\ RoundInv /\ TextInv => TreeIsTheText
  BY WrittenIsTheText DEF TreeIsTheText, Distinct
<1> QED
  BY <1>1, ReadInvariance, PTL

(* Whatever tree was built of whatever text, the text that config_write()  *)
(* makes of it, with semicolons or without, is read again to its end: no   *)
(* token is refused by the grammar and no setting by the code of a rule,   *)
(* and written once more the new tree gives the names, the brackets and    *)
(* the values of the text it was read from.                                *)
THEOREM WrittenIsReadAgainAlways == ParserSpec => []WrittenIsReadAgain
<1>1. ParserInv /\ RoundInv /\ TextInv => WrittenIsReadAgain
  <2> SUFFICES ASSUME ParserInv, RoundInv, TextInv, written # NULL, phase = "accepted"
               PROVE  Essence(ConfigWrite(TRUE)) = Essence(written)
    BY DEF WrittenIsReadAgain, RoundInv
  <2>1. Essence(ConfigWrite(TRUE)) = Essence(text) /\ text = Whole
    BY WrittenIsTheText DEF Distinct, RoundInv
  <2>2. written \in Seq(Vocabulary)
    BY DEF ParserInv, ParseInv, InputOK
  <2>3. PICK eof \in Vocabulary : eof = Sign("EOF")
    BY SignsAreTokens
  <2>4. Essence(Append(written, eof)) = EssenceWith(Essence(written), EndKind(written), eof)
    BY <2>2, EssenceGrows
  <2>5. \A v, k : EssenceWith(v, k, eof) = v
    BY <2>3 DEF EssenceWith, Sign
  <2> QED
    BY <2>1, <2>3, <2>4, <2>5 DEF Whole
<1> QED
  BY <1>1, ReadInvariance, PTL
=============================================================================
