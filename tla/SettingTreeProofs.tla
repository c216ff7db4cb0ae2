-------------------------- MODULE SettingTreeProofs --------------------------
(***************************************************************************)
(* The settings of a configuration form one tree, whatever the number of   *)
(* settings, the names and the calls: proofs for module SettingTree.  On   *)
(* top of that: which settings may be where, what types an array holds,    *)
(* what becomes of the hooks, that every setting is found under its path   *)
(* and that a value that was stored is read back.                          *)
(***************************************************************************)
EXTENDS SettingTree, FiniteSetTheorems, Lemmas

(* The inductive invariant: that nothing leaks is what shows that the      *)
(* subtree a call destroys does not hold the parent it is taken from.      *)
IInv == TypeOK /\ TreeOK /\ NothingLeaks

-----------------------------------------------------------------------------
(* Subtrees.                                                               *)

(* The elements of a live setting are live and have it as their parent.    *)
LEMMA Elements ==
  ASSUME ElementsAreLive, NEW y \in live, NEW k \in ToSet(kids[y])
  PROVE  k \in live /\ parent[k] = y
BY DEF ElementsAreLive, ToSet

(* A subtree holds the setting it starts from and what its members list.   *)
LEMMA SubtreeIsClosed ==
  ASSUME ElementsAreLive, NEW v \in live
  PROVE  /\ v \in Subtree(v)
         /\ Subtree(v) \subseteq live
         /\ Closed(Subtree(v))
<1>1. v \in Subtree(v) /\ Subtree(v) \subseteq live
  BY DEF Subtree
<1>2. ASSUME NEW y \in Subtree(v), NEW k \in ToSet(kids[y])
      PROVE  k \in Subtree(v)
  <2>1. y \in live /\ k \in live
    BY <1>1, Elements
  <2>2. ASSUME NEW T \in SUBSET live, v \in T, Closed(T)
        PROVE  k \in T
    <3>1. y \in T
      BY <2>2 DEF Subtree
    <3> QED
      BY <2>2, <3>1 DEF Closed
  <2> QED
    BY <2>1, <2>2 DEF Subtree
<1> QED
  BY <1>1, <1>2 DEF Closed

(* It is the least such set.                                               *)
LEMMA SubtreeIsLeast ==
  ASSUME NEW v \in live, NEW T \in SUBSET live, v \in T, Closed(T)
  PROVE  Subtree(v) \subseteq T
BY DEF Subtree

(* The subtree of an element v of q: no setting outside lists one inside   *)
(* but q, which is outside, and only v; the root is outside.               *)
LEMMA SubtreeOfElement ==
  ASSUME TypeOK, TreeOK, NothingLeaks,
         NEW q \in live, NEW v \in ToSet(kids[q])
  PROVE  /\ v \in Subtree(v)
         /\ Subtree(v) \subseteq live
         /\ Closed(Subtree(v))
         /\ root \notin Subtree(v)
         /\ q \notin Subtree(v)
         /\ \A y \in live \ Subtree(v) : \A k \in ToSet(kids[y]) :
              k \in Subtree(v) => k = v /\ y = q
<1> DEFINE D == Subtree(v)
<1>1. ElementsAreLive /\ OnlyRootIsLoose /\ live \subseteq Settings
  BY DEF TreeOK, TypeOK
<1>2. v \in live /\ parent[v] = q
  BY <1>1, Elements
<1>3. v \in D /\ D \subseteq live /\ Closed(D)
  BY <1>1, <1>2, SubtreeIsClosed
<1>4. root \in live /\ parent[root] = NULL /\ NULL \notin live
  BY <1>1, <1>2, SettingAssumption DEF TypeOK, OnlyRootIsLoose, TreeOK, RootIsGroup
<1> HIDE DEF D
(* Taking out of D a setting that nothing in D lists leaves a closed set.  *)
<1>5. ASSUME NEW k \in D, k # v, parent[k] \notin D
      PROVE  FALSE
  <2>1. Closed(D \ {k})
    <3> SUFFICES ASSUME NEW y \in D \ {k}, NEW e \in ToSet(kids[y])
                 PROVE  e \in D \ {k}
      BY DEF Closed
    <3>1. e \in D /\ parent[e] = y
      BY <1>1, <1>3, Elements DEF Closed
    <3> QED
      BY <1>5, <3>1
  <2>2. D \ {k} \in SUBSET live /\ v \in D \ {k}
    BY <1>3, <1>5
  <2>3. D \subseteq D \ {k}
    BY <1>2, <2>1, <2>2, SubtreeIsLeast DEF D
  <2> QED
    BY <2>3
<1>6. root \notin D
  <2>1. root # v
    BY <1>2, <1>4
  <2> QED
    BY <1>3, <1>4, <1>5, <2>1
<1>7. ASSUME NEW y \in live \ D, NEW k \in ToSet(kids[y]), k \in D
      PROVE  k = v /\ y = q
  <2>1. parent[k] = y
    BY <1>1, Elements
  <2>2. k = v
    BY <1>5, <1>7, <2>1
  <2> QED
    BY <1>2, <2>1, <2>2
<1>8. q \notin D
  <2> SUFFICES ASSUME q \in D PROVE FALSE
    OBVIOUS
  <2>1. Closed(live \ D)
    <3> SUFFICES ASSUME NEW y \in live \ D, NEW k \in ToSet(kids[y])
                 PROVE  k \in live \ D
      BY DEF Closed
    <3> QED
      BY <1>1, <1>7, Elements
  <2>2. live \subseteq live \ D
    <3>1. Subtree(root) \subseteq live \ D
      BY <1>4, <1>6, <2>1, SubtreeIsLeast
    <3>2. live = Subtree(root)
      BY <1>4 DEF NothingLeaks
    <3> QED
      BY <3>1, <3>2
  <2> QED
    BY <1>2, <1>3, <2>2
<1> QED
  BY <1>3, <1>6, <1>7, <1>8 DEF D
-----------------------------------------------------------------------------
(* What changing the heap keeps.                                           *)

(* The cells `dead' can be freed and a list of q be given: they are closed *)
(* downwards, nothing but q lists them, and q lists all it did, but them.  *)
Replaces(dead, q, ks, new) ==
  /\ dead \subseteq live
  /\ Closed(dead)
  /\ root \in live \ dead
  /\ q \in live \ dead
  /\ new \subseteq Settings \ (live \ dead)
  /\ \A x, y \in new : x = y
  /\ \A y \in live \ dead : y # q => ToSet(kids[y]) \cap dead = {}
  /\ ks \in Seq(Settings)
  /\ ToSet(ks) = (ToSet(kids[q]) \ dead) \cup new
  /\ \A i, j \in DOMAIN ks : ks[i] = ks[j] => i = j

(* The lists after such a change.                                          *)
LEMMA RebuildLists ==
  ASSUME IInv, NEW dead, NEW q, NEW ks, NEW new, NEW n, NEW t, NEW v, NEW f,
         Replaces(dead, q, ks, new), Reshape(dead, q, ks, new, n, t, v, f)
  PROVE  /\ live' = (live \ dead) \cup new
         /\ \A s \in new : kids'[s] = <<>> /\ parent'[s] = q
         /\ kids'[q] = ks
         /\ \A s \in (live \ dead) \ {q} : kids'[s] = kids[s]
         /\ \A s \in live \ dead : parent'[s] = parent[s] /\ type'[s] = type[s]
         /\ new \cap (live \ dead) = {}
<1>1. live \subseteq Settings
  BY DEF IInv, TypeOK
<1> QED
  BY <1>1 DEF Reshape, Replaces

(* One tree before, one tree after.                                        *)
LEMMA RebuildKeepsTree ==
  ASSUME IInv, NEW dead, NEW q, NEW ks, NEW new, NEW n, NEW t, NEW v, NEW f,
         Replaces(dead, q, ks, new), Reshape(dead, q, ks, new, n, t, v, f),
         UNCHANGED root
  PROVE  TreeOK'
<1> DEFINE stay == live \ dead
<1>1. /\ live' = stay \cup new
      /\ \A s \in new : kids'[s] = <<>> /\ parent'[s] = q
      /\ kids'[q] = ks
      /\ \A s \in stay \ {q} : kids'[s] = kids[s]
      /\ \A s \in stay : parent'[s] = parent[s] /\ type'[s] = type[s]
      /\ new \cap stay = {}
  BY RebuildLists
<1>2. /\ q \in stay /\ root \in stay /\ root' = root
      /\ ToSet(ks) = (ToSet(kids[q]) \ dead) \cup new
      /\ \A y \in stay : y # q => ToSet(kids[y]) \cap dead = {}
  BY DEF Replaces
<1>3. ElementsAreLive /\ OnlyRootIsLoose /\ NoDuplicates /\ RootIsGroup
  BY DEF IInv, TreeOK
<1>4. \A s \in stay : ToSet(kids'[s]) \subseteq stay \cup new
  BY <1>1, <1>2, <1>3, Elements
<1>5. ElementsAreLive'
  <2> SUFFICES ASSUME NEW s \in live', NEW k \in ToSet(kids'[s])
               PROVE  k \in live' /\ parent'[k] = s
    BY DEF ElementsAreLive, ToSet
  <2>1. s \notin new
    BY <1>1 DEF ToSet
  <2>2. CASE s = q
    BY <1>1, <1>2, <1>3, <2>2, Elements
  <2>3. CASE s # q
    BY <1>1, <1>2, <1>3, <2>1, <2>3, Elements
  <2> QED
    BY <2>2, <2>3
<1>6. NoDuplicates'
  <2> SUFFICES ASSUME NEW s \in live', NEW i \in DOMAIN kids'[s],
                      NEW j \in DOMAIN kids'[s], kids'[s][i] = kids'[s][j]
               PROVE  i = j
    BY DEF NoDuplicates
  <2>1. s \notin new
    BY <1>1
  <2>2. CASE s = q
    BY <1>1, <2>2 DEF Replaces
  <2>3. CASE s # q
    BY <1>1, <1>3, <2>1, <2>3 DEF NoDuplicates
  <2> QED
    BY <2>2, <2>3
<1>7. OnlyRootIsLoose'
  <2> SUFFICES ASSUME NEW s \in live'
               PROVE  IF s = root THEN parent'[s] = NULL
                      ELSE parent'[s] \in live' /\ s \in ToSet(kids'[parent'[s]])
    BY <1>2 DEF OnlyRootIsLoose
  <2>1. CASE s \in new
    BY <1>1, <1>2, <2>1
  <2>2. CASE s = root
    BY <1>1, <1>2, <1>3, <2>2 DEF OnlyRootIsLoose
  <2>3. CASE s \in stay /\ s # root
    <3> DEFINE p == parent[s]
    <3>1. p \in live /\ s \in ToSet(kids[p]) /\ parent'[s] = p
      BY <1>1, <1>3, <2>3 DEF OnlyRootIsLoose
    <3>2. p \in stay
      BY <2>3, <3>1 DEF Replaces, Closed
    <3> QED
      BY <1>1, <1>2, <2>3, <3>1, <3>2
  <2> QED
    BY <1>1, <2>1, <2>2, <2>3
<1>8. RootIsGroup'
  BY <1>1, <1>2, <1>3 DEF RootIsGroup
<1> QED
  BY <1>5, <1>6, <1>7, <1>8 DEF TreeOK

(* Nothing is cut off from the root.                                       *)
LEMMA RebuildLeaksNothing ==
  ASSUME IInv, NEW dead, NEW q, NEW ks, NEW new, NEW n, NEW t, NEW v, NEW f,
         Replaces(dead, q, ks, new), Reshape(dead, q, ks, new, n, t, v, f),
         UNCHANGED root
  PROVE  NothingLeaks'
<1> DEFINE stay == live \ dead
<1>1. /\ live' = stay \cup new
      /\ kids'[q] = ks
      /\ \A s \in stay \ {q} : kids'[s] = kids[s]
      /\ new \cap stay = {}
  BY RebuildLists
<1>2. /\ q \in stay /\ root \in stay /\ root' = root /\ Closed(dead)
      /\ ToSet(ks) = (ToSet(kids[q]) \ dead) \cup new
  BY DEF Replaces
<1>3. live = Subtree(root) /\ ElementsAreLive
  BY <1>2 DEF IInv, TreeOK, NothingLeaks, RootIsGroup
(* A closed set of the new tree, with what was freed, was a closed one.    *)
<1>4. ASSUME NEW T \in SUBSET live', root \in T,
             \A y \in T : ToSet(kids'[y]) \subseteq T
      PROVE  live' \subseteq T
  <2> DEFINE U == (T \ new) \cup dead
  <2>1. Closed(U)
    <3> SUFFICES ASSUME NEW y \in U, NEW k \in ToSet(kids[y]) PROVE k \in U
      BY DEF Closed
    <3>1. CASE y \in dead
      BY <1>2, <3>1 DEF Closed
    <3>2. CASE y \in stay /\ y \in T /\ k \notin dead
      <4>1. k \in ToSet(kids'[y])
        BY <1>1, <1>2, <3>2
      <4>2. k \in stay
        BY <1>3, <3>2, Elements
      <4> QED
        BY <1>1, <1>4, <3>2, <4>1, <4>2
    <3> QED
      BY <1>1, <1>4, <3>1, <3>2
  <2>2. U \in SUBSET live /\ root \in U
    BY <1>1, <1>2, <1>4 DEF Replaces
  <2>3. live \subseteq U
    BY <1>2, <1>3, <2>1, <2>2, SubtreeIsLeast
  <2>4. stay \subseteq T
    BY <2>3
  <2>5. new \subseteq T
    BY <1>1, <1>2, <1>4, <2>4
  <2> QED
    BY <1>1, <2>4, <2>5
<1>5. Subtree(root)' = live'
  BY <1>2, <1>4 DEF Subtree, Closed
<1> QED
  BY <1>2, <1>5 DEF NothingLeaks
(* The types of the fields.                                                *)
LEMMA RebuildKeepsTypes ==
  ASSUME TypeOK, NEW dead \in SUBSET live, NEW q \in live \cup {NULL},
         NEW ks \in Seq(Settings), NEW new \in SUBSET Settings,
         NEW n \in Names \cup {NULL}, NEW t \in Types, NEW v \in Values,
         NEW f \in AllFormats, Reshape(dead, q, ks, new, n, t, v, f),
         root' \in live' \cup {NULL},
         opts' \in SUBSET {"AUTOCONVERT", "ALLOW_OVERRIDES"},
         destructor' \in BOOLEAN, ok' \in BOOLEAN
  PROVE  TypeOK'
<1> USE DEF TypeOK
<1>1. live' \in SUBSET Settings
  BY DEF Reshape
<1>2. name' \in [Settings -> Names \cup {NULL}] /\ type' \in [Settings -> Types]
  BY DEF Reshape, Types
<1>3. value' \in [Settings -> Values]
  BY DEF Reshape, Values
<1>4. format' \in [Settings -> AllFormats]
  BY DEF Reshape, AllFormats
<1>5. parent' \in [Settings -> Settings \cup {NULL}]
  BY DEF Reshape
<1>6. hook' \in [Settings -> Hooks \cup {NULL}]
  BY DEF Reshape, CreatedHook
<1>7. kids' \in [Settings -> Seq(Settings)]
  <2>1. <<>> \in Seq(Settings)
    BY EmptySeq
  <2> QED
    BY <2>1 DEF Reshape
<1>8. finalized' \in SUBSET Hooks
  <2>1. HooksOf(dead) \subseteq Hooks
    BY DEF HooksOf
  <2> QED
    BY <2>1 DEF Reshape
<1>9. ASSUME NEW s \in Settings \ live'
      PROVE  kids'[s] = <<>> /\ hook'[s] = NULL /\ parent'[s] = NULL
  BY SettingAssumption DEF Reshape
<1> QED
  BY <1>1, <1>2, <1>3, <1>4, <1>5, <1>6, <1>7, <1>8, <1>9

(* A step that leaves the lists alone keeps the tree.                      *)
LEMMA SameTree ==
  ASSUME TreeOK, NothingLeaks, UNCHANGED <<live, root, kids, parent>>,
         root # NULL => type'[root] = type[root]
  PROVE  TreeOK' /\ NothingLeaks'
<1>1. Subtree(root)' = Subtree(root)
  BY DEF Subtree, Closed
<1> QED
  BY <1>1 DEF TreeOK, NothingLeaks, ElementsAreLive, NoDuplicates,
              OnlyRootIsLoose, RootIsGroup

(* Stores keep to the types, and never touch an aggregate.                 *)
LEMMA StoredTypes ==
  ASSUME NEW as \in ScalarTypes, NEW t \in Types, NEW v \in ScalarArgs[as],
         NEW auto \in BOOLEAN, NEW r \in Stored(as, t, v, auto)
  PROVE  r[1] \in ScalarTypes /\ r[2] \in Values /\ t \notin Aggregates
<1>1. v \in ValuesOf(as)
  BY SettingAssumption
<1>2. CASE as = "INT"
  <2>1. v \in Int /\ Single[v] \in Int
    BY <1>1, <1>2, SingleAssumption, WidthAssumption DEF ValuesOf, Int32
  <2> QED
    BY <1>2, <2>1 DEF Stored, SetInt, ScalarTypes, Values, Aggregates
<1>3. CASE as = "INT64"
  <2>1. v \in Int /\ Single[v] \in Int
    BY <1>1, <1>3, SingleAssumption, WidthAssumption DEF ValuesOf, Int64
  <2> QED
    BY <1>3, <2>1 DEF Stored, SetInt64, ScalarTypes, Values, Aggregates
<1>4. CASE as = "FLOAT"
  <2>1. v \in Int
    BY <1>1, <1>4 DEF ValuesOf
  <2>2. CastTo(Int32, v) \subseteq Int /\ CastTo(Int64, v) \subseteq Int
    BY <2>1, WidthAssumption DEF CastTo, Truncated, Int32, Int64
  <2> QED
    BY <1>4, <2>1, <2>2 DEF Stored, SetFloat, ScalarTypes, Values, Aggregates
<1>5. CASE as = "BOOL"
  <2>1. v \in Int
    BY <1>1, <1>5, WidthAssumption DEF ValuesOf, Int32
  <2> QED
    BY <1>5, <2>1 DEF Stored, SetBool, ScalarTypes, Values, Aggregates
<1>6. CASE as = "STRING"
  BY <1>1, <1>6 DEF Stored, SetString, ValuesOf, ScalarTypes, Values, Aggregates
<1> QED
  BY <1>2, <1>3, <1>4, <1>5, <1>6 DEF ScalarTypes

(* The values passed to the functions are values.                          *)
LEMMA ArgumentTypes ==
  ASSUME NEW as \in ScalarTypes, NEW v \in ScalarArgs[as]
  PROVE  v \in Values /\ as \in Types
<1>1. v \in ValuesOf(as)
  BY SettingAssumption
<1>2. Int32 \subseteq Int /\ Int64 \subseteq Int
  BY WidthAssumption DEF Int32, Int64
<1>3. ValuesOf(as) \subseteq Values
  BY <1>2 DEF ValuesOf, Values
<1> QED
  BY <1>1, <1>3 DEF Types

-----------------------------------------------------------------------------
(* One lemma for every group of operations.                                *)

(* The position of a name is that of an element that has it.               *)
LEMMA PositionIsElement ==
  ASSUME NEW s, NEW n, kids[s] \in Seq(Settings), Position(s, n) # 0
  PROVE  Position(s, n) \in 1 .. Len(kids[s])
<1> DEFINE I == {i \in 1 .. Len(kids[s]) : name[kids[s][i]] = n}
<1>1. Position(s, n) = IF I # {} THEN Min(I) ELSE 0
  BY DEF Position, SelectInSeq
<1>2. I \in SUBSET Nat
  BY LenProperties
<1> QED
  BY <1>1, <1>2, LeastNatural

(* Taking an element out of a list and destroying it.                      *)
LEMMA DropElementKeeps ==
  ASSUME IInv, NEW q \in live, NEW i \in DOMAIN kids[q], DropElement(q, i)
  PROVE  IInv'
<1> DEFINE v == kids[q][i]
           dead == Subtree(v)
           ks == RemoveAt(kids[q], i)
<1>1. /\ kids[q] \in Seq(Settings) /\ live \subseteq Settings
      /\ DOMAIN kids[q] = 1 .. Len(kids[q])
  BY LenProperties DEF IInv, TypeOK
<1>2. v \in ToSet(kids[q])
  BY DEF ToSet
<1>3. /\ v \in dead /\ dead \subseteq live /\ Closed(dead)
      /\ root \notin dead /\ q \notin dead
      /\ \A y \in live \ dead : \A k \in ToSet(kids[y]) :
           k \in dead => k = v /\ y = q
  BY <1>2, SubtreeOfElement DEF IInv
<1>4. /\ ks \in Seq(Settings)
      /\ ToSet(ks) = ToSet(kids[q]) \ {v}
      /\ \A j, k \in DOMAIN ks : ks[j] = ks[k] => j = k
  <2>1. \A j, k \in 1 .. Len(kids[q]) : kids[q][j] = kids[q][k] => j = k
    BY <1>1 DEF IInv, TreeOK, NoDuplicates
  <2>2. ks \in Seq(Settings)
    BY <1>1, RemoveAtProperties
  <2> HIDE DEF ks
  <2>3. DOMAIN ks = 1 .. Len(ks)
    BY <2>2, LenProperties
  <2> QED
    BY <1>1, <2>1, <2>2, <2>3, RemoveAtToSet DEF ks
<1>5. root \in live
  BY DEF IInv, TypeOK, TreeOK, RootIsGroup
<1>6. /\ Reshape(dead, q, ks, {}, NULL, "NONE", NULL, "DEFAULT")
      /\ UNCHANGED config /\ ok' = TRUE
  BY DEF DropElement, Answer, Rebuild
<1> HIDE DEF v, dead, ks
<1>7. Replaces(dead, q, ks, {})
  BY <1>1, <1>3, <1>4, <1>5 DEF Replaces
<1>8. TreeOK' /\ NothingLeaks'
  BY <1>6, <1>7, RebuildKeepsTree, RebuildLeaksNothing DEF config
<1>9. TypeOK'
  <2>1. root' \in live'
    BY <1>3, <1>5, <1>6, <1>7, RebuildLists DEF config
  <2>2. "NONE" \in Types /\ NULL \in Values /\ "DEFAULT" \in AllFormats
    BY DEF Types, Values, AllFormats
  <2> QED
    BY <1>3, <1>4, <1>6, <2>1, <2>2, RebuildKeepsTypes DEF IInv, TypeOK, config
<1> QED
  BY <1>8, <1>9 DEF IInv

(* Creating an element of q, where the cells `dead' have just been freed   *)
(* and `rest' is what is left of the list of q.                            *)
LEMMA CreateKeeps ==
  ASSUME IInv, NEW dead \in SUBSET live, NEW q \in live \ dead,
         NEW rest \in Seq(Settings), NEW c \in Settings \ (live \ dead),
         NEW n \in Names \cup {NULL}, NEW t \in Types, NEW v \in Values,
         NEW f \in AllFormats, Closed(dead), root \notin dead,
         \A y \in live \ dead : y # q => ToSet(kids[y]) \cap dead = {},
         ToSet(rest) = ToSet(kids[q]) \ dead,
         \A i, j \in DOMAIN rest : rest[i] = rest[j] => i = j,
         Reshape(dead, q, Append(rest, c), {c}, n, t, v, f),
         UNCHANGED config, ok' \in BOOLEAN
  PROVE  IInv'
<1> DEFINE ks == Append(rest, c)
<1>1. ToSet(rest) \subseteq live \ dead
  BY Elements DEF IInv, TreeOK
<1>2. /\ ks \in Seq(Settings)
      /\ ToSet(ks) = (ToSet(kids[q]) \ dead) \cup {c}
      /\ \A i, j \in DOMAIN ks : ks[i] = ks[j] => i = j
  BY <1>1, AppendToSet
<1>3. root \in live
  BY DEF IInv, TypeOK, TreeOK, RootIsGroup
<1> HIDE DEF ks
<1>4. Replaces(dead, q, ks, {c})
  BY <1>2, <1>3 DEF Replaces
<1>5. Reshape(dead, q, ks, {c}, n, t, v, f) /\ UNCHANGED root
  BY DEF ks, config
<1>6. TreeOK' /\ NothingLeaks'
  BY <1>4, <1>5, RebuildKeepsTree, RebuildLeaksNothing
<1>7. root' \in live'
  BY <1>3, <1>4, <1>5, RebuildLists
<1>8. {c} \in SUBSET Settings
  OBVIOUS
<1>9. TypeOK'
  BY <1>2, <1>5, <1>7, <1>8, RebuildKeepsTypes DEF IInv, TypeOK, config
<1> QED
  BY <1>6, <1>9 DEF IInv

(* A new root, with everything before it destroyed.                        *)
LEMMA NewRootKeeps ==
  ASSUME TypeOK, NewRoot(live), ok' \in BOOLEAN,
         opts' \in SUBSET {"AUTOCONVERT", "ALLOW_OVERRIDES"},
         destructor' \in BOOLEAN
  PROVE  IInv'
<1>1. PICK r \in Settings :
        /\ Reshape(live, NULL, <<>>, {r}, NULL, "GROUP", NULL, "DEFAULT")
        /\ root' = r
  BY DEF NewRoot, Rebuild
<1>2. /\ live' = {r} /\ kids'[r] = <<>> /\ parent'[r] = NULL
      /\ type'[r] = "GROUP" /\ r # NULL
  BY <1>1, SettingAssumption DEF Reshape
<1>3. TypeOK'
  <2>1. /\ <<>> \in Seq(Settings) /\ "GROUP" \in Types /\ NULL \in Values
        /\ "DEFAULT" \in AllFormats
    BY EmptySeq DEF Types, Values, Aggregates, AllFormats
  <2> QED
    BY <1>1, <1>2, <2>1, RebuildKeepsTypes
<1>4. TreeOK'
  BY <1>1, <1>2 DEF TreeOK, ElementsAreLive, NoDuplicates, OnlyRootIsLoose,
                   RootIsGroup
<1>5. NothingLeaks'
  BY <1>1, <1>2 DEF NothingLeaks, Subtree
<1> QED
  BY <1>3, <1>4, <1>5 DEF IInv

(* A step that touches neither the lists nor the type of an aggregate.     *)
LEMMA LocalStepKeeps ==
  ASSUME IInv, TypeOK',
         UNCHANGED <<live, root, kids, parent>>,
         \A s \in live : type[s] \in Aggregates => type'[s] = type[s]
  PROVE  IInv'
<1>1. root # NULL => root \in live /\ type[root] \in Aggregates
  BY DEF IInv, TypeOK, TreeOK, RootIsGroup, Aggregates
<1> QED
  BY <1>1, SameTree DEF IInv

(* A call that is refused.                                                 *)
LEMMA RefuseKeeps ==
  ASSUME IInv, Refuse PROVE IInv'
<1>1. TypeOK'
  BY DEF IInv, TypeOK, Refuse, Answer, Unchanged, fields, config
<1> QED
  BY <1>1, LocalStepKeeps DEF Refuse, Unchanged, fields, config

-----------------------------------------------------------------------------
(* The operations.                                                         *)

LEMMA ConfigSettingAddKeeps ==
  ASSUME IInv, NEW p \in live, NEW n \in Names \cup {NULL, BadName}, NEW t,
         ConfigSettingAdd(p, n, t)
  PROVE  IInv'
<1> DEFINE m == GivenName(p, n)
           old == GetMember(p, m)
           dead == IF old = NULL THEN {} ELSE Subtree(old)
           rest == IF old = NULL THEN kids[p] ELSE RemoveAt(kids[p], Position(p, m))
<1>1. CASE ~MayAdd(p, n, t)
  BY <1>1, RefuseKeeps DEF ConfigSettingAdd
<1>2. CASE MayAdd(p, n, t)
  <2>1. PICK c \in Settings \ (live \ dead) :
          /\ Reshape(dead, p, Append(rest, c), {c}, m, t, ZeroOf(t), "DEFAULT")
          /\ UNCHANGED config /\ ok' = TRUE
    BY <1>2, Zenon DEF ConfigSettingAdd, Rebuild, Answer
  <2>2. /\ m \in Names \cup {NULL} /\ t \in Types /\ ZeroOf(t) \in Values
        /\ "DEFAULT" \in AllFormats
    BY <1>2 DEF MayAdd, GivenName, ZeroOf, Values, AllFormats
  <2>3. /\ kids[p] \in Seq(Settings) /\ DOMAIN kids[p] = 1 .. Len(kids[p])
        /\ \A i, j \in DOMAIN kids[p] : kids[p][i] = kids[p][j] => i = j
        /\ root \in live
        /\ ElementsAreLive
    BY LenProperties DEF IInv, TypeOK, TreeOK, NoDuplicates, RootIsGroup
  <2>4. CASE old = NULL
    <3>1. dead = {} /\ rest = kids[p]
      BY <2>4
    <3>2. Closed(dead)
      BY <3>1 DEF Closed
    <3> HIDE DEF m, old, dead, rest
    <3> QED
      BY <2>1, <2>2, <2>3, <3>1, <3>2, CreateKeeps
  <2>5. CASE old # NULL
    <3> DEFINE i == Position(p, m)
    <3>1. old = kids[p][i] /\ i # 0
      BY <2>5 DEF GetMember, ListSearch
    <3>2. i \in DOMAIN kids[p]
      BY <2>3, <3>1, PositionIsElement
    <3>3. dead = Subtree(old) /\ rest = RemoveAt(kids[p], i)
      BY <2>5
    <3> HIDE DEF m, old, dead, rest, i
    <3>4. old \in ToSet(kids[p])
      BY <3>1, <3>2 DEF ToSet
    <3>5. /\ old \in dead /\ dead \subseteq live /\ Closed(dead)
          /\ root \notin dead /\ p \notin dead
          /\ \A y \in live \ dead : \A k \in ToSet(kids[y]) :
               k \in dead => k = old /\ y = p
      BY <3>3, <3>4, SubtreeOfElement DEF IInv
    <3>6. /\ rest \in Seq(Settings)
          /\ ToSet(rest) = ToSet(kids[p]) \ {old}
          /\ \A j, k \in DOMAIN rest : rest[j] = rest[k] => j = k
      <4>1. rest \in Seq(Settings)
        BY <2>3, <3>2, <3>3, RemoveAtProperties
      <4>2. DOMAIN rest = 1 .. Len(rest)
        BY <4>1, LenProperties
      <4>3. i \in 1 .. Len(kids[p]) /\ kids[p] \in Seq(Settings)
        BY <2>3, <3>2
      <4>4. \A j, k \in 1 .. Len(kids[p]) : kids[p][j] = kids[p][k] => j = k
        BY <2>3
      <4>5. /\ ToSet(rest) = ToSet(kids[p]) \ {kids[p][i]}
            /\ \A j, k \in 1 .. Len(rest) : rest[j] = rest[k] => j = k
        BY <3>3, <4>3, <4>4, RemoveAtToSet
      <4> QED
        BY <3>1, <4>1, <4>2, <4>5
    <3>7. ToSet(rest) = ToSet(kids[p]) \ dead
      BY <3>5, <3>6
    <3>8. \A y \in live \ dead : y # p => ToSet(kids[y]) \cap dead = {}
      BY <3>5
    <3> QED
      BY <2>1, <2>2, <3>5, <3>6, <3>7, <3>8, CreateKeeps
  <2> QED
    BY <2>4, <2>5
<1> QED
  BY <1>1, <1>2

LEMMA ConfigSettingRemoveKeeps ==
  ASSUME IInv, NEW p, NEW path, ConfigSettingRemove(p, path)
  PROVE  IInv'
<1>1. CASE Refuse
  BY <1>1, RefuseKeeps
<1>2. CASE \E q \in live : \E i \in DOMAIN kids[q] : DropElement(q, i)
  BY <1>2, DropElementKeeps
<1> QED
  BY <1>1, <1>2, Zenon DEF ConfigSettingRemove

LEMMA ConfigSettingRemoveElemKeeps ==
  ASSUME IInv, NEW p \in live, NEW idx \in Nat, ConfigSettingRemoveElem(p, idx)
  PROVE  IInv'
<1>1. CASE type[p] \in Aggregates /\ idx < Len(kids[p])
  <2>1. idx + 1 \in DOMAIN kids[p]
    BY <1>1, LenProperties DEF IInv, TypeOK
  <2> QED
    BY <1>1, <2>1, DropElementKeeps DEF ConfigSettingRemoveElem
<1> QED
  BY <1>1, RefuseKeeps DEF ConfigSettingRemoveElem

LEMMA ConfigSettingSetKeeps ==
  ASSUME IInv, NEW s \in live, NEW as \in ScalarTypes, NEW v \in ScalarArgs[as],
         ConfigSettingSet(s, as, v)
  PROVE  IInv'
<1> DEFINE results == Stored(as, type[s], v, "AUTOCONVERT" \in opts)
<1>1. CASE results = {}
  BY <1>1, RefuseKeeps DEF ConfigSettingSet
<1>2. CASE results # {}
  <2>1. PICK r \in results : Store(s, r)
    BY <1>2 DEF ConfigSettingSet
  <2>2. r[1] \in ScalarTypes /\ r[2] \in Values /\ type[s] \notin Aggregates
    <3>1. type[s] \in Types /\ ("AUTOCONVERT" \in opts) \in BOOLEAN
      BY DEF IInv, TypeOK
    <3> QED
      BY <3>1, StoredTypes, Zenon
  <2>3. TypeOK'
    BY <2>1, <2>2 DEF IInv, TypeOK, Store, Answer, config, Types
  <2>4. \A x \in live : type[x] \in Aggregates => type'[x] = type[x]
    BY <2>1, <2>2 DEF IInv, TypeOK, Store
  <2> QED
    BY <2>1, <2>3, <2>4, LocalStepKeeps DEF Store, config
<1> QED
  BY <1>1, <1>2

LEMMA ConfigSettingSetElemKeeps ==
  ASSUME IInv, NEW s \in live, NEW idx \in Int, NEW as \in ScalarTypes,
         NEW v \in ScalarArgs[as], ConfigSettingSetElem(s, idx, as, v)
  PROVE  IInv'
<1>1. CASE Refuse
  BY <1>1, RefuseKeeps
<1>2. CASE idx < 0 /\ ~Refuse
  <2>1. PICK c \in Settings \ live :
          /\ Reshape({}, s, Append(kids[s], c), {c}, NULL, as, v, "DEFAULT")
          /\ UNCHANGED config /\ ok' = TRUE
    BY <1>2 DEF ConfigSettingSetElem, AppendElem, Rebuild, Answer
  <2>2. /\ kids[s] \in Seq(Settings)
        /\ \A i, j \in DOMAIN kids[s] : kids[s][i] = kids[s][j] => i = j
    BY DEF IInv, TypeOK, TreeOK, NoDuplicates
  <2>3. v \in Values /\ as \in Types /\ "DEFAULT" \in AllFormats
    BY ArgumentTypes DEF AllFormats
  <2>4. Closed({}) /\ live \ {} = live
    BY DEF Closed
  <2> QED
    BY <2>1, <2>2, <2>3, <2>4, CreateKeeps
<1>3. CASE ~(idx < 0) /\ ~Refuse
  <2> DEFINE i == idx % UintMod
             e == GetElem(s, idx)
  <2>1. e # NULL /\ ConfigSettingSet(e, as, v)
    BY <1>3 DEF ConfigSettingSetElem
  <2>2. e \in live
    <3>1. i \in Nat
      BY SettingAssumption
    <3>2. e = kids[s][i + 1] /\ i < Len(kids[s])
      BY <2>1 DEF GetElem
    <3>3. i + 1 \in DOMAIN kids[s]
      BY <3>1, <3>2, LenProperties DEF IInv, TypeOK
    <3> QED
      BY <3>2, <3>3 DEF IInv, TreeOK, ElementsAreLive
  <2> QED
    BY <2>1, <2>2, ConfigSettingSetKeeps
<1> QED
  BY <1>1, <1>2, <1>3

LEMMA ConfigSettingSetFormatKeeps ==
  ASSUME IInv, NEW s \in live, NEW f, ConfigSettingSetFormat(s, f)
  PROVE  IInv'
<1>1. CASE type[s] \in {"INT", "INT64"} /\ f \in FormatsTaken
  <2>1. /\ format' = [format EXCEPT ![s] = f]
        /\ UNCHANGED <<live, name, type, value, parent, hook, kids, config, finalized>>
        /\ ok' = TRUE
    BY <1>1 DEF ConfigSettingSetFormat, Answer
  <2>2. TypeOK'
    BY <1>1, <2>1 DEF FormatsTaken, IInv, TypeOK, AllFormats, config
  <2> QED
    BY <2>1, <2>2, LocalStepKeeps DEF config
<1> QED
  BY <1>1, RefuseKeeps DEF ConfigSettingSetFormat

LEMMA ConfigSettingSetHookKeeps ==
  ASSUME IInv, NEW s \in live, NEW h \in Hooks, ConfigSettingSetHook(s, h)
  PROVE  IInv'
<1>1. TypeOK'
  BY DEF ConfigSettingSetHook, IInv, TypeOK, Answer, config
<1> QED
  BY <1>1, LocalStepKeeps DEF ConfigSettingSetHook, config

LEMMA LifeStepKeeps ==
  ASSUME IInv, LifeStep
  PROVE  IInv'
<1>1. CASE ConfigInit
  <2>1. live = {}
    BY <1>1 DEF ConfigInit, IInv, TreeOK, RootIsGroup
  <2> QED
    BY <1>1, <2>1, NewRootKeeps DEF ConfigInit, IInv, Answer
<1>2. CASE ConfigClear
  <2>1. Subtree(root) = live
    BY <1>2 DEF ConfigClear, IInv, NothingLeaks
  <2> QED
    BY <1>2, <2>1, NewRootKeeps DEF ConfigClear, IInv, TypeOK, Answer
<1>3. CASE ConfigDestroy
  <2>1. Subtree(root) = live
    BY <1>3 DEF ConfigDestroy, IInv, NothingLeaks
  <2>2. /\ Reshape(live, NULL, <<>>, {}, NULL, "NONE", NULL, "DEFAULT")
        /\ root' = NULL /\ opts' = {} /\ destructor' = FALSE /\ ok' = TRUE
    BY <1>3, <2>1 DEF ConfigDestroy, Rebuild, Answer
  <2>3. live' = {}
    BY <2>2 DEF Reshape
  <2>4. TypeOK'
    <3>1. /\ <<>> \in Seq(Settings) /\ "NONE" \in Types /\ NULL \in Values
          /\ "DEFAULT" \in AllFormats
      BY EmptySeq DEF Types, Values, AllFormats
    <3> QED
      BY <2>2, <3>1, RebuildKeepsTypes DEF IInv
  <2>5. TreeOK' /\ NothingLeaks'
    BY <2>2, <2>3 DEF TreeOK, ElementsAreLive, NoDuplicates, OnlyRootIsLoose,
                     RootIsGroup, NothingLeaks
  <2> QED
    BY <2>4, <2>5 DEF IInv
<1>4. CASE \E o \in OptionSets : ConfigSetOptions(o)
  <2>1. TypeOK'
    BY <1>4, SettingAssumption DEF ConfigSetOptions, IInv, TypeOK, Answer, fields
  <2> QED
    BY <1>4, <2>1, LocalStepKeeps DEF ConfigSetOptions, fields
<1>5. CASE \E d \in Destructors : ConfigSetDestructor(d)
  <2>1. TypeOK'
    BY <1>5, SettingAssumption DEF ConfigSetDestructor, IInv, TypeOK, Answer, fields
  <2> QED
    BY <1>5, <2>1, LocalStepKeeps DEF ConfigSetDestructor, fields
<1> QED
  BY <1>1, <1>2, <1>3, <1>4, <1>5 DEF LifeStep

-----------------------------------------------------------------------------
(* The invariant.                                                          *)

LEMMA InitEstablishes == Init => IInv
<1> SUFFICES ASSUME Init PROVE IInv
  OBVIOUS
<1>1. PICK r \in Settings :
        /\ live = {r} /\ root = r
        /\ type = [s \in Settings |-> IF s = r THEN "GROUP" ELSE "NONE"]
        /\ parent = [s \in Settings |-> NULL]
        /\ kids = [s \in Settings |-> <<>>]
        /\ name = [s \in Settings |-> NULL]
        /\ value = [s \in Settings |-> NULL]
        /\ format = [s \in Settings |-> "DEFAULT"]
        /\ hook = [s \in Settings |-> NULL]
        /\ opts = {} /\ destructor = FALSE /\ finalized = {} /\ ok = TRUE
  BY DEF Init
<1>2. TypeOK
  BY <1>1, EmptySeq DEF TypeOK, Types, Values, AllFormats, Aggregates
<1>3. TreeOK
  BY <1>1, SettingAssumption
     DEF TreeOK, ElementsAreLive, NoDuplicates, OnlyRootIsLoose, RootIsGroup
<1>4. NothingLeaks
  BY <1>1 DEF NothingLeaks, Subtree
<1> QED
  BY <1>2, <1>3, <1>4 DEF IInv

LEMMA NextKeeps == IInv /\ [Next]_vars => IInv'
<1> SUFFICES ASSUME IInv, [Next]_vars PROVE IInv'
  OBVIOUS
<1>1. CASE LifeStep
  BY <1>1, LifeStepKeeps
<1>2. ASSUME NEW s \in live, SettingStep(s)
      PROVE  IInv'
  <2>1. CASE \E n \in Names \cup {NULL, BadName}, t \in AddTypes :
               ConfigSettingAdd(s, n, t)
    BY <2>1, ConfigSettingAddKeeps
  <2>2. CASE \E path \in Paths : ConfigSettingRemove(s, path)
    BY <2>2, ConfigSettingRemoveKeeps
  <2>3. CASE \E idx \in ElemIdx \cap Nat : ConfigSettingRemoveElem(s, idx)
    BY <2>3, ConfigSettingRemoveElemKeeps
  <2>4. CASE \E as \in ScalarTypes : \E v \in ScalarArgs[as] :
               ConfigSettingSet(s, as, v)
    BY <2>4, ConfigSettingSetKeeps
  <2>5. CASE \E idx \in ElemIdx, as \in ScalarTypes : \E v \in ScalarArgs[as] :
               ConfigSettingSetElem(s, idx, as, v)
    BY <2>5, SettingAssumption, ConfigSettingSetElemKeeps
  <2>6. CASE \E f \in Formats : ConfigSettingSetFormat(s, f)
    BY <2>6, ConfigSettingSetFormatKeeps
  <2>7. CASE \E h \in Hooks : ConfigSettingSetHook(s, h)
    BY <2>7, ConfigSettingSetHookKeeps
  <2> QED
    BY <1>2, <2>1, <2>2, <2>3, <2>4, <2>5, <2>6, <2>7 DEF SettingStep
<1>3. CASE UNCHANGED vars
  <2>1. TypeOK'
    BY <1>3 DEF IInv, TypeOK, vars
  <2> QED
    BY <1>3, <2>1, LocalStepKeeps DEF vars
<1> QED
  BY <1>1, <1>2, <1>3 DEF Next

LEMMA Invariance == Spec => []IInv
<1> QED
  BY InitEstablishes, NextKeeps, PTL DEF Spec

(* Every variable keeps its type, for any arguments the calls get.         *)
THEOREM TypeCorrect == Spec => []TypeOK
BY Invariance, PTL DEF IInv

(* The settings form one tree under the root: parents and lists agree, no  *)
(* list holds a setting that was freed, none is listed twice.              *)
THEOREM SettingsFormATree == Spec => []TreeOK
BY Invariance, PTL DEF IInv

(* Every setting that is allocated is below the root: none is leaked.      *)
THEOREM NoSettingLeaks == Spec => []NothingLeaks
BY Invariance, PTL DEF IInv

-----------------------------------------------------------------------------
(* Where paths lead.                                                       *)

(* The end of a component is the first separator.                          *)
LEMMA ComponentEnds ==
  ASSUME NEW T, NEW path \in Seq(T), NEW i \in 1 .. Len(path) + 1
  PROVE  /\ ComponentEnd(path, i) \in i .. Len(path) + 1
         /\ ComponentEnd(path, i) = Len(path) + 1 \/ path[ComponentEnd(path, i)] = SEP
         /\ \A k \in i .. ComponentEnd(path, i) - 1 : path[k] # SEP
<1> DEFINE I == {j \in i .. Len(path) + 1 : j = Len(path) + 1 \/ path[j] = SEP}
<1>1. Len(path) \in Nat
  BY LenProperties
<1>2. I \in SUBSET Nat /\ Len(path) + 1 \in I
  BY <1>1
<1>3. Min(I) \in I /\ \A y \in I : Min(I) <= y
  <2> HIDE DEF I
  <2> QED
    BY <1>2, LeastNatural
<1>4. ASSUME NEW k \in i .. Min(I) - 1 PROVE path[k] # SEP
  <2>1. Min(I) \in i .. Len(path) + 1
    BY <1>3
  <2>2. k \in i .. Len(path) + 1 /\ k < Min(I)
    BY <1>1, <2>1
  <2>3. k \notin I
    <3> HIDE DEF I
    <3> QED
      BY <1>1, <1>3, <2>1, <2>2
  <2> QED
    BY <2>2, <2>3
<1>5. \E j \in i .. Len(path) + 1 : /\ j = Len(path) + 1 \/ path[j] = SEP
                                    /\ \A k \in i .. j - 1 : path[k] # SEP
  <2>1. Min(I) \in i .. Len(path) + 1 /\ (Min(I) = Len(path) + 1 \/ path[Min(I)] = SEP)
    BY <1>3
  <2> HIDE DEF I
  <2> QED
    BY <1>4, <2>1
<1> HIDE DEF I
<1> DEFINE Q(j) == /\ j = Len(path) + 1 \/ path[j] = SEP
                   /\ \A k \in i .. j - 1 : path[k] # SEP
<1>6. \E j \in i .. Len(path) + 1 : Q(j)
  BY <1>5
<1>7. ComponentEnd(path, i) = CHOOSE j \in i .. Len(path) + 1 : Q(j)
  BY DEF ComponentEnd
<1>8. ComponentEnd(path, i) \in i .. Len(path) + 1 /\ Q(ComponentEnd(path, i))
  <2> HIDE DEF Q
  <2> QED
    BY <1>6, <1>7
<1> QED
  BY <1>8

(* An element found by its index is in the list.                           *)
LEMMA ElemIsElement ==
  ASSUME TypeOK, NEW s \in Settings, NEW idx \in Int, GetElem(s, idx) # NULL
  PROVE  GetElem(s, idx) \in ToSet(kids[s])
<1> DEFINE i == idx % UintMod
<1>1. i \in Nat
  BY SettingAssumption
<1>2. GetElem(s, idx) = kids[s][i + 1] /\ i < Len(kids[s])
  BY DEF GetElem
<1>3. i + 1 \in DOMAIN kids[s]
  BY <1>1, <1>2, LenProperties DEF TypeOK
<1> QED
  BY <1>2, <1>3 DEF ToSet

(* So is one found by its name.                                            *)
LEMMA SearchIsElement ==
  ASSUME TypeOK, NEW s \in Settings, NEW n, ListSearch(s, n) # NULL
  PROVE  n # NULL /\ ListSearch(s, n) \in ToSet(kids[s])
<1>1. kids[s] \in Seq(Settings)
  BY DEF TypeOK
<1>2. Position(s, n) \in DOMAIN kids[s] /\ n # NULL /\ ListSearch(s, n) = kids[s][Position(s, n)]
  BY <1>1, PositionIsElement, LenProperties DEF ListSearch
<1> QED
  BY <1>2 DEF ToSet

(* What the loop of config_setting_lookup() goes over, and where it ends.  *)
Places(path) == (1 .. Len(path) + 1) \X (Settings \cup {NULL})
Ends(path) == {at \in Places(path) : at[1] > Len(path) \/ at[2] = NULL}

(* A turn of the loop goes on along the path, to an element of the setting *)
(* or to none, and stays only at the end of the path.                      *)
LEMMA TurnGoesOn ==
  ASSUME TypeOK, NEW T, NEW path \in Seq(T), NEW i \in 1 .. Len(path), NEW f \in Settings
  PROVE  /\ LookupTurn(path, i, f) \in Places(path)
         /\ LookupTurn(path, i, f)[1] > i
         /\ LookupTurn(path, i, f)[2] \in ToSet(kids[f]) \cup {f, NULL}
<1> DEFINE j == IF path[i] = SEP THEN i + 1 ELSE i
           e == ComponentEnd(path, j)
           r == LookupTurn(path, i, f)
<1>1. Len(path) \in Nat /\ j \in i .. Len(path) + 1
  BY LenProperties
<1>2. j = i => path[i] # SEP
  BY <1>1
<1>3. /\ e \in j .. Len(path) + 1
      /\ e = Len(path) + 1 \/ path[e] = SEP
  BY <1>1, ComponentEnds
<1>4. ToSet(kids[f]) \subseteq Settings
  <2>1. kids[f] \in Seq(Settings)
    BY DEF TypeOK
  <2> QED
    BY <2>1, LenProperties, ElementOfSeq DEF ToSet
<1> SUFFICES /\ r[1] \in 1 .. Len(path) + 1 /\ r[1] > i
             /\ r[2] \in ToSet(kids[f]) \cup {f, NULL}
             /\ r = <<r[1], r[2]>>
  BY <1>4 DEF Places
<1>5. CASE j <= Len(path) /\ path[j] \in Int
  <2>1. r = <<j + 1, GetElem(f, path[j])>>
    BY <1>5 DEF LookupTurn
  <2> HIDE DEF j, e, r
  <2> QED
    BY <1>1, <1>5, <2>1, ElemIsElement
<1>6. CASE ~(j <= Len(path) /\ path[j] \in Int) /\ type[f] = "GROUP"
           /\ ~(j <= Len(path) /\ path[j] = BADIDX)
  <2>1. r = <<e, ListSearch(f, ComponentName(path, j, e))>>
    BY <1>6 DEF LookupTurn
  <2>2. e > i
    <3> HIDE DEF e, r
    <3> QED
      BY <1>1, <1>2, <1>3
  <2> HIDE DEF j, e, r
  <2> QED
    BY <1>1, <1>3, <2>1, <2>2, SearchIsElement
<1>7. CASE ~(j <= Len(path) /\ path[j] \in Int)
           /\ ((j <= Len(path) /\ path[j] = BADIDX) \/ type[f] # "GROUP")
  <2>1. r = <<Len(path) + 1, f>> \/ r = <<Len(path) + 1, NULL>>
    BY <1>7, Zenon DEF LookupTurn
  <2> HIDE DEF j, e, r
  <2> QED
    BY <1>1, <2>1
<1> QED
  BY <1>5, <1>6, <1>7

(* The recursive function of Lookup(), under a name.                       *)
WalkBody(path, w) ==
  [at \in Places(path) |->
     IF at[1] > Len(path) THEN at[2]
     ELSE IF at[2] = NULL THEN NULL
     ELSE w[LookupTurn(path, at[1], at[2])]]
Walk(path) == CHOOSE w : w = WalkBody(path, w)

LEMMA LookupIsWalk ==
  ASSUME NEW s, NEW path
  PROVE  Lookup(s, path) = IF Walk(path)[<<1, s>>] = s THEN NULL ELSE Walk(path)[<<1, s>>]
BY Zenon DEF Lookup, Walk, WalkBody, Places

NextPlace(path) == [at \in Places(path) \ Ends(path) |-> LookupTurn(path, at[1], at[2])]

LEMMA PlacesEnd ==
  ASSUME TypeOK, NEW T, NEW path \in Seq(T)
  PROVE  /\ NextPlace(path) \in [Places(path) \ Ends(path) -> Places(path)]
         /\ Inductive(Places(path), Ends(path), NextPlace(path))
<1> DEFINE D == Places(path)
           E == Ends(path)
           n == NextPlace(path)
           m == [at \in D |-> Len(path) + 1 - at[1]]
<1>1. Len(path) \in Nat
  BY LenProperties
<1>2. ASSUME NEW at \in D \ E
      PROVE  /\ n[at] \in D
             /\ n[at][1] > at[1]
             /\ n[at] = LookupTurn(path, at[1], at[2])
  <2>1. at[1] \in 1 .. Len(path) /\ at[2] \in Settings
    BY <1>1 DEF Places, Ends
  <2>2. n[at] = LookupTurn(path, at[1], at[2])
    BY DEF NextPlace
  <2> QED
    BY <2>1, <2>2, TurnGoesOn
<1>3. n \in [D \ E -> D]
  BY <1>2 DEF NextPlace
<1>4. E \in SUBSET D
  BY DEF Ends
<1>5. m \in [D -> Nat]
  BY <1>1 DEF Places
<1>6. \A at \in D : at[1] \in 1 .. Len(path) + 1
  BY DEF Places
<1>7. \A at \in D \ E : m[n[at]] < m[at]
  <2> HIDE DEF n, D, E
  <2> QED
    BY <1>1, <1>2, <1>4, <1>6
<1> HIDE DEF D, E, n, m
<1>8. Inductive(D, E, n)
  BY <1>3, <1>4, <1>5, <1>7, InductiveByMeasure
<1> QED
  BY <1>3, <1>8 DEF D, E, n

(* There is such a function: it follows the turns of the loop.             *)
LEMMA WalkFollows ==
  ASSUME TypeOK, NEW T, NEW path \in Seq(T)
  PROVE  /\ \A at \in Ends(path) : Walk(path)[at] = at[2]
         /\ \A at \in Places(path) \ Ends(path) :
              Walk(path)[at] = Walk(path)[LookupTurn(path, at[1], at[2])]
<1> DEFINE D == Places(path)
           E == Ends(path)
           n == NextPlace(path)
           V == Settings \cup {NULL}
           out == [at \in E |-> at[2]]
           comb == [xv \in (D \ E) \X V |-> xv[2]]
<1>1. n \in [D \ E -> D] /\ Inductive(D, E, n)
  BY PlacesEnd
<1>2. E \in SUBSET D
  BY DEF Ends
<1>3. \A x \in E : out[x] \in V /\ out[x] = x[2]
  BY DEF Ends, Places
<1>4. \A x \in D \ E, v \in V : comb[<<x, v>>] = v
  BY Zenon
<1>5. \A x \in D \ E : n[x] = LookupTurn(path, x[1], x[2])
  BY DEF NextPlace
<1>12. \A x \in D : x \in E <=> (x[1] > Len(path) \/ x[2] = NULL)
  BY DEF Ends
<1> HIDE DEF n, D, V, out, comb, E
<1>6. PICK w \in [D -> V] : Recurses(w, D, E, n, out, comb)
  <2>1. \A x \in E : out[x] \in V
    BY <1>3
  <2>2. \A x \in D \ E, v \in V : comb[<<x, v>>] \in V
    BY <1>4
  <2> QED
    BY <1>1, <1>2, <2>1, <2>2, RecursionExists, Zenon
<1>7. \A x \in D : w[x] = IF x[1] > Len(path) THEN x[2]
                          ELSE IF x[2] = NULL THEN NULL
                          ELSE w[LookupTurn(path, x[1], x[2])]
  <2> SUFFICES ASSUME NEW x \in D
               PROVE  w[x] = IF x[1] > Len(path) THEN x[2]
                          ELSE IF x[2] = NULL THEN NULL
                          ELSE w[LookupTurn(path, x[1], x[2])]
    OBVIOUS
  <2>1. w[x] = IF x \in E THEN out[x] ELSE comb[<<x, w[n[x]]>>]
    BY <1>6, Zenon DEF Recurses
  <2>2. CASE x \in E
    BY <1>3, <1>12, <2>1, <2>2
  <2>3. CASE x \notin E
    <3>1. w[n[x]] \in V
      BY <1>1, <1>6, <2>3
    <3> QED
      BY <1>4, <1>5, <1>12, <2>1, <2>3, <3>1
  <2> QED
    BY <2>2, <2>3
<1>8. w = WalkBody(path, w)
  BY <1>6, <1>7, Zenon DEF WalkBody, Recurses, D
<1>9. Walk(path) = WalkBody(path, Walk(path))
  BY <1>8, Zenon DEF Walk
<1>10. \A at \in D : Walk(path)[at] = IF at[1] > Len(path) THEN at[2]
                                      ELSE IF at[2] = NULL THEN NULL
                                      ELSE Walk(path)[LookupTurn(path, at[1], at[2])]
  BY <1>9, Zenon DEF WalkBody, D
<1> QED
  BY <1>2, <1>10, <1>12 DEF D, E

(* What is found from a live setting is live.                              *)
LEMMA WalkIsLive ==
  ASSUME TypeOK, ElementsAreLive, NEW T, NEW path \in Seq(T),
         NEW at \in Places(path), at[2] \in live \cup {NULL}
  PROVE  Walk(path)[at] \in live \cup {NULL}
<1> DEFINE G == {x \in Places(path) :
                   x[2] \in live \cup {NULL} => Walk(path)[x] \in live \cup {NULL}}
<1>1. Ends(path) \subseteq G
  BY WalkFollows DEF Ends
<1>2. ASSUME NEW x \in Places(path) \ Ends(path), NextPlace(path)[x] \in G
      PROVE  x \in G
  <2> DEFINE y == LookupTurn(path, x[1], x[2])
  <2>1. x[1] \in 1 .. Len(path) /\ x[2] \in Settings
    BY LenProperties DEF Places, Ends
  <2>2. NextPlace(path)[x] = y
    BY DEF NextPlace
  <2>3. y[2] \in ToSet(kids[x[2]]) \cup {x[2], NULL}
    BY <2>1, TurnGoesOn
  <2>4. Walk(path)[x] = Walk(path)[y]
    BY WalkFollows
  <2>5. x[2] \in live => y[2] \in live \cup {NULL}
    BY <2>3, Elements
  <2>6. x[2] # NULL
    BY <2>1, SettingAssumption
  <2> HIDE DEF y
  <2> QED
    BY <1>2, <2>2, <2>4, <2>5, <2>6
<1>3. G \in SUBSET Places(path)
  OBVIOUS
<1> HIDE DEF G
<1>4. G = Places(path)
  BY <1>1, <1>2, <1>3, PlacesEnd, Zenon DEF Inductive
<1> QED
  BY <1>4 DEF G

LEMMA LookupIsLive ==
  ASSUME TypeOK, ElementsAreLive, NEW T, NEW path \in Seq(T), NEW s \in live
  PROVE  Lookup(s, path) \in live \cup {NULL}
<1> DEFINE at == <<1, s>>
<1>1. at \in Places(path) /\ at[2] \in live \cup {NULL}
  BY LenProperties DEF Places, TypeOK
<1>2. Walk(path)[at] \in live \cup {NULL}
  <2> HIDE DEF at
  <2> QED
    BY <1>1, WalkIsLive
<1> QED
  BY <1>2, LookupIsWalk

(* The name searched once more is the last token of the path, alone after  *)
(* a separator or at the start.                                            *)
LEMMA LastNameEnds ==
  ASSUME NEW T, NEW path \in Seq(T), LastName(path) # NULL
  PROVE  /\ Len(path) \in Nat \ {0}
         /\ LastName(path) \in Names
         /\ path[Len(path)] = LastName(path)
         /\ Len(path) # 1 => path[Len(path) - 1] = SEP
<1> DEFINE I == {i \in 1 .. Len(path) : path[i] = SEP}
           i0 == SelectLastInSeq(path, LAMBDA tok : tok = SEP)
<1>1. Len(path) \in Nat
  BY LenProperties
<1>2. i0 = IF I # {} THEN Max(I) ELSE 0
  BY DEF SelectLastInSeq
<1>3. i0 = 0 \/ i0 \in I
  <2>1. I \in SUBSET (0 .. Len(path))
    BY <1>1
  <2> HIDE DEF I, i0
  <2> QED
    BY <1>1, <1>2, <2>1, GreatestNatural
<1>4. LastName(path) = ComponentName(path, i0 + 1, Len(path) + 1)
  BY DEF LastName
<1>5. i0 \in 0 .. Len(path) /\ (i0 # 0 => path[i0] = SEP)
  <2> HIDE DEF i0
  <2> QED
    BY <1>1, <1>3
<1> HIDE DEF i0, I
<1>6. Len(path) + 1 = (i0 + 1) + 1 /\ path[i0 + 1] \in Names /\ LastName(path) = path[i0 + 1]
  BY <1>4 DEF ComponentName
<1>7. Len(path) = i0 + 1
  BY <1>1, <1>5, <1>6
<1> QED
  BY <1>1, <1>5, <1>6, <1>7

(* When the path ends with a name, what is found is what the search for    *)
(* that name finds among the members of some group.                        *)
LEMMA LookupEndsInSearch ==
  ASSUME TypeOK, ElementsAreLive, NEW T, NEW path \in Seq(T), LastName(path) # NULL,
         NEW s \in live, Lookup(s, path) # NULL
  PROVE  \E g \in live : Lookup(s, path) = ListSearch(g, LastName(path))
<1> DEFINE L == Len(path)
           n == LastName(path)
           Good(r) == r = NULL \/ \E g \in live : r = ListSearch(g, n)
           G == {x \in Places(path) :
                   x[1] <= L /\ x[2] \in live => Good(Walk(path)[x])}
<1>1. /\ L \in Nat \ {0} /\ n \in Names /\ path[L] = n
      /\ L # 1 => path[L - 1] = SEP
      /\ path[L] # SEP /\ path[L] # BADIDX /\ path[L] \notin Int
  BY LastNameEnds, SettingAssumption
<1>2. Ends(path) \subseteq G
  <2>1. ASSUME NEW x \in Ends(path) PROVE x \in Places(path) /\ ~(x[1] <= L /\ x[2] \in live)
    BY <1>1, SettingAssumption DEF Ends, Places, TypeOK
  <2> QED
    BY <2>1
<1>3. ASSUME NEW x \in Places(path) \ Ends(path), NextPlace(path)[x] \in G,
             x[1] <= L, x[2] \in live
      PROVE  Good(Walk(path)[x])
  <2> DEFINE i == x[1]
             f == x[2]
             y == LookupTurn(path, i, f)
             j == IF path[i] = SEP THEN i + 1 ELSE i
             e == ComponentEnd(path, j)
  <2>1. i \in 1 .. L /\ f \in live /\ f \in Settings
    BY <1>1, <1>3 DEF Places, Ends, TypeOK
  <2>2. Walk(path)[x] = Walk(path)[y] /\ NextPlace(path)[x] = y
    BY WalkFollows DEF NextPlace
  <2>3. j \in 1 .. L
    BY <1>1, <2>1
  <2>4. y \in Places(path) /\ y[2] \in live \cup {NULL}
    <3> HIDE DEF i, f
    <3> QED
      BY <2>1, TurnGoesOn, Elements
  <2>5. y[1] > L \/ y[2] = NULL => Walk(path)[y] = y[2]
    BY <2>4, WalkFollows DEF Ends
  <2>6. y[1] <= L => Good(Walk(path)[y])
    <3> HIDE DEF Good
    <3>1. y[2] \in live /\ y[1] <= L => Good(Walk(path)[y])
      BY <1>3, <2>2
    <3> QED
      BY <2>4, <2>5, <3>1 DEF Good
  <2>7. CASE path[j] \in Int
    <3>1. y = <<j + 1, GetElem(f, path[j])>>
      BY <2>3, <2>7 DEF LookupTurn
    <3>2. y[1] <= L
      <4> HIDE DEF j, y
      <4> QED
        BY <1>1, <2>3, <2>7, <3>1
    <3> QED
      BY <2>2, <2>6, <3>2, Zenon
  <2>8. CASE path[j] \notin Int /\ path[j] # BADIDX /\ type[f] = "GROUP"
    <3>1. y = <<e, ListSearch(f, ComponentName(path, j, e))>>
      BY <2>8 DEF LookupTurn
    <3>2. /\ e \in j .. L + 1
          /\ e = L + 1 \/ path[e] = SEP
          /\ \A k \in j .. e - 1 : path[k] # SEP
      <4> HIDE DEF j
      <4> QED
        BY <1>1, <2>3, ComponentEnds
    <3> HIDE DEF Good, e, y, i, f
    <3>3. CASE e = L + 1
      <4>1. j = L
        <5> HIDE DEF j
        <5> QED
          BY <1>1, <2>3, <3>2, <3>3
      <4>2. ComponentName(path, j, e) = n
        BY <1>1, <3>3, <4>1 DEF ComponentName
      <4>3. y = <<L + 1, ListSearch(f, n)>>
        BY <3>1, <3>3, <4>2, Zenon
      <4>4. Walk(path)[y] = ListSearch(f, n)
        BY <1>1, <2>5, <4>3
      <4> QED
        BY <2>1, <2>2, <4>4 DEF Good
    <3>4. CASE e # L + 1
      <4>1. y[1] <= L
        <5> HIDE DEF j
        <5> QED
          BY <1>1, <2>3, <3>1, <3>2, <3>4
      <4> QED
        BY <2>2, <2>6, <4>1, Zenon
    <3> QED
      BY <3>3, <3>4
  <2>9. CASE path[j] \notin Int /\ (path[j] = BADIDX \/ type[f] # "GROUP")
    <3>1. y = <<L + 1, NULL>>
      <4>1. ~(j > L) /\ j <= L
        <5> HIDE DEF j
        <5> QED
          BY <1>1, <2>3
      <4>2. CASE path[j] = BADIDX
        BY <2>9, <4>1, <4>2 DEF LookupTurn
      <4>3. CASE path[j] # BADIDX /\ type[f] # "GROUP"
        BY <2>9, <4>1, <4>3 DEF LookupTurn
      <4> QED
        BY <2>9, <4>2, <4>3
    <3> HIDE DEF y
    <3> QED
      BY <2>2, <2>5, <3>1
  <2> QED
    BY <2>7, <2>8, <2>9
<1>4. G \in SUBSET Places(path)
  OBVIOUS
<1>5. \A x \in Places(path) \ Ends(path) : NextPlace(path)[x] \in G => x \in G
  BY <1>3
<1>6. G = Places(path)
  <2> HIDE DEF G
  <2> QED
    BY <1>2, <1>4, <1>5, PlacesEnd, Zenon DEF Inductive
<1> DEFINE at == <<1, s>>
<1>7. at \in Places(path) /\ at[1] = 1 /\ at[2] = s
  BY <1>1 DEF Places, TypeOK
<1>8. Good(Walk(path)[at])
  BY <1>1, <1>6, <1>7
<1> HIDE DEF at
<1>9. Lookup(s, path) = Walk(path)[at]
  BY LookupIsWalk DEF at
<1> QED
  BY <1>8, <1>9

(* What config_setting_remove() finds by its second search is the setting  *)
(* the path leads to.                                                      *)
LEMMA RemovalIsOfFound ==
  ASSUME IInv, NEW p \in live, NEW path \in Paths, ConfigSettingRemove(p, path)
  PROVE  Refuse \/ live' = live \ Subtree(Lookup(p, path))
<1> DEFINE found == Lookup(p, path)
           n == LastName(path)
<1> SUFFICES ASSUME ~Refuse
             PROVE  live' = live \ Subtree(found)
  OBVIOUS
<1>1. PICK q \in live : \E i \in DOMAIN kids[q] :
        q = parent[found] /\ i = Position(q, n) /\ DropElement(q, i)
  BY DEF ConfigSettingRemove
<1>9. PICK i \in DOMAIN kids[q] : q = parent[found] /\ i = Position(q, n) /\ DropElement(q, i)
  BY <1>1
<1>2. found # NULL /\ ListSearch(parent[found], n) # NULL
  BY DEF ConfigSettingRemove
<1>3. TypeOK /\ ElementsAreLive /\ path \in Seq({SEP, BADIDX, BadName} \cup Names \cup Int)
  BY SettingAssumption DEF IInv, TreeOK
<1>4. n # NULL
  BY <1>2 DEF ListSearch
<1>5. PICK g \in live : found = ListSearch(g, n)
  BY <1>2, <1>3, <1>4, LookupEndsInSearch
<1>6. parent[found] = g
  <2>1. g \in Settings
    BY <1>3 DEF TypeOK
  <2>2. found \in ToSet(kids[g])
    BY <1>2, <1>3, <1>5, <2>1, SearchIsElement
  <2> QED
    BY <1>3, <2>2, Elements
<1>7. kids[q][i] = found
  BY <1>9, <1>2, <1>5, <1>6 DEF ListSearch
<1>8. live' = (live \ Subtree(kids[q][i])) \cup {}
  BY <1>9 DEF DropElement, Rebuild, Reshape
<1> QED
  BY <1>7, <1>8

(* Removing a setting takes what the path leads to, and nothing else: the  *)
(* second search of config_setting_remove() cannot go astray.              *)
THEOREM RemovalTakesWhatIsFound == Spec => RemovesWhatLookupFinds
<1>1. ASSUME IInv, [Next]_vars, ok', live' # live,
             NEW p \in live, NEW path \in Paths, ConfigSettingRemove(p, path)
      PROVE  live' = live \ Subtree(Lookup(p, path))
  <2>1. ~Refuse
    BY <1>1 DEF Refuse, Answer
  <2> QED
    BY <1>1, <2>1, RemovalIsOfFound
<1>2. IInv /\ [Next]_vars =>
        [ok' /\ live' # live => \A p \in live, path \in Paths :
           ConfigSettingRemove(p, path) => live' = live \ Subtree(Lookup(p, path))]_vars
  BY <1>1
<1> QED
  BY <1>2, Invariance, PTL DEF Spec, RemovesWhatLookupFinds

-----------------------------------------------------------------------------
(* Hooks.                                                                  *)

(* The heap changes shape, and hooks go only with the settings destroyed.  *)
Reshaped == \E dead \in SUBSET live, new \in SUBSET Settings : \E q, ks, n, t, v :
  /\ new \cap (live \ dead) = {}
  /\ Rebuild(dead, q, ks, new, n, t, v)

(* What a step may do to the hooks.                                        *)
HookStep ==
  \/ Reshaped
  \/ UNCHANGED <<live, hook, finalized>>
  \/ \E s \in live, h \in Hooks : ConfigSettingSetHook(s, h)

LEMMA ReshapedBy ==
  ASSUME NEW dead \in SUBSET live, NEW new \in SUBSET Settings, NEW q, NEW ks,
         NEW n, NEW t, NEW v, new \cap (live \ dead) = {},
         Rebuild(dead, q, ks, new, n, t, v)
  PROVE  Reshaped
BY Zenon DEF Reshaped

LEMMA SubtreeIsLive == \A s : Subtree(s) \in SUBSET live
BY DEF Subtree

LEMMA LifeStepHooks == ASSUME TypeOK, LifeStep PROVE HookStep
<1>1. ASSUME NEW dead \in SUBSET live, NewRoot(dead) PROVE Reshaped
  <2>1. PICK r \in Settings \ (live \ dead) :
          Rebuild(dead, NULL, <<>>, {r}, NULL, "GROUP", NULL)
    BY <1>1 DEF NewRoot
  <2>2. {r} \in SUBSET Settings /\ {r} \cap (live \ dead) = {}
    OBVIOUS
  <2> QED
    BY <2>1, <2>2, ReshapedBy
<1>2. CASE ConfigInit
  BY <1>1, <1>2 DEF ConfigInit, HookStep
<1>3. CASE ConfigClear
  BY <1>1, <1>3, SubtreeIsLive DEF ConfigClear, HookStep
<1>4. CASE ConfigDestroy
  <2>1. Rebuild(Subtree(root), NULL, <<>>, {}, NULL, "NONE", NULL)
    BY <1>4 DEF ConfigDestroy
  <2> QED
    BY <2>1, SubtreeIsLive, ReshapedBy DEF HookStep
<1>5. CASE (\E o \in OptionSets : ConfigSetOptions(o))
             \/ (\E d \in Destructors : ConfigSetDestructor(d))
  BY <1>5 DEF ConfigSetOptions, ConfigSetDestructor, HookStep, fields
<1> QED
  BY <1>2, <1>3, <1>4, <1>5 DEF LifeStep

(* A call that is refused, or takes an element away.                       *)
LEMMA RefuseHooks == Refuse => HookStep
BY DEF Refuse, Unchanged, fields, HookStep

LEMMA DropElementHooks ==
  ASSUME NEW q, NEW i, DropElement(q, i) PROVE HookStep
<1>1. Rebuild(Subtree(kids[q][i]), q, RemoveAt(kids[q], i), {}, NULL, "NONE", NULL)
  BY DEF DropElement
<1> QED
  BY <1>1, SubtreeIsLive, ReshapedBy DEF HookStep

LEMMA ConfigSettingAddHooks ==
  ASSUME NEW p, NEW n, NEW t, ConfigSettingAdd(p, n, t) PROVE HookStep
<1> DEFINE m == GivenName(p, n)
           old == GetMember(p, m)
           dead == IF old = NULL THEN {} ELSE Subtree(old)
           rest == IF old = NULL THEN kids[p] ELSE RemoveAt(kids[p], Position(p, m))
<1>1. CASE ~MayAdd(p, n, t)
  BY <1>1, RefuseHooks DEF ConfigSettingAdd
<1>2. CASE MayAdd(p, n, t)
  <2>1. PICK c \in Settings \ (live \ dead) :
          Rebuild(dead, p, Append(rest, c), {c}, m, t, ZeroOf(t))
    BY <1>2, Zenon DEF ConfigSettingAdd
  <2>2. dead \in SUBSET live
    BY SubtreeIsLive
  <2> HIDE DEF m, old, dead, rest
  <2>3. {c} \in SUBSET Settings /\ {c} \cap (live \ dead) = {}
    OBVIOUS
  <2> QED
    BY <2>1, <2>2, <2>3, ReshapedBy DEF HookStep
<1> QED
  BY <1>1, <1>2

LEMMA ConfigSettingSetHooks ==
  ASSUME NEW s, NEW as, NEW v, ConfigSettingSet(s, as, v) PROVE HookStep
BY RefuseHooks DEF ConfigSettingSet, Store, HookStep

LEMMA ConfigSettingSetElemHooks ==
  ASSUME NEW s, NEW idx, NEW as, NEW v, ConfigSettingSetElem(s, idx, as, v)
  PROVE  HookStep
<1>1. CASE Refuse
  BY <1>1, RefuseHooks
<1>2. CASE idx < 0 /\ ~Refuse
  <2>1. PICK c \in Settings \ live :
          Rebuild({}, s, Append(kids[s], c), {c}, NULL, as, v)
    BY <1>2 DEF ConfigSettingSetElem, AppendElem
  <2>2. {} \in SUBSET live /\ {c} \in SUBSET Settings /\ {c} \cap (live \ {}) = {}
    OBVIOUS
  <2> QED
    BY <2>1, <2>2, ReshapedBy DEF HookStep
<1>3. CASE ~(idx < 0) /\ ~Refuse
  BY <1>3, ConfigSettingSetHooks DEF ConfigSettingSetElem
<1> QED
  BY <1>1, <1>2, <1>3

LEMMA NextHooks == ASSUME TypeOK, [Next]_vars PROVE HookStep
<1>1. CASE LifeStep
  BY <1>1, LifeStepHooks
<1>2. ASSUME NEW s \in live, SettingStep(s)
      PROVE  HookStep
  <2>1. ASSUME NEW path, ConfigSettingRemove(s, path) PROVE HookStep
    BY <2>1, RefuseHooks, DropElementHooks, Zenon DEF ConfigSettingRemove
  <2>2. ASSUME NEW idx, ConfigSettingRemoveElem(s, idx) PROVE HookStep
    BY <2>2, RefuseHooks, DropElementHooks DEF ConfigSettingRemoveElem
  <2>3. ASSUME NEW f, ConfigSettingSetFormat(s, f) PROVE HookStep
    BY <2>3, RefuseHooks DEF ConfigSettingSetFormat, HookStep
  <2>4. ASSUME NEW h \in Hooks, ConfigSettingSetHook(s, h) PROVE HookStep
    BY <2>4 DEF HookStep
  <2> QED
    BY <1>2, <2>1, <2>2, <2>3, <2>4, ConfigSettingAddHooks, ConfigSettingSetHooks,
       ConfigSettingSetElemHooks, Zenon DEF SettingStep
<1>3. CASE UNCHANGED vars
  BY <1>3 DEF vars, HookStep
<1> QED
  BY <1>1, <1>2, <1>3 DEF Next

HookInv == TypeOK /\ HooksLiveOnce

LEMMA HooksStayOnce == ASSUME HookInv, HookStep PROVE HooksLiveOnce'
<1>1. CASE Reshaped
  <2> PICK dead \in SUBSET live, new \in SUBSET Settings :
        \E q, ks, n, t, v :
          new \cap (live \ dead) = {} /\ Rebuild(dead, q, ks, new, n, t, v)
    BY <1>1, Zenon DEF Reshaped
  <2>1. PICK q, ks, n, t, v :
          new \cap (live \ dead) = {} /\ Rebuild(dead, q, ks, new, n, t, v)
    OBVIOUS
  <2>2. ASSUME NEW s \in live', hook'[s] # NULL
        PROVE  s \in live \ dead /\ hook'[s] = hook[s]
    BY <2>1, <2>2 DEF Rebuild, Reshape, CreatedHook, HookInv, TypeOK
  <2>3. finalized' \subseteq finalized \cup HooksOf(dead)
    BY <2>1 DEF Rebuild, Reshape
  <2>4. ASSUME NEW s \in live', hook'[s] # NULL PROVE hook'[s] \notin HooksOf(dead)
    BY <2>2, <2>4 DEF HooksOf, HookInv, HooksLiveOnce
  <2> QED
    BY <2>2, <2>3, <2>4 DEF HookInv, HooksLiveOnce
<1>2. CASE UNCHANGED <<live, hook, finalized>>
  BY <1>2 DEF HookInv, HooksLiveOnce
<1>3. CASE \E s \in live, h \in Hooks : ConfigSettingSetHook(s, h)
  BY <1>3 DEF ConfigSettingSetHook, HookInv, HooksLiveOnce, TypeOK
<1> QED
  BY <1>1, <1>2, <1>3 DEF HookStep

LEMMA HooksAreKept ==
  ASSUME TypeOK, HookStep, destructor, NEW s \in live, hook[s] # NULL
  PROVE  hook[s] \in finalized' \cup {hook'[x] : x \in live'}
<1>1. CASE Reshaped
  <2> PICK dead \in SUBSET live, new \in SUBSET Settings :
        \E q, ks, n, t, v :
          new \cap (live \ dead) = {} /\ Rebuild(dead, q, ks, new, n, t, v)
    BY <1>1, Zenon DEF Reshaped
  <2>1. PICK q, ks, n, t, v :
          new \cap (live \ dead) = {} /\ Rebuild(dead, q, ks, new, n, t, v)
    OBVIOUS
  <2>2. CASE s \in dead
    BY <2>1, <2>2 DEF Rebuild, Reshape, HooksOf
  <2>3. CASE s \notin dead
    <3>1. s \in live' /\ hook'[s] = hook[s]
      BY <2>1, <2>3 DEF Rebuild, Reshape, TypeOK
    <3> QED
      BY <3>1
  <2> QED
    BY <2>2, <2>3
<1>2. CASE UNCHANGED <<live, hook, finalized>>
  BY <1>2
<1>3. CASE \E x \in live, h \in Hooks : ConfigSettingSetHook(x, h)
  <2>1. hook'[s] = hook[s] /\ live' = live
    BY <1>3 DEF ConfigSettingSetHook, TypeOK
  <2> QED
    BY <2>1
<1> QED
  BY <1>1, <1>2, <1>3 DEF HookStep

(* No hook is given to the destructor twice: a setting never holds one     *)
(* that was given to it, and no two settings hold the same one.            *)
THEOREM HooksAreFinalizedOnce == Spec => []HooksLiveOnce
<1>1. Init => HooksLiveOnce
  BY DEF Init, HooksLiveOnce
<1>2. TypeOK /\ HooksLiveOnce /\ [Next]_vars => HooksLiveOnce'
  BY NextHooks, HooksStayOnce DEF HookInv
<1> QED
  BY <1>1, <1>2, TypeCorrect, PTL DEF Spec

(* Whichever way a setting goes, by removal, override, clear or destroy,   *)
(* the destructor gets its hook: no memory of the program is lost.         *)
THEOREM HooksReachTheDestructor == Spec => NoHookIsLost
<1>1. TypeOK /\ [Next]_vars =>
        [destructor => \A s \in live : hook[s] # NULL =>
           hook[s] \in finalized' \cup {hook'[x] : x \in live'}]_vars
  BY NextHooks, HooksAreKept
<1> QED
  BY <1>1, TypeCorrect, PTL DEF Spec, NoHookIsLost

-----------------------------------------------------------------------------
(* Where a setting may be.                                                 *)

ShapeInv == IInv /\ ShapeOK

(* A list of elements with their names and types that the setting s, of    *)
(* type ts, may have.                                                      *)
Fits(ts, ks, nm, ty) ==
  /\ ks # <<>> => ts \in Aggregates
  /\ \A i \in DOMAIN ks :
       /\ nm[ks[i]] # NULL => ts = "GROUP"
       /\ ts = "ARRAY" => ty[ks[i]] \in ScalarTypes
  /\ \A i, j \in DOMAIN ks : nm[ks[i]] = nm[ks[j]] /\ i # j => nm[ks[i]] = NULL

LEMMA ShapeIsFits == ShapeOK <=> \A s \in live : Fits(type[s], kids[s], name, type)
BY DEF ShapeOK, Fits

(* Only elements that stay or are new are listed after a change of shape,  *)
(* and the lists but the one of q keep what they had.                      *)
LEMMA RebuildKeepsShape ==
  ASSUME ShapeInv, NEW dead \in SUBSET live, NEW q \in live \ dead, NEW ks,
         NEW new \in SUBSET Settings, NEW n, NEW t, NEW v, NEW f,
         new \cap (live \ dead) = {},
         \A y \in live \ dead : y # q => ToSet(kids[y]) \cap dead = {},
         Reshape(dead, q, ks, new, n, t, v, f),
         Fits(type[q], ks, name', type')
  PROVE  ShapeOK'
<1> DEFINE stay == live \ dead
<1>1. /\ live' = stay \cup new
      /\ \A s \in new : kids'[s] = <<>>
      /\ kids'[q] = ks
      /\ \A s \in stay \ {q} : kids'[s] = kids[s]
      /\ \A s \in stay : type'[s] = type[s] /\ name'[s] = name[s]
  BY DEF Reshape, ShapeInv, IInv, TypeOK
<1>2. SUFFICES ASSUME NEW s \in live'
               PROVE  Fits(type'[s], kids'[s], name', type')
  BY DEF ShapeOK, Fits
<1>3. CASE s \in new
  BY <1>1, <1>3 DEF Fits
<1>4. CASE s = q
  BY <1>1, <1>4
<1>5. CASE s \in stay \ {q}
  <2>1. \A i \in DOMAIN kids[s] : kids[s][i] \in stay
    BY <1>5 DEF ShapeInv, IInv, TreeOK, ElementsAreLive, ToSet
  <2>2. Fits(type[s], kids[s], name, type)
    BY <1>5, ShapeIsFits DEF ShapeInv
  <2> QED
    BY <1>1, <1>5, <2>1, <2>2 DEF Fits
<1> QED
  BY <1>1, <1>3, <1>4, <1>5

(* What is left of a list that lost an element fits.                       *)
LEMMA RemoveAtFits ==
  ASSUME NEW ts, NEW S, NEW ks \in Seq(S), NEW i \in 1 .. Len(ks), NEW nm, NEW ty,
         Fits(ts, ks, nm, ty)
  PROVE  /\ Fits(ts, RemoveAt(ks, i), nm, ty)
         /\ \A j \in DOMAIN RemoveAt(ks, i) :
              nm[ks[i]] # NULL => nm[RemoveAt(ks, i)[j]] # nm[ks[i]]
<1> DEFINE r == RemoveAt(ks, i)
           at(j) == IF j < i THEN j ELSE j + 1
<1>1. /\ r \in Seq(S) /\ Len(ks) \in Nat /\ Len(r) = Len(ks) - 1
      /\ \A j \in 1 .. Len(ks) - 1 : r[j] = IF j < i THEN ks[j] ELSE ks[j + 1]
  BY RemoveAtProperties, LenProperties
<1>2. DOMAIN r = 1 .. Len(ks) - 1 /\ DOMAIN ks = 1 .. Len(ks)
  BY <1>1, LenProperties
<1> HIDE DEF r
<1>3. \A j \in DOMAIN r : at(j) \in DOMAIN ks \ {i} /\ r[j] = ks[at(j)]
  BY <1>1, <1>2
<1>4. \A j, k \in DOMAIN r : j # k => at(j) # at(k)
  BY <1>1, <1>2
<1> HIDE DEF at
<1>5. ks # <<>>
  BY <1>2
<1>6. Fits(ts, r, nm, ty)
  BY <1>3, <1>4, <1>5 DEF Fits
<1>7. \A j \in DOMAIN r : nm[ks[i]] # NULL => nm[r[j]] # nm[ks[i]]
  BY <1>2, <1>3 DEF Fits
<1> QED
  BY <1>6, <1>7 DEF r

(* One more element fits when its name is new and its type allowed.        *)
LEMMA AppendFits ==
  ASSUME NEW ts \in Aggregates, NEW S, NEW ks \in Seq(S), NEW c \in S, NEW nm, NEW ty,
         Fits(ts, ks, nm, ty),
         nm[c] # NULL => ts = "GROUP" /\ \A j \in DOMAIN ks : nm[ks[j]] # nm[c],
         ts = "ARRAY" => ty[c] \in ScalarTypes
  PROVE  Fits(ts, Append(ks, c), nm, ty)
<1> DEFINE r == Append(ks, c)
<1>1. /\ Len(ks) \in Nat /\ DOMAIN ks = 1 .. Len(ks)
      /\ DOMAIN r = 1 .. Len(ks) + 1
      /\ \A j \in 1 .. Len(ks) : r[j] = ks[j]
      /\ r[Len(ks) + 1] = c
  BY AppendProperties, LenProperties
<1> HIDE DEF r
<1>2. \A j \in DOMAIN r : j \in DOMAIN ks \/ r[j] = c
  BY <1>1
<1>3. \A j, k \in DOMAIN r : j # k => j \in DOMAIN ks \/ k \in DOMAIN ks
  BY <1>1
<1>4. \A j \in DOMAIN ks : r[j] = ks[j]
  BY <1>1
<1> QED
  BY <1>2, <1>3, <1>4 DEF Fits, r

(* A name that is not found in a list is not the name of an element.       *)
LEMMA NotFound ==
  ASSUME NEW s, NEW n, kids[s] \in Seq(Settings), Position(s, n) = 0
  PROVE  \A j \in DOMAIN kids[s] : name[kids[s][j]] # n
<1> DEFINE I == {j \in 1 .. Len(kids[s]) : name[kids[s][j]] = n}
<1>1. Position(s, n) = IF I # {} THEN Min(I) ELSE 0
  BY DEF Position, SelectInSeq
<1>2. I # {} => Min(I) \in I
  <2>1. I \in SUBSET Nat
    BY LenProperties
  <2> QED
    BY <2>1, LeastNatural
<1>3. I = {}
  BY <1>1, <1>2
<1> QED
  BY <1>3, LenProperties

(* One that is found is the name of the element at that position.          *)
LEMMA PositionNames ==
  ASSUME NEW s, NEW n, kids[s] \in Seq(Settings), Position(s, n) # 0
  PROVE  Position(s, n) \in DOMAIN kids[s] /\ name[kids[s][Position(s, n)]] = n
<1> DEFINE I == {j \in 1 .. Len(kids[s]) : name[kids[s][j]] = n}
<1>1. Position(s, n) = IF I # {} THEN Min(I) ELSE 0
  BY DEF Position, SelectInSeq
<1>2. I # {} => Min(I) \in I
  <2>1. I \in SUBSET Nat
    BY LenProperties
  <2> QED
    BY <2>1, LeastNatural
<1> QED
  BY <1>1, <1>2, LenProperties

LEMMA DropElementShape ==
  ASSUME ShapeInv, NEW q \in live, NEW i \in DOMAIN kids[q], DropElement(q, i)
  PROVE  ShapeOK'
<1> DEFINE v == kids[q][i]
           dead == Subtree(v)
           ks == RemoveAt(kids[q], i)
<1>1. /\ kids[q] \in Seq(Settings) /\ DOMAIN kids[q] = 1 .. Len(kids[q])
      /\ live \subseteq Settings
  BY LenProperties DEF ShapeInv, IInv, TypeOK
<1>2. v \in ToSet(kids[q])
  BY DEF ToSet
<1>3. /\ v \in dead /\ dead \in SUBSET live /\ q \in live \ dead
      /\ \A y \in live \ dead : \A k \in ToSet(kids[y]) :
           k \in dead => k = v /\ y = q
  BY <1>2, SubtreeOfElement DEF ShapeInv, IInv
<1>4. /\ ks \in Seq(Settings) /\ ToSet(ks) = ToSet(kids[q]) \ {v}
  <2>1. \A j, k \in 1 .. Len(kids[q]) : kids[q][j] = kids[q][k] => j = k
    BY <1>1 DEF ShapeInv, IInv, TreeOK, NoDuplicates
  <2> QED
    BY <1>1, <2>1, RemoveAtProperties, RemoveAtToSet
<1>5. Fits(type[q], ks, name, type)
  BY <1>1, ShapeIsFits, RemoveAtFits DEF ShapeInv
<1>6. Reshape(dead, q, ks, {}, NULL, "NONE", NULL, "DEFAULT")
  BY DEF DropElement, Rebuild
<1> HIDE DEF v, dead, ks
<1>7. \A j \in DOMAIN ks : ks[j] \in live \ dead
  <2>1. \A j \in DOMAIN ks : ks[j] \in ToSet(ks)
    BY DEF ToSet
  <2>2. ToSet(kids[q]) \subseteq live
    BY Elements DEF ShapeInv, IInv, TreeOK
  <2> QED
    BY <1>3, <1>4, <2>1, <2>2
<1>8. \A x \in live \ dead : name'[x] = name[x] /\ type'[x] = type[x]
  BY <1>1, <1>6 DEF Reshape
<1>9. Fits(type[q], ks, name', type')
  BY <1>5, <1>7, <1>8 DEF Fits
<1>10. \A y \in live \ dead : y # q => ToSet(kids[y]) \cap dead = {}
  BY <1>3
<1> QED
  BY <1>3, <1>6, <1>9, <1>10, RebuildKeepsShape

(* A new element of q after the cells `dead' were freed and `rest' is left *)
(* of its list.                                                            *)
LEMMA CreateShape ==
  ASSUME ShapeInv, NEW dead \in SUBSET live, NEW q \in live \ dead,
         NEW rest \in Seq(Settings), NEW c \in Settings \ (live \ dead),
         NEW n, NEW t, NEW v, NEW f,
         \A y \in live \ dead : y # q => ToSet(kids[y]) \cap dead = {},
         ToSet(rest) \subseteq live \ dead,
         Fits(type[q], rest, name, type),
         type[q] \in Aggregates,
         n # NULL => type[q] = "GROUP" /\ \A j \in DOMAIN rest : name[rest[j]] # n,
         type[q] = "ARRAY" => t \in ScalarTypes,
         Reshape(dead, q, Append(rest, c), {c}, n, t, v, f)
  PROVE  ShapeOK'
<1>1. /\ \A x \in live \ dead : name'[x] = name[x] /\ type'[x] = type[x]
      /\ name'[c] = n /\ type'[c] = t
  BY DEF Reshape, ShapeInv, IInv, TypeOK
<1>2. \A j \in DOMAIN rest : rest[j] \in live \ dead
  BY DEF ToSet
<1>3. Fits(type[q], rest, name', type')
  BY <1>1, <1>2 DEF Fits
<1>4. \A j \in DOMAIN rest : n # NULL => name'[rest[j]] # n
  BY <1>1, <1>2
<1>5. Fits(type[q], Append(rest, c), name', type')
  BY <1>1, <1>3, <1>4, AppendFits
<1>6. {c} \in SUBSET Settings /\ {c} \cap (live \ dead) = {}
  OBVIOUS
<1> QED
  BY <1>5, <1>6, RebuildKeepsShape

LEMMA ConfigSettingAddShape ==
  ASSUME ShapeInv, NEW p \in live, NEW n, NEW t, ConfigSettingAdd(p, n, t)
  PROVE  ShapeOK' \/ Refuse
<1> DEFINE m == GivenName(p, n)
           old == GetMember(p, m)
           dead == IF old = NULL THEN {} ELSE Subtree(old)
           rest == IF old = NULL THEN kids[p] ELSE RemoveAt(kids[p], Position(p, m))
<1>1. CASE ~MayAdd(p, n, t)
  BY <1>1 DEF ConfigSettingAdd
<1>2. CASE MayAdd(p, n, t)
  <2>1. PICK c \in Settings \ (live \ dead) :
          Reshape(dead, p, Append(rest, c), {c}, m, t, ZeroOf(t), "DEFAULT")
    BY <1>2, Zenon DEF ConfigSettingAdd, Rebuild
  <2>2. /\ type[p] \in Aggregates
        /\ type[p] = "ARRAY" => t \in ScalarTypes
        /\ m # NULL => type[p] = "GROUP"
    BY <1>2 DEF MayAdd, GivenName, Aggregates
  <2>3. /\ kids[p] \in Seq(Settings) /\ DOMAIN kids[p] = 1 .. Len(kids[p])
        /\ \A i, j \in DOMAIN kids[p] : kids[p][i] = kids[p][j] => i = j
        /\ ToSet(kids[p]) \subseteq live
        /\ Fits(type[p], kids[p], name, type)
    BY LenProperties, Elements, ShapeIsFits
       DEF ShapeInv, IInv, TypeOK, TreeOK, NoDuplicates
  <2>4. CASE old = NULL
    <3>1. dead = {} /\ rest = kids[p]
      BY <2>4
    <3>2. m # NULL => \A j \in DOMAIN kids[p] : name[kids[p][j]] # m
      <4>1. m # NULL => Position(p, m) = 0 \/ kids[p][Position(p, m)] = NULL
        BY <2>2, <2>4 DEF GetMember, ListSearch
      <4>2. Position(p, m) # 0 => kids[p][Position(p, m)] # NULL
        BY <2>3, PositionIsElement, SettingAssumption, ElementOfSeq
      <4> HIDE DEF m
      <4> QED
        BY <2>3, <4>1, <4>2, NotFound
    <3> HIDE DEF m, old, dead, rest
    <3> QED
      BY <2>1, <2>2, <2>3, <3>1, <3>2, CreateShape
  <2>5. CASE old # NULL
    <3> DEFINE i == Position(p, m)
    <3>1. old = kids[p][i] /\ i # 0 /\ m # NULL
      BY <2>5 DEF GetMember, ListSearch
    <3>2. i \in DOMAIN kids[p] /\ name[kids[p][i]] = m
      BY <2>3, <3>1, PositionNames
    <3>3. dead = Subtree(old) /\ rest = RemoveAt(kids[p], i)
      BY <2>5
    <3> HIDE DEF m, old, dead, rest, i
    <3>4. old \in ToSet(kids[p])
      BY <3>1, <3>2 DEF ToSet
    <3>5. /\ dead \in SUBSET live /\ old \in dead /\ p \in live \ dead
          /\ \A y \in live \ dead : \A k \in ToSet(kids[y]) :
               k \in dead => k = old /\ y = p
      BY <3>3, <3>4, SubtreeOfElement DEF ShapeInv, IInv
    <3>6. i \in 1 .. Len(kids[p])
          /\ \A j, k \in 1 .. Len(kids[p]) : kids[p][j] = kids[p][k] => j = k
      BY <2>3, <3>2
    <3>7. rest \in Seq(Settings) /\ ToSet(rest) = ToSet(kids[p]) \ {old}
      BY <2>3, <3>1, <3>3, <3>6, RemoveAtProperties, RemoveAtToSet
    <3>8. /\ Fits(type[p], rest, name, type)
          /\ \A j \in DOMAIN rest : name[rest[j]] # m
      <4>1. /\ Fits(type[p], RemoveAt(kids[p], i), name, type)
            /\ \A j \in DOMAIN RemoveAt(kids[p], i) :
                 name[kids[p][i]] # NULL => name[RemoveAt(kids[p], i)[j]] # name[kids[p][i]]
        BY <2>3, <3>6, RemoveAtFits
      <4> QED
        BY <3>1, <3>2, <3>3, <4>1
    <3>9. ToSet(rest) \subseteq live \ dead
      BY <2>3, <3>5, <3>7
    <3>10. \A y \in live \ dead : y # p => ToSet(kids[y]) \cap dead = {}
      BY <3>5
    <3> QED
      BY <2>1, <2>2, <3>5, <3>7, <3>8, <3>9, <3>10, CreateShape
  <2> QED
    BY <2>4, <2>5
<1> QED
  BY <1>1, <1>2

(* A store keeps the type of a setting that has one.                       *)
LEMMA StoredKeepsType ==
  ASSUME NEW as \in ScalarTypes, NEW t, NEW v, NEW auto \in BOOLEAN,
         NEW r \in Stored(as, t, v, auto), t # "NONE"
  PROVE  r[1] = t
<1>1. CASE as = "INT"
  BY <1>1 DEF Stored, SetInt
<1>2. CASE as = "INT64"
  BY <1>2 DEF Stored, SetInt64
<1>3. CASE as = "FLOAT"
  <2>1. r \in SetFloat(t, v, auto)
    BY <1>3 DEF Stored
  <2>2. \A x : \A S : x \in {<<t, k>> : k \in S} => x[1] = t
    OBVIOUS
  <2>3. \/ t = "FLOAT" /\ r = <<"FLOAT", v>>
        \/ t = "INT" /\ r \in {<<t, k>> : k \in CastTo(Int32, v)}
        \/ t = "INT64" /\ r \in {<<t, k>> : k \in CastTo(Int64, v)}
    BY <2>1 DEF SetFloat
  <2> QED
    BY <2>2, <2>3
<1>4. CASE as = "BOOL"
  BY <1>4 DEF Stored, SetBool
<1>5. CASE as = "STRING"
  BY <1>5 DEF Stored, SetString
<1> QED
  BY <1>1, <1>2, <1>3, <1>4, <1>5 DEF ScalarTypes

(* A step that gives a scalar its value, and its type when it had none.    *)
Retyped ==
  /\ UNCHANGED <<live, name, kids>>
  /\ \A s \in live : \/ type'[s] = type[s]
                     \/ type[s] = "NONE" /\ type'[s] \in ScalarTypes

LEMMA RetypedShape == ASSUME ShapeInv, Retyped PROVE ShapeOK'
<1> SUFFICES ASSUME NEW s \in live PROVE Fits(type'[s], kids[s], name, type')
  BY DEF ShapeOK, Fits, Retyped
<1>1. Fits(type[s], kids[s], name, type)
  BY ShapeIsFits DEF ShapeInv
<1>2. \A i \in DOMAIN kids[s] : kids[s][i] \in live
  BY DEF ShapeInv, IInv, TreeOK, ElementsAreLive
<1>3. CASE type'[s] = type[s]
  BY <1>1, <1>2, <1>3 DEF Fits, Retyped
<1>4. CASE type[s] = "NONE"
  <2>1. kids[s] = <<>> /\ DOMAIN kids[s] = {}
    BY <1>1, <1>4 DEF Fits, Aggregates
  <2> QED
    BY <2>1 DEF Fits
<1> QED
  BY <1>3, <1>4 DEF Retyped

LEMMA ConfigSettingSetShape ==
  ASSUME TypeOK, NEW s \in live, NEW as \in ScalarTypes, NEW v \in ScalarArgs[as],
         ConfigSettingSet(s, as, v)
  PROVE  Refuse \/ Retyped
<1> DEFINE results == Stored(as, type[s], v, "AUTOCONVERT" \in opts)
<1>1. CASE results # {}
  <2>1. PICK r \in results : Store(s, r)
    BY <1>1 DEF ConfigSettingSet
  <2>2. r[1] \in ScalarTypes
    <3>1. type[s] \in Types /\ ("AUTOCONVERT" \in opts) \in BOOLEAN
      BY DEF TypeOK
    <3> QED
      BY <3>1, StoredTypes, Zenon
  <2>3. type[s] # "NONE" => r[1] = type[s]
    <3>1. ("AUTOCONVERT" \in opts) \in BOOLEAN
      OBVIOUS
    <3> QED
      BY <3>1, StoredKeepsType, Zenon
  <2>4. type' = [type EXCEPT ![s] = r[1]] /\ UNCHANGED <<live, name, kids>>
    BY <2>1 DEF Store
  <2> HIDE DEF results
  <2> QED
    BY <2>2, <2>3, <2>4 DEF Retyped, TypeOK
<1> QED
  BY <1>1 DEF ConfigSettingSet

(* A new element of an array or a list.                                    *)
LEMMA AppendShape ==
  ASSUME ShapeInv, NEW s \in live, type[s] \in {"ARRAY", "LIST"},
         NEW as \in ScalarTypes, NEW v, NEW f, NEW c \in Settings \ live,
         Reshape({}, s, Append(kids[s], c), {c}, NULL, as, v, f)
  PROVE  ShapeOK'
<1>1. {} \in SUBSET live /\ live \ {} = live
  OBVIOUS
<1>2. kids[s] \in Seq(Settings) /\ ToSet(kids[s]) \subseteq live
  BY Elements DEF ShapeInv, IInv, TypeOK, TreeOK
<1>3. Fits(type[s], kids[s], name, type) /\ type[s] \in Aggregates
  BY ShapeIsFits DEF ShapeInv, Aggregates
<1> QED
  BY <1>1, <1>2, <1>3, CreateShape

LEMMA AppendElemShape ==
  ASSUME ShapeInv, NEW s \in live, NEW as \in ScalarTypes, NEW v,
         AppendElem(s, as, v)
  PROVE  ShapeOK' \/ Refuse
BY AppendShape DEF AppendElem, Rebuild

(* What config_setting_get_elem() finds is a live setting.                 *)
LEMMA ElemIsLive ==
  ASSUME IInv, NEW s \in live, NEW idx \in Int, GetElem(s, idx) # NULL
  PROVE  GetElem(s, idx) \in live /\ GetElem(s, idx) \in ToSet(kids[s])
<1>1. s \in Settings /\ TypeOK /\ ElementsAreLive
  BY DEF IInv, TypeOK, TreeOK
<1> QED
  BY <1>1, ElemIsElement, Elements

LEMMA ConfigSettingSetElemShape ==
  ASSUME ShapeInv, NEW s \in live, NEW idx \in Int, NEW as \in ScalarTypes,
         NEW v \in ScalarArgs[as], ConfigSettingSetElem(s, idx, as, v)
  PROVE  ShapeOK' \/ Refuse \/ Retyped
<1>1. CASE idx < 0
  BY <1>1, AppendElemShape DEF ConfigSettingSetElem
<1>2. CASE ~(idx < 0) /\ ~Refuse
  <2>1. GetElem(s, idx) \in live /\ ConfigSettingSet(GetElem(s, idx), as, v)
    BY <1>2, ElemIsLive DEF ConfigSettingSetElem, ShapeInv
  <2> QED
    BY <2>1, ConfigSettingSetShape DEF ShapeInv, IInv
<1> QED
  BY <1>1, <1>2

LEMMA LifeStepShape == ASSUME ShapeInv, LifeStep PROVE ShapeOK'
<1>1. ASSUME NewRoot(live) PROVE ShapeOK'
  <2>1. PICK r \in Settings :
          Reshape(live, NULL, <<>>, {r}, NULL, "GROUP", NULL, "DEFAULT")
    BY <1>1 DEF NewRoot, Rebuild
  <2>2. live' = {r} /\ kids'[r] = <<>>
    BY <2>1 DEF Reshape
  <2> QED
    BY <2>2 DEF ShapeOK
<1>2. root = NULL => live = {}
  BY DEF ShapeInv, IInv, TreeOK, RootIsGroup
<1>3. root # NULL => Subtree(root) = live
  BY DEF ShapeInv, IInv, NothingLeaks
<1>4. CASE ConfigInit
  BY <1>1, <1>2, <1>4 DEF ConfigInit
<1>5. CASE ConfigClear
  BY <1>1, <1>3, <1>5 DEF ConfigClear
<1>6. CASE ConfigDestroy
  <2>1. Reshape(live, NULL, <<>>, {}, NULL, "NONE", NULL, "DEFAULT")
    BY <1>3, <1>6 DEF ConfigDestroy, Rebuild
  <2>2. live' = {}
    BY <2>1 DEF Reshape
  <2> QED
    BY <2>2 DEF ShapeOK
<1>7. CASE (\E o \in OptionSets : ConfigSetOptions(o))
             \/ (\E d \in Destructors : ConfigSetDestructor(d))
  <2>1. Retyped
    BY <1>7 DEF ConfigSetOptions, ConfigSetDestructor, Retyped, fields
  <2> QED
    BY <2>1, RetypedShape
<1> QED
  BY <1>4, <1>5, <1>6, <1>7 DEF LifeStep

LEMMA RefuseIsRetyped == Refuse => Retyped
BY DEF Refuse, Unchanged, fields, Retyped

LEMMA ShapeKeeps == ASSUME ShapeInv, [Next]_vars PROVE ShapeOK'
<1> SUFFICES ShapeOK' \/ Refuse \/ Retyped
  BY RefuseIsRetyped, RetypedShape
<1>1. CASE LifeStep
  BY <1>1, LifeStepShape
<1>2. ASSUME NEW s \in live, SettingStep(s)
      PROVE  ShapeOK' \/ Refuse \/ Retyped
  <2>1. CASE \E n \in Names \cup {NULL, BadName}, t \in AddTypes :
               ConfigSettingAdd(s, n, t)
    BY <2>1, ConfigSettingAddShape
  <2>2. CASE \E path \in Paths : ConfigSettingRemove(s, path)
    BY <2>2, DropElementShape, Zenon DEF ConfigSettingRemove
  <2>3. CASE \E idx \in ElemIdx \cap Nat : ConfigSettingRemoveElem(s, idx)
    <3>1. \A idx \in Nat : idx < Len(kids[s]) => idx + 1 \in DOMAIN kids[s]
      BY LenProperties DEF ShapeInv, IInv, TypeOK
    <3> QED
      BY <2>3, <3>1, DropElementShape DEF ConfigSettingRemoveElem
  <2>4. CASE \E as \in ScalarTypes : \E v \in ScalarArgs[as] :
               ConfigSettingSet(s, as, v)
    BY <2>4, ConfigSettingSetShape DEF ShapeInv, IInv
  <2>5. CASE \E idx \in ElemIdx, as \in ScalarTypes : \E v \in ScalarArgs[as] :
               ConfigSettingSetElem(s, idx, as, v)
    BY <2>5, SettingAssumption, ConfigSettingSetElemShape
  <2>6. CASE (\E f \in Formats : ConfigSettingSetFormat(s, f))
               \/ (\E h \in Hooks : ConfigSettingSetHook(s, h))
    BY <2>6 DEF ConfigSettingSetFormat, ConfigSettingSetHook, Retyped
  <2> QED
    BY <1>2, <2>1, <2>2, <2>3, <2>4, <2>5, <2>6 DEF SettingStep
<1>3. CASE UNCHANGED vars
  BY <1>3 DEF vars, Retyped
<1> QED
  BY <1>1, <1>2, <1>3 DEF Next

(* Elements are in aggregates, names in groups and each once, scalars in   *)
(* arrays: whatever was added, overridden, removed and stored.             *)
THEOREM SettingsAreInPlace == Spec => []ShapeOK
<1>1. Init => ShapeOK
  BY DEF Init, ShapeOK
<1>2. IInv /\ ShapeOK /\ [Next]_vars => ShapeOK'
  BY ShapeKeeps DEF ShapeInv
<1> QED
  BY <1>1, <1>2, Invariance, PTL DEF Spec

-----------------------------------------------------------------------------
(* The types in an array.                                                  *)

ArrayInv == ShapeInv /\ ArraysAreHomogeneous

(* The program adds scalars to arrays by the set_*_elem functions, which   *)
(* check their types, and not by config_setting_add(), which does not.     *)
NoScalarIsAdded == AddTypes \cap ScalarTypes = {}

Uniform(ks, ty) == \A i, j \in DOMAIN ks : ty[ks[i]] = ty[ks[j]]

(* Arrays other than the one whose list changes stay as they are.          *)
LEMMA RebuildKeepsArrays ==
  ASSUME ArrayInv, NEW dead \in SUBSET live, NEW q, NEW ks,
         NEW new \in SUBSET Settings, NEW n, NEW t, NEW v, NEW f,
         new \cap (live \ dead) = {},
         \A y \in live \ dead : y # q => ToSet(kids[y]) \cap dead = {},
         Reshape(dead, q, ks, new, n, t, v, f),
         q \in live \ dead /\ type[q] = "ARRAY" => Uniform(ks, type')
  PROVE  ArraysAreHomogeneous'
<1> DEFINE stay == live \ dead
<1>1. /\ live' = stay \cup new
      /\ \A s \in new : kids'[s] = <<>>
      /\ q \in stay => kids'[q] = ks
      /\ \A s \in stay \ {q} : kids'[s] = kids[s]
      /\ \A s \in stay : type'[s] = type[s]
  BY DEF Reshape, ArrayInv, ShapeInv, IInv, TypeOK
<1>2. SUFFICES ASSUME NEW s \in live', type'[s] = "ARRAY"
               PROVE  Uniform(kids'[s], type')
  BY DEF ArraysAreHomogeneous, Uniform
<1>3. CASE s \in new
  BY <1>1, <1>3 DEF Uniform
<1>4. CASE s = q /\ q \in stay
  BY <1>1, <1>2, <1>4
<1>5. CASE s \in stay \ {q}
  <2>1. \A i \in DOMAIN kids[s] : kids[s][i] \in stay
    BY <1>5 DEF ArrayInv, ShapeInv, IInv, TreeOK, ElementsAreLive, ToSet
  <2>2. Uniform(kids[s], type)
    BY <1>1, <1>2, <1>5 DEF ArrayInv, ArraysAreHomogeneous, Uniform
  <2> QED
    BY <1>1, <1>5, <2>1, <2>2 DEF Uniform
<1> QED
  BY <1>1, <1>3, <1>4, <1>5

(* An element fewer.                                                       *)
LEMMA DropElementArrays ==
  ASSUME ArrayInv, NEW q \in live, NEW i \in DOMAIN kids[q], DropElement(q, i)
  PROVE  ArraysAreHomogeneous'
<1> DEFINE v == kids[q][i]
           dead == Subtree(v)
           ks == RemoveAt(kids[q], i)
<1>1. /\ kids[q] \in Seq(Settings) /\ DOMAIN kids[q] = 1 .. Len(kids[q])
      /\ live \subseteq Settings
  BY LenProperties DEF ArrayInv, ShapeInv, IInv, TypeOK
<1>2. v \in ToSet(kids[q])
  BY DEF ToSet
<1>3. /\ v \in dead /\ dead \in SUBSET live
      /\ \A y \in live \ dead : \A k \in ToSet(kids[y]) :
           k \in dead => k = v /\ y = q
  BY <1>2, SubtreeOfElement DEF ArrayInv, ShapeInv, IInv
<1>4. ToSet(ks) = ToSet(kids[q]) \ {v}
  <2>1. \A j, k \in 1 .. Len(kids[q]) : kids[q][j] = kids[q][k] => j = k
    BY <1>1 DEF ArrayInv, ShapeInv, IInv, TreeOK, NoDuplicates
  <2> QED
    BY <1>1, <2>1, RemoveAtToSet
<1>5. type[q] = "ARRAY" => \A x, y \in ToSet(kids[q]) : type[x] = type[y]
  BY DEF ArrayInv, ArraysAreHomogeneous, ToSet
<1>6. Reshape(dead, q, ks, {}, NULL, "NONE", NULL, "DEFAULT")
  BY DEF DropElement, Rebuild
<1> HIDE DEF v, dead, ks
<1>7. \A x \in live \ dead : type'[x] = type[x]
  BY <1>1, <1>6 DEF Reshape
<1>8. q \in live \ dead => ToSet(ks) \subseteq live \ dead
  <2>1. ToSet(kids[q]) \subseteq live
    BY Elements DEF ArrayInv, ShapeInv, IInv, TreeOK
  <2> QED
    BY <1>3, <1>4, <2>1
<1>9. q \in live \ dead /\ type[q] = "ARRAY" => Uniform(ks, type')
  <2>1. \A j \in DOMAIN ks : ks[j] \in ToSet(ks)
    BY DEF ToSet
  <2> QED
    BY <1>4, <1>5, <1>7, <1>8, <2>1 DEF Uniform
<1>10. \A y \in live \ dead : y # q => ToSet(kids[y]) \cap dead = {}
  BY <1>3
<1> QED
  BY <1>3, <1>6, <1>9, <1>10, RebuildKeepsArrays

(* config_setting_add() does not touch an array unless a scalar is added.  *)
LEMMA ConfigSettingAddArrays ==
  ASSUME ArrayInv, NEW p \in live, NEW n, NEW t, t \notin ScalarTypes,
         ConfigSettingAdd(p, n, t)
  PROVE  ArraysAreHomogeneous' \/ Refuse
<1> DEFINE m == GivenName(p, n)
           old == GetMember(p, m)
           dead == IF old = NULL THEN {} ELSE Subtree(old)
           rest == IF old = NULL THEN kids[p] ELSE RemoveAt(kids[p], Position(p, m))
<1>1. CASE ~MayAdd(p, n, t)
  BY <1>1 DEF ConfigSettingAdd
<1>2. CASE MayAdd(p, n, t)
  <2>1. PICK c \in Settings \ (live \ dead) :
          Reshape(dead, p, Append(rest, c), {c}, m, t, ZeroOf(t), "DEFAULT")
    BY <1>2, Zenon DEF ConfigSettingAdd, Rebuild
  <2>2. type[p] # "ARRAY"
    BY <1>2 DEF MayAdd
  <2>3. /\ dead \in SUBSET live
        /\ \A y \in live \ dead : y # p => ToSet(kids[y]) \cap dead = {}
    <3>1. CASE old = NULL
      BY <3>1
    <3>2. CASE old # NULL
      <4>1. old = kids[p][Position(p, m)] /\ Position(p, m) # 0
        BY <3>2 DEF GetMember, ListSearch
      <4>2. Position(p, m) \in DOMAIN kids[p]
        BY <4>1, PositionNames DEF ArrayInv, ShapeInv, IInv, TypeOK
      <4>3. dead = Subtree(old) /\ old \in ToSet(kids[p])
        BY <3>2, <4>1, <4>2 DEF ToSet
      <4> HIDE DEF m, old, dead, rest
      <4> QED
        BY <4>3, SubtreeOfElement DEF ArrayInv, ShapeInv, IInv
    <3> QED
      BY <3>1, <3>2
  <2> HIDE DEF m, old, dead, rest
  <2>4. {c} \in SUBSET Settings /\ {c} \cap (live \ dead) = {}
    OBVIOUS
  <2> QED
    BY <2>1, <2>2, <2>3, <2>4, RebuildKeepsArrays
<1> QED
  BY <1>1, <1>2

(* The set_*_elem functions compare with the first element.                *)
LEMMA AppendArrays ==
  ASSUME ArrayInv, NEW s \in live, NEW as, NEW v, NEW f, NEW c \in Settings \ live,
         CheckType(s, as), Reshape({}, s, Append(kids[s], c), {c}, NULL, as, v, f)
  PROVE  ArraysAreHomogeneous'
<1>1. /\ kids[s] \in Seq(Settings) /\ DOMAIN kids[s] = 1 .. Len(kids[s])
      /\ Len(kids[s]) \in Nat
      /\ \A i \in DOMAIN kids[s] : kids[s][i] \in live
  BY LenProperties DEF ArrayInv, ShapeInv, IInv, TypeOK, TreeOK, ElementsAreLive
<1>2. type[s] = "ARRAY" => \A i \in DOMAIN kids[s] : type[kids[s][i]] = as
  <2>1. kids[s] # <<>> => 1 \in DOMAIN kids[s]
    BY <1>1, EmptySeq
  <2>2. kids[s] = <<>> => DOMAIN kids[s] = {}
    OBVIOUS
  <2> QED
    BY <2>1, <2>2 DEF CheckType, ArrayInv, ArraysAreHomogeneous
<1>3. type'[c] = as /\ \A x \in live : type'[x] = type[x]
  BY DEF Reshape, ArrayInv, ShapeInv, IInv, TypeOK
<1> DEFINE ks == Append(kids[s], c)
<1>4. \A i \in DOMAIN ks : (i \in DOMAIN kids[s] /\ ks[i] = kids[s][i]) \/ ks[i] = c
  BY <1>1, AppendProperties
<1>5. Reshape({}, s, ks, {c}, NULL, as, v, f)
  OBVIOUS
<1> HIDE DEF ks
<1>6. type[s] = "ARRAY" => Uniform(ks, type')
  <2>1. type[s] = "ARRAY" => \A i \in DOMAIN ks : type'[ks[i]] = as
    BY <1>1, <1>2, <1>3, <1>4
  <2> QED
    BY <2>1 DEF Uniform
<1>7. /\ {} \in SUBSET live /\ {c} \in SUBSET Settings
      /\ {c} \cap (live \ {}) = {}
  OBVIOUS
<1> QED
  BY <1>5, <1>6, <1>7, RebuildKeepsArrays

LEMMA AppendElemArrays ==
  ASSUME ArrayInv, NEW s \in live, NEW as, NEW v, AppendElem(s, as, v)
  PROVE  ArraysAreHomogeneous' \/ Refuse
BY AppendArrays DEF AppendElem, Rebuild

(* A scalar in an array has a type already, and keeps it.                  *)
LEMMA RetypedArrays == ASSUME ArrayInv, Retyped PROVE ArraysAreHomogeneous'
<1> SUFFICES ASSUME NEW s \in live, type'[s] = "ARRAY"
             PROVE  Uniform(kids[s], type')
  BY DEF ArraysAreHomogeneous, Uniform, Retyped
<1>1. type[s] = "ARRAY"
  BY DEF Retyped, ScalarTypes
<1>2. \A i \in DOMAIN kids[s] : kids[s][i] \in live /\ type[kids[s][i]] \in ScalarTypes
  BY <1>1 DEF ArrayInv, ShapeInv, ShapeOK, IInv, TreeOK, ElementsAreLive
<1>3. \A i \in DOMAIN kids[s] : type'[kids[s][i]] = type[kids[s][i]]
  BY <1>2 DEF Retyped, ScalarTypes
<1> QED
  BY <1>1, <1>3 DEF ArrayInv, ArraysAreHomogeneous, Uniform

LEMMA LifeStepArrays == ASSUME ArrayInv, LifeStep PROVE ArraysAreHomogeneous'
<1>1. ASSUME NewRoot(live) PROVE ArraysAreHomogeneous'
  <2>1. PICK r \in Settings :
          Reshape(live, NULL, <<>>, {r}, NULL, "GROUP", NULL, "DEFAULT")
    BY <1>1 DEF NewRoot, Rebuild
  <2>2. live' = {r} /\ kids'[r] = <<>>
    BY <2>1 DEF Reshape
  <2> QED
    BY <2>2 DEF ArraysAreHomogeneous
<1>2. root = NULL => live = {}
  BY DEF ArrayInv, ShapeInv, IInv, TreeOK, RootIsGroup
<1>3. root # NULL => Subtree(root) = live
  BY DEF ArrayInv, ShapeInv, IInv, NothingLeaks
<1>4. CASE ConfigInit
  BY <1>1, <1>2, <1>4 DEF ConfigInit
<1>5. CASE ConfigClear
  BY <1>1, <1>3, <1>5 DEF ConfigClear
<1>6. CASE ConfigDestroy
  <2>1. Reshape(live, NULL, <<>>, {}, NULL, "NONE", NULL, "DEFAULT")
    BY <1>3, <1>6 DEF ConfigDestroy, Rebuild
  <2>2. live' = {}
    BY <2>1 DEF Reshape
  <2> QED
    BY <2>2 DEF ArraysAreHomogeneous
<1>7. CASE (\E o \in OptionSets : ConfigSetOptions(o))
             \/ (\E d \in Destructors : ConfigSetDestructor(d))
  <2>1. Retyped
    BY <1>7 DEF ConfigSetOptions, ConfigSetDestructor, Retyped, fields
  <2> QED
    BY <2>1, RetypedArrays
<1> QED
  BY <1>4, <1>5, <1>6, <1>7 DEF LifeStep

LEMMA ArraysKeep ==
  ASSUME NoScalarIsAdded, ArrayInv, [Next]_vars PROVE ArraysAreHomogeneous'
<1> SUFFICES ArraysAreHomogeneous' \/ Refuse \/ Retyped
  BY RefuseIsRetyped, RetypedArrays
<1>1. CASE LifeStep
  BY <1>1, LifeStepArrays
<1>2. ASSUME NEW s \in live, SettingStep(s)
      PROVE  ArraysAreHomogeneous' \/ Refuse \/ Retyped
  <2>1. CASE \E n \in Names \cup {NULL, BadName}, t \in AddTypes :
               ConfigSettingAdd(s, n, t)
    BY <2>1, ConfigSettingAddArrays DEF NoScalarIsAdded
  <2>2. CASE \E path \in Paths : ConfigSettingRemove(s, path)
    BY <2>2, DropElementArrays, Zenon DEF ConfigSettingRemove
  <2>3. CASE \E idx \in ElemIdx \cap Nat : ConfigSettingRemoveElem(s, idx)
    <3>1. \A idx \in Nat : idx < Len(kids[s]) => idx + 1 \in DOMAIN kids[s]
      BY LenProperties DEF ArrayInv, ShapeInv, IInv, TypeOK
    <3> QED
      BY <2>3, <3>1, DropElementArrays DEF ConfigSettingRemoveElem
  <2>4. CASE \E as \in ScalarTypes : \E v \in ScalarArgs[as] :
               ConfigSettingSet(s, as, v)
    BY <2>4, ConfigSettingSetShape DEF ArrayInv, ShapeInv, IInv
  <2>5. CASE \E idx \in ElemIdx, as \in ScalarTypes : \E v \in ScalarArgs[as] :
               ConfigSettingSetElem(s, idx, as, v)
    <3> PICK idx \in Int, as \in ScalarTypes :
           \E v \in ScalarArgs[as] : ConfigSettingSetElem(s, idx, as, v)
      BY <2>5, SettingAssumption
    <3>1. PICK v \in ScalarArgs[as] : ConfigSettingSetElem(s, idx, as, v)
      OBVIOUS
    <3>2. CASE idx < 0
      BY <3>1, <3>2, AppendElemArrays DEF ConfigSettingSetElem
    <3>3. CASE ~(idx < 0) /\ ~Refuse
      <4>1. GetElem(s, idx) \in live /\ ConfigSettingSet(GetElem(s, idx), as, v)
        BY <3>1, <3>3, ElemIsLive DEF ConfigSettingSetElem, ArrayInv, ShapeInv
      <4> QED
        BY <4>1, ConfigSettingSetShape DEF ArrayInv, ShapeInv, IInv
    <3> QED
      BY <3>2, <3>3
  <2>6. CASE (\E f \in Formats : ConfigSettingSetFormat(s, f))
               \/ (\E h \in Hooks : ConfigSettingSetHook(s, h))
    BY <2>6 DEF ConfigSettingSetFormat, ConfigSettingSetHook, Retyped
  <2> QED
    BY <1>2, <2>1, <2>2, <2>3, <2>4, <2>5, <2>6 DEF SettingStep
<1>3. CASE UNCHANGED vars
  BY <1>3 DEF vars, Retyped
<1> QED
  BY <1>1, <1>2, <1>3 DEF Next

(* Arrays that are filled by the set_*_elem functions hold one type.       *)
THEOREM ArraysHoldOneType ==
  ASSUME NoScalarIsAdded
  PROVE  Spec => []ArraysAreHomogeneous
<1>1. Init => ArraysAreHomogeneous
  BY DEF Init, ArraysAreHomogeneous
<1>2. IInv /\ ShapeOK /\ ArraysAreHomogeneous /\ [Next]_vars => ArraysAreHomogeneous'
  BY ArraysKeep DEF ArrayInv, ShapeInv
<1> QED
  BY <1>1, <1>2, Invariance, SettingsAreInPlace, PTL DEF Spec

-----------------------------------------------------------------------------
(* Values and formats.                                                     *)

(* What is stored is a value of the type that the setting has then.        *)
LEMMA StoredFits ==
  ASSUME NEW as \in ScalarTypes, NEW t \in Types, NEW v \in ValuesOf(as),
         NEW auto \in BOOLEAN, NEW r \in Stored(as, t, v, auto)
  PROVE  r[1] \in ScalarTypes /\ r[2] \in ValuesOf(r[1]) /\ t \notin Aggregates
<1>1. CASE as = "INT"
  <2>1. v \in Int32 /\ Single[v] \in Int
    BY <1>1, SingleAssumption, WidthAssumption DEF ValuesOf, Int32
  <2> QED
    BY <1>1, <2>1 DEF Stored, SetInt, ScalarTypes, ValuesOf, Aggregates
<1>2. CASE as = "INT64"
  <2>1. v \in Int64 /\ Single[v] \in Int
    BY <1>2, SingleAssumption, WidthAssumption DEF ValuesOf, Int64
  <2> QED
    BY <1>2, <2>1 DEF Stored, SetInt64, ScalarTypes, ValuesOf, Aggregates
<1>3. CASE as = "FLOAT"
  <2>1. v \in Int
    BY <1>3 DEF ValuesOf
  <2>2. CastTo(Int32, v) \subseteq Int32 /\ CastTo(Int64, v) \subseteq Int64
    BY DEF CastTo
  <2> QED
    BY <1>3, <2>1, <2>2 DEF Stored, SetFloat, ScalarTypes, ValuesOf, Aggregates
<1>4. CASE as = "BOOL"
  <2>1. v \in Int32
    BY <1>4 DEF ValuesOf
  <2> QED
    BY <1>4, <2>1 DEF Stored, SetBool, ScalarTypes, ValuesOf, Aggregates
<1>5. CASE as = "STRING"
  BY <1>5 DEF Stored, SetString, ValuesOf, ScalarTypes, Aggregates
<1> QED
  BY <1>1, <1>2, <1>3, <1>4, <1>5 DEF ScalarTypes

(* What a step may do to values: settings are created with one that fits,  *)
(* one is assigned, or one gets a format.                                  *)
CreatedFitting == \E new \in SUBSET Settings : \E dead, q, ks, n, t, v, f :
  /\ Reshape(dead, q, ks, new, n, t, v, f)
  /\ v \in ValuesOf(t)
  /\ f = "DEFAULT" \/ t \in {"INT", "INT64"}

Assigned == \E s \in live : \E r, f :
  /\ type' = [type EXCEPT ![s] = r[1]]
  /\ value' = [value EXCEPT ![s] = r[2]]
  /\ format' = [format EXCEPT ![s] = f]
  /\ live' = live
  /\ r[2] \in ValuesOf(r[1])
  /\ f = "DEFAULT" \/ r[1] \in {"INT", "INT64"}

ValueStep == CreatedFitting \/ Assigned \/ UNCHANGED <<live, type, value, format>>

LEMMA ValuesStayFit == ASSUME TypeOK, ValuesFit, ValueStep PROVE ValuesFit'
<1>1. CASE CreatedFitting
  <2> PICK new \in SUBSET Settings :
        \E dead, q, ks, n, t, v, f :
          /\ Reshape(dead, q, ks, new, n, t, v, f)
          /\ v \in ValuesOf(t)
          /\ f = "DEFAULT" \/ t \in {"INT", "INT64"}
    BY <1>1, Zenon DEF CreatedFitting
  <2>1. PICK dead, q, ks, n, t, v, f :
          /\ Reshape(dead, q, ks, new, n, t, v, f)
          /\ v \in ValuesOf(t)
          /\ f = "DEFAULT" \/ t \in {"INT", "INT64"}
    OBVIOUS
  <2>2. /\ live' = (live \ dead) \cup new
        /\ \A s \in new : type'[s] = t /\ value'[s] = v /\ format'[s] = f
        /\ \A s \in (live \ dead) \ new :
             type'[s] = type[s] /\ value'[s] = value[s] /\ format'[s] = format[s]
    BY <2>1 DEF Reshape, TypeOK
  <2> QED
    BY <2>1, <2>2 DEF ValuesFit
<1>2. CASE Assigned
  <2> PICK s \in live :
        \E r, f :
          /\ type' = [type EXCEPT ![s] = r[1]]
          /\ value' = [value EXCEPT ![s] = r[2]]
          /\ format' = [format EXCEPT ![s] = f]
          /\ live' = live
          /\ r[2] \in ValuesOf(r[1])
          /\ f = "DEFAULT" \/ r[1] \in {"INT", "INT64"}
    BY <1>2, Zenon DEF Assigned
  <2>1. PICK r, f :
          /\ type' = [type EXCEPT ![s] = r[1]]
          /\ value' = [value EXCEPT ![s] = r[2]]
          /\ format' = [format EXCEPT ![s] = f]
          /\ live' = live
          /\ r[2] \in ValuesOf(r[1])
          /\ f = "DEFAULT" \/ r[1] \in {"INT", "INT64"}
    OBVIOUS
  <2>2. type'[s] = r[1] /\ value'[s] = r[2] /\ format'[s] = f
    BY <2>1 DEF TypeOK
  <2>3. \A x \in live \ {s} :
          type'[x] = type[x] /\ value'[x] = value[x] /\ format'[x] = format[x]
    BY <2>1 DEF TypeOK
  <2> QED
    BY <2>1, <2>2, <2>3 DEF ValuesFit
<1>3. CASE UNCHANGED <<live, type, value, format>>
  BY <1>3 DEF ValuesFit
<1> QED
  BY <1>1, <1>2, <1>3 DEF ValueStep

LEMMA CreatedFits ==
  ASSUME NEW dead, NEW new \in SUBSET Settings, NEW q, NEW ks, NEW n, NEW t, NEW v,
         NEW f, Reshape(dead, q, ks, new, n, t, v, f), v \in ValuesOf(t),
         f = "DEFAULT" \/ t \in {"INT", "INT64"}
  PROVE  ValueStep
BY Zenon DEF CreatedFitting, ValueStep

LEMMA ConfigSettingAddValues ==
  ASSUME NEW p, NEW n, NEW t, ConfigSettingAdd(p, n, t) PROVE ValueStep
<1> DEFINE m == GivenName(p, n)
           old == GetMember(p, m)
           dead == IF old = NULL THEN {} ELSE Subtree(old)
           rest == IF old = NULL THEN kids[p] ELSE RemoveAt(kids[p], Position(p, m))
<1>1. CASE ~MayAdd(p, n, t)
  BY <1>1 DEF ConfigSettingAdd, Refuse, Unchanged, fields, ValueStep
<1>2. CASE MayAdd(p, n, t)
  <2>1. PICK c \in Settings \ (live \ dead) :
          Reshape(dead, p, Append(rest, c), {c}, m, t, ZeroOf(t), "DEFAULT")
    BY <1>2, Zenon DEF ConfigSettingAdd, Rebuild
  <2> HIDE DEF m, old, dead, rest
  <2>2. ZeroOf(t) \in ValuesOf(t)
    BY WidthAssumption DEF ZeroOf, ValuesOf, Int32, Int64
  <2> QED
    BY <2>1, <2>2, CreatedFits
<1> QED
  BY <1>1, <1>2

LEMMA DropElementValues ==
  ASSUME NEW q, NEW i, DropElement(q, i) PROVE ValueStep
<1>1. Reshape(Subtree(kids[q][i]), q, RemoveAt(kids[q], i), {}, NULL, "NONE", NULL,
              "DEFAULT")
  BY DEF DropElement, Rebuild
<1>2. NULL \in ValuesOf("NONE")
  BY DEF ValuesOf
<1> QED
  BY <1>1, <1>2, CreatedFits

(* A scalar is stored: its format stays, and is one it may have.           *)
LEMMA ConfigSettingSetValues ==
  ASSUME TypeOK, ValuesFit, NEW s \in live, NEW as \in ScalarTypes,
         NEW v \in ScalarArgs[as], ConfigSettingSet(s, as, v)
  PROVE  ValueStep
<1> DEFINE results == Stored(as, type[s], v, "AUTOCONVERT" \in opts)
<1>1. CASE results # {}
  <2>1. PICK r \in results : Store(s, r)
    BY <1>1 DEF ConfigSettingSet
  <2>2. r[1] \in ScalarTypes /\ r[2] \in ValuesOf(r[1])
    <3>1. type[s] \in Types /\ ("AUTOCONVERT" \in opts) \in BOOLEAN
      BY DEF TypeOK
    <3>2. v \in ValuesOf(as)
      BY SettingAssumption
    <3> QED
      BY <3>1, <3>2, StoredFits, Zenon
  <2>3. type[s] # "NONE" => r[1] = type[s]
    <3>1. ("AUTOCONVERT" \in opts) \in BOOLEAN
      OBVIOUS
    <3> QED
      BY <3>1, StoredKeepsType, Zenon
  <2> HIDE DEF results
  <2>4. format[s] = "DEFAULT" \/ r[1] \in {"INT", "INT64"}
    BY <2>3 DEF ValuesFit
  <2>5. format' = [format EXCEPT ![s] = format[s]]
    BY <2>1 DEF Store, TypeOK
  <2>6. /\ type' = [type EXCEPT ![s] = r[1]] /\ value' = [value EXCEPT ![s] = r[2]]
        /\ live' = live
    BY <2>1 DEF Store
  <2>7. Assigned
    BY <2>2, <2>4, <2>5, <2>6, Zenon DEF Assigned
  <2> QED
    BY <2>7 DEF ValueStep
<1> QED
  BY <1>1 DEF ConfigSettingSet, Refuse, Unchanged, fields, ValueStep

LEMMA ConfigSettingSetElemValues ==
  ASSUME IInv, ValuesFit, NEW s \in live, NEW idx \in Int, NEW as \in ScalarTypes,
         NEW v \in ScalarArgs[as], ConfigSettingSetElem(s, idx, as, v)
  PROVE  ValueStep
<1>1. CASE Refuse
  BY <1>1 DEF Refuse, Unchanged, fields, ValueStep
<1>2. CASE idx < 0 /\ ~Refuse
  <2>1. PICK c \in Settings \ live :
          Reshape({}, s, Append(kids[s], c), {c}, NULL, as, v, "DEFAULT")
    BY <1>2 DEF ConfigSettingSetElem, AppendElem, Rebuild
  <2>2. v \in ValuesOf(as) /\ {c} \in SUBSET Settings
    BY SettingAssumption
  <2> QED
    BY <2>1, <2>2, CreatedFits
<1>3. CASE ~(idx < 0) /\ ~Refuse
  <2>1. GetElem(s, idx) \in live /\ ConfigSettingSet(GetElem(s, idx), as, v)
    BY <1>3, ElemIsLive DEF ConfigSettingSetElem
  <2> QED
    BY <2>1, ConfigSettingSetValues DEF IInv
<1> QED
  BY <1>1, <1>2, <1>3

LEMMA LifeStepValues == ASSUME LifeStep PROVE ValueStep
<1>1. ASSUME NEW dead, NewRoot(dead) PROVE ValueStep
  <2>1. PICK r \in Settings :
          Reshape(dead, NULL, <<>>, {r}, NULL, "GROUP", NULL, "DEFAULT")
    BY <1>1 DEF NewRoot, Rebuild
  <2>2. NULL \in ValuesOf("GROUP") /\ {r} \in SUBSET Settings
    BY DEF ValuesOf
  <2> QED
    BY <2>1, <2>2, CreatedFits
<1>2. CASE ConfigInit \/ ConfigClear
  BY <1>1, <1>2 DEF ConfigInit, ConfigClear
<1>3. CASE ConfigDestroy
  <2>1. Reshape(Subtree(root), NULL, <<>>, {}, NULL, "NONE", NULL, "DEFAULT")
    BY <1>3 DEF ConfigDestroy, Rebuild
  <2>2. NULL \in ValuesOf("NONE")
    BY DEF ValuesOf
  <2> QED
    BY <2>1, <2>2, CreatedFits
<1>4. CASE (\E o \in OptionSets : ConfigSetOptions(o))
             \/ (\E d \in Destructors : ConfigSetDestructor(d))
  BY <1>4 DEF ConfigSetOptions, ConfigSetDestructor, fields, ValueStep
<1> QED
  BY <1>2, <1>3, <1>4 DEF LifeStep

LEMMA NextValues == ASSUME IInv, ValuesFit, [Next]_vars PROVE ValueStep
<1>1. CASE LifeStep
  BY <1>1, LifeStepValues
<1>2. ASSUME NEW s \in live, SettingStep(s)
      PROVE  ValueStep
  <2>1. CASE \E n \in Names \cup {NULL, BadName}, t \in AddTypes :
               ConfigSettingAdd(s, n, t)
    BY <2>1, ConfigSettingAddValues
  <2>2. CASE \/ \E path \in Paths : ConfigSettingRemove(s, path)
             \/ \E idx \in ElemIdx \cap Nat : ConfigSettingRemoveElem(s, idx)
    <3>1. CASE Refuse
      BY <3>1 DEF Refuse, Unchanged, fields, ValueStep
    <3>2. CASE ~Refuse
      BY <2>2, <3>2, DropElementValues, Zenon DEF ConfigSettingRemove,
                                                 ConfigSettingRemoveElem
    <3> QED
      BY <3>1, <3>2
  <2>3. CASE \E as \in ScalarTypes : \E v \in ScalarArgs[as] :
               ConfigSettingSet(s, as, v)
    BY <2>3, ConfigSettingSetValues DEF IInv
  <2>4. CASE \E idx \in ElemIdx, as \in ScalarTypes : \E v \in ScalarArgs[as] :
               ConfigSettingSetElem(s, idx, as, v)
    BY <2>4, SettingAssumption, ConfigSettingSetElemValues
  <2>5. ASSUME NEW f \in Formats, ConfigSettingSetFormat(s, f) PROVE ValueStep
    <3>1. CASE type[s] \in {"INT", "INT64"} /\ f \in FormatsTaken
      <4>1. /\ type' = [type EXCEPT ![s] = <<type[s], value[s]>>[1]]
            /\ value' = [value EXCEPT ![s] = <<type[s], value[s]>>[2]]
            /\ format' = [format EXCEPT ![s] = f]
            /\ live' = live
        BY <2>5, <3>1 DEF ConfigSettingSetFormat, IInv, TypeOK
      <4>2. value[s] \in ValuesOf(type[s])
        BY DEF ValuesFit
      <4>3. Assigned
        BY <3>1, <4>1, <4>2 DEF Assigned
      <4> QED
        BY <4>3 DEF ValueStep
    <3> QED
      BY <2>5, <3>1 DEF ConfigSettingSetFormat, Refuse, Unchanged, fields, ValueStep
  <2>6. CASE \E h \in Hooks : ConfigSettingSetHook(s, h)
    BY <2>6 DEF ConfigSettingSetHook, ValueStep
  <2> QED
    BY <1>2, <2>1, <2>2, <2>3, <2>4, <2>5, <2>6 DEF SettingStep
<1>3. CASE UNCHANGED vars
  BY <1>3 DEF vars, ValueStep
<1> QED
  BY <1>1, <1>2, <1>3 DEF Next

(* Through every conversion, and every cast that is undefined, a setting   *)
(* holds a value in the width of its type; only integers have a format.    *)
THEOREM ValuesFitTheirTypes == Spec => []ValuesFit
<1>1. Init => ValuesFit
  BY DEF Init, ValuesFit, ValuesOf
<1>2. IInv /\ ValuesFit /\ [Next]_vars => ValuesFit'
  BY NextValues, ValuesStayFit DEF IInv
<1> QED
  BY <1>1, <1>2, Invariance, PTL DEF Spec

-----------------------------------------------------------------------------
(* Calls that fail.                                                        *)

LEMMA SettingStepIsClean ==
  ASSUME NEW s \in live, SettingStep(s), ~ok' PROVE Unchanged
<1>1. ASSUME NEW n, NEW t, ConfigSettingAdd(s, n, t) PROVE Unchanged
  <2>1. CASE MayAdd(s, n, t)
    BY <1>1, <2>1, Zenon DEF ConfigSettingAdd, Answer
  <2>2. CASE ~MayAdd(s, n, t)
    BY <1>1, <2>2 DEF ConfigSettingAdd, Refuse
  <2> QED
    BY <2>1, <2>2
<1>2. ASSUME NEW path, ConfigSettingRemove(s, path) PROVE Unchanged
  BY <1>2, Zenon DEF ConfigSettingRemove, DropElement, Refuse, Answer
<1>3. ASSUME NEW idx, ConfigSettingRemoveElem(s, idx) PROVE Unchanged
  BY <1>3, Zenon DEF ConfigSettingRemoveElem, DropElement, Refuse, Answer
<1>4. ASSUME NEW x, NEW as, NEW v, ConfigSettingSet(x, as, v) PROVE Unchanged
  BY <1>4, Zenon DEF ConfigSettingSet, Store, Refuse, Answer
<1>5. ASSUME NEW idx, NEW as, NEW v, ConfigSettingSetElem(s, idx, as, v)
      PROVE  Unchanged
  BY <1>4, <1>5, Zenon DEF ConfigSettingSetElem, AppendElem, Refuse, Answer
<1>6. ASSUME NEW f, ConfigSettingSetFormat(s, f) PROVE Unchanged
  BY <1>6, Zenon DEF ConfigSettingSetFormat, Refuse, Answer
<1>7. ASSUME NEW h, ConfigSettingSetHook(s, h) PROVE Unchanged
  BY <1>7, Zenon DEF ConfigSettingSetHook, Answer
<1> QED
  BY <1>1, <1>2, <1>3, <1>4, <1>5, <1>6, <1>7, Zenon DEF SettingStep

(* Whatever call fails, at whatever point of it, nothing was created, taken*)
(* away, retyped or finalized.                                             *)
THEOREM FailedCallsChangeNothing == Spec => FailureIsClean
<1>1. [Next]_vars => [~ok' => Unchanged]_vars
  <2>1. ASSUME LifeStep PROVE ok'
    BY <2>1 DEF LifeStep, ConfigInit, ConfigClear, ConfigDestroy, ConfigSetOptions,
                ConfigSetDestructor, Answer
  <2> QED
    BY <2>1, SettingStepIsClean DEF Next
<1> QED
  BY <1>1, PTL DEF Spec, FailureIsClean
-----------------------------------------------------------------------------
(* Every setting is found under its own path.                              *)

(* From every setting the parents lead to one just below the root.         *)
Tops == {x \in live : x = root \/ parent[x] = root}
Upward == [x \in live \ Tops |-> parent[x]]

LEMMA ParentsLeadUp ==
  ASSUME IInv, root # NULL
  PROVE  /\ Tops \subseteq live
         /\ Upward \in [live \ Tops -> live]
         /\ Inductive(live, Tops, Upward)
<1>1. /\ root \in live /\ ElementsAreLive /\ OnlyRootIsLoose
      /\ live = Subtree(root)
  BY DEF IInv, TypeOK, TreeOK, NothingLeaks
<1>2. Upward \in [live \ Tops -> live]
  BY <1>1 DEF Upward, Tops, OnlyRootIsLoose
<1>3. ASSUME NEW S \in SUBSET live, Tops \subseteq S,
             \A x \in live \ Tops : Upward[x] \in S => x \in S
      PROVE  S = live
  <2>1. Closed(S)
    <3> SUFFICES ASSUME NEW y \in S, NEW k \in ToSet(kids[y])
                 PROVE  k \in S
      BY DEF Closed
    <3>1. k \in live /\ parent[k] = y
      BY <1>1, Elements
    <3> QED
      BY <1>3, <3>1 DEF Upward
  <2>2. root \in S
    BY <1>1, <1>3 DEF Tops
  <2> QED
    BY <1>1, <2>1, <2>2, SubtreeIsLeast
<1> QED
  BY <1>2, <1>3 DEF Inductive, Tops

(* The recursive function of PathTo(), under a name.                       *)
Step(x) == IF name[x] # NULL THEN name[x] ELSE Index(x)
PathsBody(w) ==
  [x \in live |-> IF x = root THEN <<>>
                  ELSE IF parent[x] = root THEN <<Step(x)>>
                  ELSE w[parent[x]] \o <<SEP, Step(x)>>]
PathOf == CHOOSE w : w = PathsBody(w)

LEMMA PathToIsPathOf == ASSUME NEW s PROVE PathTo(s) = PathOf[s]
BY Zenon DEF PathTo, PathOf, PathsBody, Step

(* What the step to x is: a name, or the place of x in the list.           *)
LEMMA StepIsPlace ==
  ASSUME IInv, NEW x \in live \ {root}
  PROVE  /\ parent[x] \in live
         /\ name[x] = NULL =>
              \E i \in 1 .. Len(kids[parent[x]]) :
                Step(x) = i - 1 /\ kids[parent[x]][i] = x
         /\ Step(x) \in Names \cup Int
<1> DEFINE p == parent[x]
           I == {i \in 1 .. Len(kids[p]) : kids[p][i] = x}
<1>1. p \in live /\ x \in ToSet(kids[p]) /\ p # NULL /\ kids[p] \in Seq(Settings)
  BY SettingAssumption DEF IInv, TypeOK, TreeOK, OnlyRootIsLoose
<1>2. I # {} /\ I \in SUBSET Nat
  BY <1>1, LenProperties DEF ToSet
<1>3. Min(I) \in I
  <2> HIDE DEF I
  <2> QED
    BY <1>2, LeastNatural
<1>4. Index(x) = Min(I) - 1
  BY <1>1, <1>2 DEF Index, SelectInSeq
<1>5. Min(I) \in 1 .. Len(kids[p]) /\ kids[p][Min(I)] = x
  BY <1>3
<1>6. name[x] \in Names \cup {NULL}
  BY DEF IInv, TypeOK
<1> HIDE DEF I, p
<1> QED
  BY <1>1, <1>4, <1>5, <1>6, LenProperties DEF Step, p

Components == Names \cup Int \cup {SEP}

LEMMA PathOfFollows ==
  ASSUME IInv, root # NULL
  PROVE  /\ PathOf \in [live -> Seq(Components)]
         /\ \A x \in live \ {root} :
              PathOf[x] = IF parent[x] = root THEN <<Step(x)>>
                          ELSE PathOf[parent[x]] \o <<SEP, Step(x)>>
<1> DEFINE V == Seq(Components)
           out == [x \in Tops |-> IF x = root THEN <<>> ELSE <<Step(x)>>]
           comb == [xv \in (live \ Tops) \X V |-> xv[2] \o <<SEP, Step(xv[1])>>]
<1>1. Tops \in SUBSET live /\ Upward \in [live \ Tops -> live] /\ Inductive(live, Tops, Upward)
  BY ParentsLeadUp
<1>2. \A x \in live \ {root} : Step(x) \in Components
  BY StepIsPlace DEF Components
<1>3. SEP \in Components
  BY DEF Components
<1>4. \A x \in Tops : out[x] \in V
  BY <1>2 DEF Tops
<1>5. ASSUME NEW x \in live \ Tops, NEW v \in V
      PROVE  comb[<<x, v>>] \in V /\ comb[<<x, v>>] = v \o <<SEP, Step(x)>>
  <2>1. comb[<<x, v>>] = v \o <<SEP, Step(x)>>
    OBVIOUS
  <2>2. x \in live \ {root}
    BY DEF Tops
  <2>3. <<SEP, Step(x)>> \in Seq(Components)
    BY <1>2, <1>3, <2>2
  <2> QED
    BY <2>1, <2>3, ConcatProperties
<1>6. \A x \in live : x \in Tops <=> x = root \/ parent[x] = root
  BY DEF Tops
<1>7. \A x \in Tops : out[x] = IF x = root THEN <<>> ELSE <<Step(x)>>
  OBVIOUS
<1>8. \A x \in live \ Tops : Upward[x] = parent[x]
  BY DEF Upward
<1> HIDE DEF V, out, comb
<1>9. PICK w \in [live -> V] : Recurses(w, live, Tops, Upward, out, comb)
  <2>1. \A x \in live \ Tops, v \in V : comb[<<x, v>>] \in V
    BY <1>5
  <2> QED
    BY <1>1, <1>4, <2>1, RecursionExists, Zenon
<1>10. \A x \in live : w[x] = IF x = root THEN <<>>
                  ELSE IF parent[x] = root THEN <<Step(x)>>
                  ELSE w[parent[x]] \o <<SEP, Step(x)>>
  <2> SUFFICES ASSUME NEW x \in live
               PROVE  w[x] = IF x = root THEN <<>>
                  ELSE IF parent[x] = root THEN <<Step(x)>>
                  ELSE w[parent[x]] \o <<SEP, Step(x)>>
    OBVIOUS
  <2>1. w[x] = IF x \in Tops THEN out[x] ELSE comb[<<x, w[Upward[x]]>>]
    BY <1>9, Zenon DEF Recurses
  <2>2. CASE x \in Tops
    BY <1>6, <1>7, <2>1, <2>2
  <2>3. CASE x \notin Tops
    <3>1. w[Upward[x]] \in V
      BY <1>1, <1>9, <2>3
    <3> QED
      BY <1>5, <1>6, <1>8, <2>1, <2>3, <3>1
  <2> QED
    BY <2>2, <2>3
<1>11. w = PathsBody(w)
  BY <1>9, <1>10, Zenon DEF PathsBody, Recurses
<1>12. PathOf = PathsBody(PathOf)
  BY <1>11, Zenon DEF PathOf
<1>13. \A x \in live : PathOf[x] = IF x = root THEN <<>>
                  ELSE IF parent[x] = root THEN <<Step(x)>>
                  ELSE PathOf[parent[x]] \o <<SEP, Step(x)>>
  BY <1>12, Zenon DEF PathsBody
<1>14. \A x \in live : PathOf[x] \in V
  <2> DEFINE S == {x \in live : PathOf[x] \in V}
  <2>1. S \in SUBSET live
    OBVIOUS
  <2>2. Tops \subseteq S
    <3>1. ASSUME NEW x \in Tops PROVE PathOf[x] \in V
      BY <1>1, <1>4, <1>6, <1>7, <1>13
    <3> QED
      BY <1>1, <3>1
  <2>3. \A x \in live \ Tops : Upward[x] \in S => x \in S
    <3> SUFFICES ASSUME NEW x \in live \ Tops, PathOf[Upward[x]] \in V PROVE PathOf[x] \in V
      OBVIOUS
    <3>1. PathOf[x] = PathOf[Upward[x]] \o <<SEP, Step(x)>>
      BY <1>6, <1>8, <1>13
    <3>2. \A v \in V : v \o <<SEP, Step(x)>> \in V
      BY <1>5
    <3> QED
      BY <3>1, <3>2
  <2> HIDE DEF S
  <2>4. S = live
    BY <1>1, <2>1, <2>2, <2>3, Zenon DEF Inductive
  <2> QED
    BY <2>4 DEF S
<1>15. PathOf \in [live -> V]
  <2>1. PathOf = [x \in live |-> IF x = root THEN <<>>
                  ELSE IF parent[x] = root THEN <<Step(x)>>
                  ELSE PathOf[parent[x]] \o <<SEP, Step(x)>>]
    BY <1>12, Zenon DEF PathsBody
  <2>2. PathOf = [x \in live |-> PathOf[x]]
    BY <2>1, Zenon
  <2> HIDE DEF PathOf
  <2> QED
    BY <1>14, <2>2, Zenon
<1> QED
  BY <1>13, <1>15 DEF V

(* The functions that search find an element where it is.                  *)
LEMMA ElementIsFound ==
  ASSUME ShapeInv, NEW x \in live \ {root}
  PROVE  /\ parent[x] \in live
         /\ name[x] = NULL => Step(x) \in Int /\ GetElem(parent[x], Step(x)) = x
         /\ name[x] # NULL => /\ Step(x) = name[x] /\ type[parent[x]] = "GROUP"
                              /\ ListSearch(parent[x], name[x]) = x
<1> DEFINE f == parent[x]
<1>1. IInv /\ TypeOK /\ f \in live /\ f \in Settings /\ x \in Settings
      /\ x # NULL /\ kids[f] \in Seq(Settings) /\ x \in ToSet(kids[f])
  BY SettingAssumption, StepIsPlace, LenProperties
     DEF ShapeInv, IInv, TypeOK, TreeOK, OnlyRootIsLoose
<1>2. CASE name[x] = NULL
  <2>1. PICK k \in 1 .. Len(kids[f]) : Step(x) = k - 1 /\ kids[f][k] = x
    BY <1>1, <1>2, StepIsPlace
  <2> DEFINE len == Len(kids[f])
  <2>2. len \in Nat
    BY <1>1, LenProperties
  <2>3. len <= Cardinality(Settings)
    <3>1. kids[f] \in Injection(1 .. Len(kids[f]), Settings)
      <4>1. kids[f] \in [1 .. Len(kids[f]) -> Settings]
        BY <1>1, LenProperties
      <4>2. \A a, b \in 1 .. Len(kids[f]) : kids[f][a] = kids[f][b] => a = b
        BY <1>1, LenProperties DEF IInv, TreeOK, NoDuplicates
      <4> QED
        BY <4>1, <4>2 DEF Injection, IsInjective
    <3>2. Cardinality(1 .. len) = len
      <4> HIDE DEF len
      <4> QED
        BY <2>2, FS_Interval
    <3> QED
      BY <3>1, <3>2, FS_Injection, HeapAssumption
  <2>4. Cardinality(Settings) \in Nat /\ Cardinality(Settings) <= UintMod
    BY HeapAssumption, FS_CardinalityType
  <2>5. (k - 1) % UintMod = k - 1
    <3>1. k \in 1 .. len
      OBVIOUS
    <3>2. k - 1 \in Nat /\ k - 1 < UintMod /\ UintMod \in Nat
      <4> HIDE DEF len
      <4> QED
        BY <3>1, <2>2, <2>3, <2>4, SettingAssumption
    <3> QED
      BY <3>2, SmallMod
  <2>6. GetElem(f, Step(x)) = x
    BY <1>1, <2>1, <2>5, LenProperties DEF GetElem
  <2>7. Step(x) \in Int
    BY <1>1, <2>1, LenProperties
  <2> QED
    BY <1>1, <1>2, <2>6, <2>7
<1>3. CASE name[x] # NULL
  <2> DEFINE n == name[x]
  <2>1. Step(x) = n
    BY <1>3 DEF Step
  <2>2. PICK k \in DOMAIN kids[f] : kids[f][k] = x
    BY <1>1 DEF ToSet
  <2>3. type[f] = "GROUP"
    BY <1>1, <1>3, <2>2 DEF ShapeInv, ShapeOK
  <2>4. Position(f, n) # 0
    BY <1>1, <2>2, NotFound
  <2>5. Position(f, n) \in DOMAIN kids[f] /\ name[kids[f][Position(f, n)]] = n
    BY <1>1, <2>4, PositionNames
  <2>6. kids[f][Position(f, n)] = x
    BY <1>1, <1>3, <2>2, <2>5 DEF ShapeInv, ShapeOK
  <2>7. ListSearch(f, n) = x
    BY <1>3, <2>4, <2>6 DEF ListSearch
  <2> QED
    BY <1>1, <1>3, <2>1, <2>3, <2>7
<1> QED
  BY <1>2, <1>3

(* Every step of a path is one turn: it leads from a setting to an element.*)
LEMMA StepLeads ==
  ASSUME ShapeInv, NEW x \in live \ {root}, NEW T, NEW path \in Seq(T),
         NEW i \in 1 .. Len(path),
         IF path[i] = SEP THEN i + 1 = Len(path) ELSE i = Len(path),
         path[Len(path)] = Step(x)
  PROVE  Walk(path)[<<i, parent[x]>>] = x
<1> DEFINE f == parent[x]
           L == Len(path)
           at == <<i, f>>
           to == <<L + 1, x>>
<1>1. IInv /\ TypeOK /\ L \in Nat /\ f \in live /\ f \in Settings /\ x \in Settings
      /\ x # NULL
  BY SettingAssumption, StepIsPlace, LenProperties
     DEF ShapeInv, IInv, TypeOK, TreeOK, OnlyRootIsLoose
<1>2. Step(x) \in Names \cup Int /\ Step(x) # SEP /\ Step(x) # BADIDX
  BY <1>1, StepIsPlace, SettingAssumption
<1>3. LookupTurn(path, i, f) = to
  <2>1. CASE name[x] = NULL
    <3>1. GetElem(f, Step(x)) = x /\ Step(x) \in Int
      BY <2>1, ElementIsFound
    <3> HIDE DEF f
    <3> QED
      BY <1>1, <1>2, <3>1 DEF LookupTurn
  <2>2. CASE name[x] # NULL
    <3> DEFINE n == name[x]
    <3>1. n \in Names /\ n \notin Int
      BY <1>1, <2>2, SettingAssumption DEF TypeOK
    <3>2. Step(x) = n /\ type[f] = "GROUP" /\ ListSearch(f, n) = x
      BY <2>2, ElementIsFound
    <3>3. ComponentEnd(path, L) = L + 1
      <4>1. L \in 1 .. L + 1
        BY <1>1
      <4>2. /\ ComponentEnd(path, L) \in L .. L + 1
            /\ ComponentEnd(path, L) = L + 1 \/ path[ComponentEnd(path, L)] = SEP
        BY <4>1, ComponentEnds
      <4> QED
        BY <1>1, <1>2, <4>2
    <3>4. ComponentName(path, L, L + 1) = n
      BY <1>1, <3>1, <3>2 DEF ComponentName
    <3> HIDE DEF f, n
    <3>5. LookupTurn(path, i, f) =
            <<ComponentEnd(path, L), ListSearch(f, ComponentName(path, L, ComponentEnd(path, L)))>>
      BY <1>1, <1>2, <3>1, <3>2 DEF LookupTurn
    <3> QED
      BY <3>2, <3>3, <3>4, <3>5
  <2> QED
    BY <2>1, <2>2
<1>4. at \in Places(path) \ Ends(path) /\ to \in Ends(path)
      /\ at[1] = i /\ at[2] = f /\ to[2] = x
  BY <1>1, SettingAssumption DEF Places, Ends
<1> HIDE DEF at, to, f
<1>5. Walk(path)[at] = Walk(path)[LookupTurn(path, at[1], at[2])]
  BY <1>1, <1>4, WalkFollows
<1>6. Walk(path)[to] = to[2]
  BY <1>1, <1>4, WalkFollows
<1>7. Walk(path)[at] = x
  BY <1>3, <1>4, <1>5, <1>6
<1> QED
  BY <1>7 DEF at, f

(* A longer path leads first where the shorter one leads.                  *)
LEMMA WalkOfLonger ==
  ASSUME TypeOK, NEW T, NEW p \in Seq(T), NEW t \in T, SEP \in T,
         p # <<>>, p[Len(p)] # SEP, NEW at \in Places(p), Walk(p)[at] # NULL
  PROVE  Walk(p \o <<SEP, t>>)[at] = Walk(p \o <<SEP, t>>)[<<Len(p) + 1, Walk(p)[at]>>]
<1> DEFINE q == p \o <<SEP, t>>
           L == Len(p)
           Goal(x) == Walk(q)[x] = Walk(q)[<<L + 1, Walk(p)[x]>>]
           G == {x \in Places(p) : Walk(p)[x] # NULL => Goal(x)}
<1>1. /\ L \in Nat /\ L >= 1
      /\ q \in Seq(T) /\ Len(q) = L + 2 /\ q[L + 1] = SEP
      /\ \A k \in 1 .. L : q[k] = p[k]
  <2>1. <<SEP, t>> \in Seq(T) /\ Len(<<SEP, t>>) = 2
        /\ <<SEP, t>>[1] = SEP
    OBVIOUS
  <2>2. L \in Nat /\ L >= 1
    BY LenProperties, EmptySeq
  <2> QED
    BY <2>1, <2>2, ConcatProperties
<1> HIDE DEF q
<1>2. Ends(p) \subseteq G
  <2> SUFFICES ASSUME NEW x \in Ends(p), Walk(p)[x] # NULL PROVE Goal(x)
    BY DEF Ends
  <2>1. Walk(p)[x] = x[2] /\ x \in Places(p)
    BY WalkFollows DEF Ends
  <2>2. x = <<L + 1, x[2]>>
    BY <1>1, <2>1 DEF Ends, Places
  <2> QED
    BY <2>1, <2>2
<1>3. ASSUME NEW x \in Places(p) \ Ends(p), NextPlace(p)[x] \in G, Walk(p)[x] # NULL
      PROVE  Goal(x)
  <2> DEFINE i == x[1]
             f == x[2]
             y == LookupTurn(p, i, f)
             j == IF p[i] = SEP THEN i + 1 ELSE i
             e == ComponentEnd(p, j)
  <2>1. i \in 1 .. L /\ f \in Settings
    BY <1>1 DEF Places, Ends
  <2>2. /\ Walk(p)[x] = Walk(p)[y] /\ NextPlace(p)[x] = y
        /\ y \in Places(p)
    BY <2>1, WalkFollows, TurnGoesOn DEF NextPlace
  <2>3. x \in Places(q) \ Ends(q)
    BY <1>1, <2>1 DEF Places, Ends
  <2>4. Walk(q)[x] = Walk(q)[LookupTurn(q, i, f)]
    BY <1>1, <2>3, WalkFollows
  <2>5. j \in 1 .. L /\ q[i] = p[i] /\ q[j] = p[j]
    BY <1>1, <2>1
  <2>6. e = ComponentEnd(q, j)
    <3> DEFINE d == ComponentEnd(q, j)
    <3> HIDE DEF j
    <3>1. /\ e \in j .. L + 1
          /\ e = L + 1 \/ p[e] = SEP
          /\ \A k \in j .. e - 1 : p[k] # SEP
      BY <1>1, <2>5, ComponentEnds
    <3>2. /\ d \in j .. Len(q) + 1
          /\ d = Len(q) + 1 \/ q[d] = SEP
          /\ \A k \in j .. d - 1 : q[k] # SEP
      BY <1>1, <2>5, ComponentEnds
    <3> HIDE DEF d, e
    <3>3. ~(d < e)
      BY <1>1, <2>5, <3>1, <3>2
    <3>4. ~(e < d)
      BY <1>1, <2>5, <3>1, <3>2
    <3> QED
      BY <1>1, <3>1, <3>2, <3>3, <3>4 DEF d
  <2>7. CASE p[j] \in Int
    <3>1. y = <<j + 1, GetElem(f, p[j])>>
      BY <2>5, <2>7 DEF LookupTurn
    <3>2. LookupTurn(q, i, f) = <<j + 1, GetElem(f, p[j])>>
      <4>1. j <= Len(q)
        <5> HIDE DEF j
        <5> QED
          BY <1>1, <2>5
      <4> QED
        BY <2>5, <2>7, <4>1 DEF LookupTurn
    <3> QED
      BY <1>3, <2>2, <2>4, <3>1, <3>2
  <2>8. CASE p[j] \notin Int /\ p[j] # BADIDX /\ type[f] = "GROUP"
    <3>1. y = <<e, ListSearch(f, ComponentName(p, j, e))>>
      BY <2>8 DEF LookupTurn
    <3>2. LookupTurn(q, i, f) = <<e, ListSearch(f, ComponentName(q, j, e))>>
      BY <2>5, <2>6, <2>8 DEF LookupTurn
    <3>3. ComponentName(q, j, e) = ComponentName(p, j, e)
      BY <2>5 DEF ComponentName
    <3> QED
      BY <1>3, <2>2, <2>4, <3>1, <3>2, <3>3
  <2>9. CASE p[j] \notin Int /\ (p[j] = BADIDX \/ type[f] # "GROUP")
    <3>1. y = <<L + 1, NULL>>
      <4>1. ~(j > L) /\ j <= L
        <5> HIDE DEF j
        <5> QED
          BY <1>1, <2>5
      <4>2. CASE p[j] = BADIDX
        BY <2>9, <4>1, <4>2 DEF LookupTurn
      <4>3. CASE p[j] # BADIDX /\ type[f] # "GROUP"
        BY <2>9, <4>1, <4>3 DEF LookupTurn
      <4> QED
        BY <2>9, <4>2, <4>3
    <3>2. y \in Ends(p) /\ y[2] = NULL
      BY <2>2, <3>1 DEF Ends
    <3>3. Walk(p)[y] = y[2]
      BY <3>2, WalkFollows
    <3> QED
      BY <1>3, <2>2, <3>2, <3>3
  <2> QED
    BY <2>7, <2>8, <2>9
<1>4. G \in SUBSET Places(p)
  OBVIOUS
<1>5. \A x \in Places(p) \ Ends(p) : NextPlace(p)[x] \in G => x \in G
  BY <1>3
<1>6. G = Places(p)
  <2> HIDE DEF G
  <2> QED
    BY <1>2, <1>4, <1>5, PlacesEnd, Zenon DEF Inductive
<1>7. Goal(at)
  BY <1>6
<1> QED
  BY <1>7 DEF q

LEMMA PathLeads ==
  ASSUME ShapeInv, NEW x \in live \ {root}
  PROVE  Lookup(root, PathTo(x)) = x
<1> DEFINE Good(y) == /\ PathOf[y] # <<>>
                      /\ PathOf[y][Len(PathOf[y])] # SEP
                      /\ Walk(PathOf[y])[<<1, root>>] = y
           S == {y \in live : y = root \/ Good(y)}
<1>1. /\ IInv /\ TypeOK /\ root # NULL /\ root \in live /\ root \in Settings
      /\ x \in Settings /\ live \subseteq Settings /\ NULL \notin live
  BY SettingAssumption DEF ShapeInv, IInv, TypeOK, TreeOK, RootIsGroup
<1>2. Tops \subseteq live /\ Inductive(live, Tops, Upward)
  BY <1>1, ParentsLeadUp
<1>3. /\ PathOf \in [live -> Seq(Components)]
      /\ \A y \in live \ {root} :
           PathOf[y] = IF parent[y] = root THEN <<Step(y)>>
                       ELSE PathOf[parent[y]] \o <<SEP, Step(y)>>
  BY <1>1, PathOfFollows
<1>4. \A y \in live \ {root} : Step(y) \in Components /\ Step(y) # SEP /\ parent[y] \in live
  BY <1>1, StepIsPlace, SettingAssumption DEF Components
<1>5. ASSUME NEW y \in live \ {root}, parent[y] = root PROVE Good(y)
  <2> DEFINE p == PathOf[y]
  <2>1. p = <<Step(y)>> /\ p \in Seq(Components)
    BY <1>3, <1>5
  <2> HIDE DEF p
  <2>2. Len(p) = 1 /\ p[1] = Step(y) /\ p # <<>>
    BY <2>1
  <2>4. 1 \in 1 .. Len(p) /\ p[Len(p)] = Step(y)
    BY <2>2
  <2>5. IF p[1] = SEP THEN 1 + 1 = Len(p) ELSE 1 = Len(p)
    BY <1>4, <2>2
  <2>3. Walk(p)[<<1, parent[y]>>] = y
    BY <2>1, <2>4, <2>5, StepLeads
  <2> QED
    BY <1>4, <1>5, <2>2, <2>3 DEF p
<1>6. ASSUME NEW y \in live \ {root}, parent[y] # root, Good(parent[y]) PROVE Good(y)
  <2> DEFINE p == PathOf[parent[y]]
             t == Step(y)
             q == p \o <<SEP, t>>
             L == Len(p)
             at == <<1, root>>
  <2>1. /\ parent[y] \in live /\ p \in Seq(Components) /\ p # <<>> /\ p[L] # SEP
        /\ Walk(p)[at] = parent[y] /\ PathOf[y] = q
        /\ SEP \in Components /\ t \in Components /\ t # SEP
    BY <1>3, <1>4, <1>6 DEF Components
  <2>2. at \in Places(p)
    BY <1>1, LenProperties DEF Places
  <2>3. /\ q \in Seq(Components) /\ L \in Nat /\ Len(q) = L + 2
        /\ q[L + 1] = SEP /\ q[L + 2] = t
    <3>1. <<SEP, t>> \in Seq(Components) /\ Len(<<SEP, t>>) = 2
          /\ <<SEP, t>>[1] = SEP /\ <<SEP, t>>[2] = t
      BY <2>1
    <3> HIDE DEF p, t
    <3> QED
      BY <2>1, <3>1, LenProperties, ConcatProperties
  <2> HIDE DEF p, at
  <2>4. Walk(q)[at] = Walk(q)[<<L + 1, parent[y]>>]
    <3>1. Walk(p)[at] # NULL
      BY <1>1, <2>1
    <3>2. p[Len(p)] # SEP
      BY <2>1
    <3> HIDE DEF t
    <3>3. Walk(p \o <<SEP, t>>)[at] = Walk(p \o <<SEP, t>>)[<<Len(p) + 1, Walk(p)[at]>>]
      BY <1>1, <2>1, <2>2, <3>1, <3>2, WalkOfLonger
    <3> QED
      BY <2>1, <3>3, Zenon
  <2>5. Walk(q)[<<L + 1, parent[y]>>] = y
    <3> HIDE DEF q, L
    <3>1. q[Len(q)] = Step(y)
      BY <2>3
    <3>2. L + 1 \in 1 .. Len(q) /\ (L + 1) + 1 = Len(q)
      BY <2>3
    <3>3. IF q[L + 1] = SEP THEN (L + 1) + 1 = Len(q) ELSE L + 1 = Len(q)
      BY <2>3, <3>2
    <3> HIDE DEF t
    <3> QED
      BY <2>3, <3>1, <3>2, <3>3, StepLeads
  <2>6. q # <<>> /\ q[Len(q)] # SEP
    <3> HIDE DEF q
    <3> QED
      BY <2>1, <2>3
  <2> QED
    BY <2>1, <2>4, <2>5, <2>6 DEF at
<1>7. S = live
  <2>1. S \in SUBSET live
    OBVIOUS
  <2>2. Tops \subseteq S
    <3> HIDE DEF Good
    <3> QED
      BY <1>2, <1>5 DEF Tops
  <2>3. \A y \in live \ Tops : Upward[y] \in S => y \in S
    <3> HIDE DEF Good
    <3> QED
      BY <1>2, <1>6 DEF Tops, Upward
  <2> HIDE DEF S
  <2> QED
    BY <1>2, <2>1, <2>2, <2>3, Zenon DEF Inductive
<1>8. Good(x)
  <2> HIDE DEF Good
  <2> QED
    BY <1>7
<1> QED
  BY <1>8, LookupIsWalk, PathToIsPathOf, Zenon

(* Every setting is found under the path that the C++ class writes for it, *)
(* after any sequence of adds, overrides and removals.                     *)
THEOREM SettingsAreFound == Spec => []EverySettingIsFound
<1>1. IInv /\ ShapeOK => EverySettingIsFound
  BY PathLeads DEF EverySettingIsFound, ShapeInv
<1> QED
  BY <1>1, Invariance, SettingsAreInPlace, PTL

-----------------------------------------------------------------------------
(* What is stored is read back.                                            *)

LEMMA HalvesAre ==
  ASSUME NEW t, NEW v \in Int
  PROVE  Halves(t, v) \in Int /\ Halves(t, v) = IF t = "FLOAT" THEN v ELSE 2 * v
<1>1. CASE t = "FLOAT"
  BY <1>1, Zenon DEF Halves
<1>2. CASE t # "FLOAT"
  <2>1. Halves(t, v) = 2 * v
    BY <1>2, Zenon DEF Halves
  <2>2. 2 * v \in Int
    OBVIOUS
  <2> QED
    BY <1>2, <2>1, <2>2, Zenon
<1> QED
  BY <1>1, <1>2, Zenon

LEMMA HalvesOfIntegers ==
  ASSUME NEW n \in Int
  PROVE  (2 * n) % 2 = 0 /\ (2 * n) \div 2 = n /\ Truncated(2 * n) = n
BY DEF Truncated

LEMMA WholeHalves ==
  ASSUME NEW h \in Int, h % 2 = 0
  PROVE  h \div 2 \in Int /\ 2 * (h \div 2) = h /\ Truncated(h) = h \div 2
BY DEF Truncated

LEMMA NumbersInWidth ==
  ASSUME NEW t \in NumberTypes, NEW v \in ValuesOf(t)
  PROVE  /\ v \in Int
         /\ (t = "INT" => v \in Int32)
         /\ (t = "INT64" => v \in Int64)
         /\ (t # "FLOAT" => v \in Int64)
<1>1. Int32 \subseteq Int64 /\ Int64 \subseteq Int
  BY WidthAssumption DEF Int32, Int64
<1>2. CASE t = "INT"
  BY <1>1, <1>2 DEF ValuesOf
<1>3. CASE t = "INT64"
  BY <1>1, <1>3 DEF ValuesOf
<1>4. CASE t = "FLOAT"
  BY <1>4 DEF ValuesOf
<1> QED
  BY <1>2, <1>3, <1>4 DEF NumberTypes

(* The number v, taken for the type `as', is the number in r.              *)
SameNumber(as, v, auto, r) ==
  /\ r[1] \in NumberTypes
  /\ r[2] \in ValuesOf(r[1])
  /\ Halves(r[1], r[2]) = Halves(as, v)
  /\ (as # r[1] => (auto \/ "FLOAT" \notin {as, r[1]}))

(* A number that is stored exactly is the same number in the setting.      *)
LEMMA SameNumberStored ==
  ASSUME NEW as \in NumberTypes, NEW t \in Types, NEW v \in ValuesOf(as),
         NEW auto \in BOOLEAN, NEW r \in Stored(as, t, v, auto),
         StoredExactly(as, v, r[1])
  PROVE  SameNumber(as, v, auto, r)
<1> SUFFICES /\ r[1] \in NumberTypes /\ r[2] \in ValuesOf(r[1])
             /\ Halves(r[1], r[2]) = Halves(as, v)
             /\ (as # r[1] => (auto \/ "FLOAT" \notin {as, r[1]}))
  BY DEF SameNumber
<1>1. v \in Int
  BY NumbersInWidth
<1>2. r[1] \in ScalarTypes /\ r[2] \in ValuesOf(r[1])
  BY StoredFits DEF NumberTypes, ScalarTypes
<1>3. CASE as \in {"INT", "INT64"}
  <2>1. r = <<"INT", v>> \/ r = <<"INT64", v>> \/ (auto /\ r = <<"FLOAT", 2 * Single[v]>>)
    BY <1>3 DEF Stored, SetInt, SetInt64
  <2>2. v \in Int64
    BY <1>3, NumbersInWidth
  <2>3. r[1] = "FLOAT" => Single[v] = v
    BY <1>3, <2>2, SingleAssumption DEF StoredExactly, Int64
  <2> QED
    <3>1. Halves(as, v) = 2 * v /\ as \in NumberTypes
      BY <1>1, <1>3, HalvesAre DEF NumberTypes
    <3>2. CASE r = <<"INT", v>> \/ r = <<"INT64", v>>
      <4>1. r[1] \in NumberTypes /\ Halves(r[1], r[2]) = 2 * v /\ "FLOAT" \notin {as, r[1]}
        <5>1. r[1] \in {"INT", "INT64"} /\ r[2] = v
          BY <3>2
        <5> QED
          BY <1>1, <1>3, <5>1, HalvesAre DEF NumberTypes
      <4> QED
        BY <1>2, <3>1, <4>1
    <3>3. CASE auto /\ r = <<"FLOAT", 2 * Single[v]>>
      <4>1. r[1] \in NumberTypes /\ Halves(r[1], r[2]) = 2 * v
        <5>1. r[1] = "FLOAT" /\ r[2] = 2 * v /\ 2 * v \in Int
          BY <1>1, <2>3, <3>3
        <5> QED
          BY <5>1, HalvesAre DEF NumberTypes
      <4> QED
        BY <1>2, <3>1, <3>3, <4>1
    <3> QED
      BY <2>1, <3>2, <3>3
<1>4. CASE as = "FLOAT"
  <2>1. CASE r = <<"FLOAT", v>>
    BY <1>2, <1>4, <2>1 DEF NumberTypes
  <2>2. ASSUME NEW T \in {"INT", "INT64"}, NEW w, auto, r = <<T, w>>,
               w \in CastTo(IF T = "INT" THEN Int32 ELSE Int64, v)
        PROVE  /\ r[1] \in NumberTypes /\ Halves(r[1], r[2]) = Halves(as, v)
    <3>1. Holds(T, v)
      BY <1>4, <2>2 DEF StoredExactly, Halves, NumberTypes
    <3>2. v % 2 = 0 /\ v \div 2 \in IF T = "INT" THEN Int32 ELSE Int64
      BY <3>1 DEF Holds
    <3>3. 2 * (v \div 2) = v /\ Truncated(v) = v \div 2
      BY <1>1, <3>2, WholeHalves
    <3>4. w = v \div 2
      BY <2>2, <3>2, <3>3 DEF CastTo
    <3> QED
      BY <1>4, <2>2, <3>3, <3>4 DEF Halves, NumberTypes
  <2>3. \/ r = <<"FLOAT", v>>
        \/ auto /\ \E w \in CastTo(Int32, v) : r = <<"INT", w>>
        \/ auto /\ \E w \in CastTo(Int64, v) : r = <<"INT64", w>>
    BY <1>4 DEF Stored, SetFloat
  <2>4. CASE auto /\ \E w \in CastTo(Int32, v) : r = <<"INT", w>>
    BY <1>2, <2>2, <2>4
  <2>5. CASE auto /\ \E w \in CastTo(Int64, v) : r = <<"INT64", w>>
    BY <1>2, <2>2, <2>5
  <2> QED
    BY <2>1, <2>3, <2>4, <2>5
<1> QED
  BY <1>3, <1>4 DEF NumberTypes

(* The number a setting holds is what is read, where the type has it.      *)
NumberIsRead(bs, got, h) ==
  Holds(bs, h) => \A x \in got : Halves(bs, x) = h

LEMMA NumbersAreRead ==
  ASSUME NEW t \in NumberTypes, NEW w \in ValuesOf(t), NEW auto \in BOOLEAN,
         NEW bs \in NumberTypes
  PROVE  /\ NumberIsRead(bs, Got(bs, t, w, auto), Halves(t, w))
         /\ ("FLOAT" \notin {bs, t} =>
               (Got(bs, t, w, auto) # {} <=> Holds(bs, Halves(t, w))))
         /\ ((Holds(bs, Halves(t, w)) /\ (bs = t \/ auto \/ "FLOAT" \notin {bs, t})) =>
               Got(bs, t, w, auto) # {})
<1> DEFINE h == Halves(t, w)
           got == Got(bs, t, w, auto)
<1>1. /\ w \in Int
      /\ (t = "INT" => w \in Int32)
      /\ (t = "INT64" => w \in Int64)
      /\ (t # "FLOAT" => w \in Int64)
  BY NumbersInWidth
<1>2. h \in Int
  BY <1>1, HalvesAre
<1>3. CASE bs = "FLOAT"
  BY <1>1, <1>3 DEF Got, GetFloat, Halves, Holds, NumberIsRead, NumberTypes
<1>4. CASE bs \in {"INT", "INT64"} /\ t \in {"INT", "INT64"}
  <2>1. h = 2 * w /\ h % 2 = 0 /\ h \div 2 = w
    BY <1>1, <1>4, HalvesAre, HalvesOfIntegers
  <2>2. Holds(bs, h) <=> w \in IF bs = "INT" THEN Int32 ELSE Int64
    BY <1>4, <2>1 DEF Holds
  <2>3. got = IF w \in (IF bs = "INT" THEN Int32 ELSE Int64) THEN {w} ELSE {}
    <3>1. CASE bs = "INT" /\ t = "INT"
      BY <1>1, <3>1 DEF Got, GetInt
    <3>2. CASE bs = "INT" /\ t = "INT64"
      BY <3>2 DEF Got, GetInt
    <3>3. CASE bs = "INT64"
      BY <1>1, <1>4, <3>3 DEF Got, GetInt64
    <3> QED
      BY <1>4, <3>1, <3>2, <3>3
  <2>4. Halves(bs, w) = h
    BY <1>4, <2>1 DEF Halves
  <2> HIDE DEF h, got
  <2>5. got # {} <=> Holds(bs, h)
    BY <2>2, <2>3
  <2>6. NumberIsRead(bs, got, h)
    BY <2>3, <2>4 DEF NumberIsRead
  <2> QED
    BY <2>5, <2>6 DEF h, got
<1>5. CASE bs \in {"INT", "INT64"} /\ t = "FLOAT"
  <2> DEFINE width == IF bs = "INT" THEN Int32 ELSE Int64
  <2>1. h = w
    BY <1>5 DEF Halves
  <2>2. got = IF auto THEN CastTo(width, w) ELSE {}
    BY <1>5 DEF Got, GetInt, GetInt64
  <2>3. ASSUME Holds(bs, h) PROVE CastTo(width, w) = {w \div 2} /\ Halves(bs, w \div 2) = h
    <3>1. w % 2 = 0 /\ w \div 2 \in width
      BY <1>5, <2>1, <2>3 DEF Holds
    <3> HIDE DEF width, got, h
    <3>2. 2 * (w \div 2) = w /\ Truncated(w) = w \div 2
      BY <1>1, <3>1, WholeHalves
    <3> USE DEF width
    <3> QED
      BY <1>5, <2>1, <3>1, <3>2 DEF CastTo, Halves
  <2> HIDE DEF h, got, width
  <2>4. NumberIsRead(bs, got, h)
    BY <2>2, <2>3 DEF NumberIsRead
  <2>5. Holds(bs, h) /\ auto => got # {}
    BY <2>2, <2>3
  <2> QED
    BY <1>5, <2>4, <2>5 DEF h, got
<1> QED
  BY <1>3, <1>4, <1>5 DEF NumberTypes

(* The value v, stored through the accessor for `as', is read from r.      *)
ReadBack(as, v, auto, r) ==
  /\ Got(as, r[1], r[2], auto) = {v}
  /\ (as \in NumberTypes => \A bs \in NumberTypes :
        /\ NumberIsRead(bs, Got(bs, r[1], r[2], auto), Halves(as, v))
        /\ ("FLOAT" \notin {bs, r[1]} =>
              (Got(bs, r[1], r[2], auto) # {} <=> Holds(bs, Halves(as, v)))))

(* Storing a value and reading it, with one accessor and with another.     *)
LEMMA StoredIsGot ==
  ASSUME NEW as \in ScalarTypes, NEW t \in Types, NEW v \in ValuesOf(as),
         NEW auto \in BOOLEAN, NEW r \in Stored(as, t, v, auto),
         StoredExactly(as, v, r[1])
  PROVE  ReadBack(as, v, auto, r)
<1> USE DEF ReadBack
<1>1. CASE as \in NumberTypes
  <2> DEFINE h == Halves(as, v)
             u == r[1]
             w == r[2]
  <2>1. /\ u \in NumberTypes /\ w \in ValuesOf(u) /\ Halves(u, w) = h
        /\ (as # u => (auto \/ "FLOAT" \notin {as, u}))
    <3>1. SameNumber(as, v, auto, r)
      BY <1>1, SameNumberStored, Zenon
    <3> QED
      BY <3>1 DEF SameNumber
  <2>2. \A bs \in NumberTypes :
          /\ NumberIsRead(bs, Got(bs, u, w, auto), h)
          /\ ("FLOAT" \notin {bs, u} => (Got(bs, u, w, auto) # {} <=> Holds(bs, h)))
          /\ ((Holds(bs, h) /\ (bs = u \/ auto \/ "FLOAT" \notin {bs, u})) =>
                Got(bs, u, w, auto) # {})
    <3> HIDE DEF h, u, w
    <3> QED
      BY <2>1, NumbersAreRead
  <2>3. v \in Int /\ (as = "INT" => v \in Int32) /\ (as = "INT64" => v \in Int64)
    BY <1>1, NumbersInWidth
  <2>4. Holds(as, h)
    BY <1>1, <2>3, HalvesOfIntegers DEF Holds, Halves, NumberTypes
  <2>5. \A x \in Got(as, u, w, auto) : x \in Int
    <3>1. w \in Int
      BY <2>1, NumbersInWidth
    <3> HIDE DEF u, w
    <3>2. CastTo(Int32, w) \subseteq Int /\ CastTo(Int64, w) \subseteq Int
      BY <3>1, WidthAssumption DEF CastTo, Truncated, Int32, Int64
    <3> QED
      BY <1>1, <3>1, <3>2 DEF Got, GetInt, GetInt64, GetFloat, NumberTypes
  <2>6. \A x \in Got(as, u, w, auto) : Halves(as, x) = h
    BY <1>1, <2>2, <2>4 DEF NumberIsRead
  <2>7. Got(as, u, w, auto) # {}
    BY <1>1, <2>1, <2>2, <2>4
  <2>8. \A x \in Int : Halves(as, x) = h => x = v
    <3>1. \A x \in Int : 2 * x = 2 * v => x = v
      BY <2>3
    <3>2. CASE as = "FLOAT"
      BY <3>2 DEF Halves
    <3>3. CASE as # "FLOAT"
      BY <3>1, <3>3 DEF Halves
    <3> QED
      BY <3>2, <3>3
  <2> HIDE DEF u, w, h
  <2>9. Got(as, u, w, auto) = {v}
    BY <2>5, <2>6, <2>7, <2>8
  <2> QED
    BY <2>2, <2>9 DEF u, w, h
<1>2. CASE as \in {"BOOL", "STRING"}
  <2>1. r = <<as, v>>
    BY <1>2 DEF Stored, SetBool, SetString
  <2> QED
    BY <1>2, <2>1 DEF Got, NumberTypes
<1> QED
  BY <1>1, <1>2 DEF ScalarTypes, NumberTypes

(* Every function that reads a setting gives what the setting holds.       *)
ReadersAgree(s, as) ==
  /\ Answers(as, s) = {Get(as, s)}
  /\ (name[s] = NULL => ElemValue(as, parent[s], Index(s)) = GetOrZero(as, s))

AllReadersAgree == \A s \in live \ {root}, as \in ScalarTypes : ReadersAgree(s, as)

LEMMA ReadersDoAgree ==
  ASSUME ShapeInv PROVE AllReadersAgree
<1> SUFFICES ASSUME NEW s \in live \ {root}, NEW as \in ScalarTypes
             PROVE  ReadersAgree(s, as)
  BY DEF AllReadersAgree
<1>1. s # NULL
  BY SettingAssumption DEF ShapeInv, IInv, TypeOK
<1>2. LookupValue(as, PathTo(s)) = Get(as, s)
  BY <1>1, PathLeads, Zenon DEF LookupValue
<1>3. ASSUME name[s] # NULL PROVE MemberValue(as, parent[s], name[s]) = Get(as, s)
  <2>1. GetMember(parent[s], name[s]) = s
    BY <1>3, ElementIsFound DEF GetMember
  <2> QED
    BY <1>1, <2>1, Zenon DEF MemberValue
<1>4. ASSUME name[s] = NULL
      PROVE  ElemValue(as, parent[s], Index(s)) = GetOrZero(as, s)
  <2>1. GetElem(parent[s], Step(s)) = s /\ Step(s) = Index(s)
    BY <1>4, ElementIsFound DEF Step
  <2> QED
    BY <1>1, <2>1, Zenon DEF ElemValue
<1> HIDE DEF ShapeInv
<1>5. Answers(as, s) = {Get(as, s)}
  BY <1>2, <1>3 DEF Answers
<1> QED
  BY <1>4, <1>5 DEF ReadersAgree

(* Whatever was stored without loss is what every function that reads      *)
(* gives afterwards: with the accessor it was stored with, and, for a      *)
(* number, with every other accessor whose type has that number.           *)
THEOREM StoredValuesAreReadBack == Spec => StoredIsReadBack
<1> DEFINE Back(s, as, v) ==
             /\ Answers(as, s)' = {{v}}
             /\ (name[s] = NULL => ElemValue(as, parent[s], Index(s))' = {v})
             /\ (as \in NumberTypes => \A bs \in NumberTypes : \A got \in Answers(bs, s)' :
                  /\ (Holds(bs, Halves(as, v)) =>
                        \A r \in got : Halves(bs, r) = Halves(as, v))
                  /\ ("FLOAT" \notin {bs, type'[s]} =>
                        (got # {} <=> Holds(bs, Halves(as, v)))))
<1>1. ASSUME ShapeInv, AllReadersAgree', NEW s \in live \ {root},
             NEW as \in ScalarTypes, NEW v \in ScalarArgs[as],
             ConfigSettingSet(s, as, v), ok', StoredExactly(as, v, type'[s])
      PROVE  Back(s, as, v)
  <2> DEFINE auto == "AUTOCONVERT" \in opts
  <2>1. TypeOK /\ s \in live /\ s \in Settings /\ type[s] \in Types /\ auto \in BOOLEAN
    BY <1>1 DEF ShapeInv, IInv, TypeOK
  <2>2. PICK r \in Stored(as, type[s], v, auto) : Store(s, r)
    BY <1>1 DEF ConfigSettingSet, Refuse, Answer
  <2>3. /\ type'[s] = r[1] /\ value'[s] = r[2] /\ live' = live /\ root' = root
        /\ name' = name /\ opts' = opts
    BY <2>1, <2>2 DEF Store, TypeOK, config
  <2>4. \A bs \in ScalarTypes :
          /\ Answers(bs, s)' = {Get(bs, s)'}
          /\ (name[s] = NULL => ElemValue(bs, parent[s], Index(s))' = GetOrZero(bs, s)')
    BY <1>1, <2>3 DEF AllReadersAgree, ReadersAgree
  <2>5. \A bs : Get(bs, s)' = Got(bs, r[1], r[2], auto)
    BY <2>3 DEF Get
  <2>6. v \in ValuesOf(as)
    BY SettingAssumption
  <2>7. StoredExactly(as, v, r[1])
    BY <1>1, <2>3
  <2> HIDE DEF auto
  <2>8. /\ Got(as, r[1], r[2], auto) = {v}
        /\ (as \in NumberTypes => \A bs \in NumberTypes :
              /\ NumberIsRead(bs, Got(bs, r[1], r[2], auto), Halves(as, v))
              /\ ("FLOAT" \notin {bs, r[1]} =>
                    (Got(bs, r[1], r[2], auto) # {} <=> Holds(bs, Halves(as, v)))))
    <3>1. ReadBack(as, v, auto, r)
      BY <2>1, <2>2, <2>6, <2>7, StoredIsGot, Zenon
    <3> QED
      BY <3>1, Zenon DEF ReadBack
  <2>9. Answers(as, s)' = {{v}}
    BY <2>4, <2>5, <2>8
  <2>10. ASSUME name[s] = NULL PROVE ElemValue(as, parent[s], Index(s))' = {v}
    <3>1. GetOrZero(as, s)' = {v}
      BY <2>5, <2>8 DEF GetOrZero
    <3> QED
      BY <2>4, <2>10, <3>1
  <2>11. ASSUME as \in NumberTypes, NEW bs \in NumberTypes, NEW got \in Answers(bs, s)'
         PROVE  /\ (Holds(bs, Halves(as, v)) =>
                      \A x \in got : Halves(bs, x) = Halves(as, v))
                /\ ("FLOAT" \notin {bs, type'[s]} =>
                      (got # {} <=> Holds(bs, Halves(as, v))))
    <3>1. bs \in ScalarTypes
      BY DEF NumberTypes, ScalarTypes
    <3>2. got = Got(bs, r[1], r[2], auto)
      BY <2>4, <2>5, <3>1, Zenon
    <3>3. /\ NumberIsRead(bs, got, Halves(as, v))
          /\ ("FLOAT" \notin {bs, r[1]} => (got # {} <=> Holds(bs, Halves(as, v))))
      BY <2>8, <2>11, <3>2, Zenon
    <3> QED
      BY <2>3, <3>3, Zenon DEF NumberIsRead
  <2> QED
    BY <2>9, <2>10, <2>11, Zenon
<1> DEFINE Stores == \A s \in live \ {root}, as \in ScalarTypes : \A v \in ScalarArgs[as] :
             ConfigSettingSet(s, as, v) /\ ok' /\ StoredExactly(as, v, type'[s]) =>
               Back(s, as, v)
<1>2. ShapeInv /\ AllReadersAgree' => Stores
  <2> HIDE DEF Back
  <2> QED
    BY <1>1
<1>3. [][Stores]_vars => StoredIsReadBack
  BY DEF StoredIsReadBack
<1>4. ShapeInv => AllReadersAgree
  BY ReadersDoAgree
<1>5. Spec => []ShapeInv
  BY Invariance, SettingsAreInPlace, PTL DEF ShapeInv
<1> HIDE DEF Stores
<1> QED
  BY <1>2, <1>3, <1>4, <1>5, PTL DEF Spec
=============================================================================
