-------------------------- MODULE CxxWrapperProofs ---------------------------
(***************************************************************************)
(* Proofs about CxxWrapper, for any number of settings, objects, names and *)
(* methods called: a reference leads to the object of its setting, whose   *)
(* type is the one it caches; casts keep the number or throw; a loop sees  *)
(* every member once.                                                      *)
(***************************************************************************)
EXTENDS CxxWrapper, SettingTreeProofs

(* What the tree and the objects are between two steps.                    *)
ObjectTypeOK ==
  /\ object \in [Hooks -> SettingObject \cup {NULL}]
  /\ defaultFormat \in Formats \cup {"DEFAULT"}

ObjectInv == IInv /\ HooksLiveOnce /\ ValuesFit /\ ObjectTypeOK /\ ObjectsAreCurrent

(* A configuration has the destructor of its Config; what is still to be   *)
(* wrapped is there; and reading is a single call.                         *)
CallInv ==
  /\ root # NULL => destructor
  /\ todo.wrap \in SUBSET live
  /\ reading => todo = Nothing

LoopType ==
  [of : Settings, up : BOOLEAN, idx : Nat, stop : Nat, seen : Seq(Settings),
   members : Seq(Settings), intact : BOOLEAN]

(* A loop is between its two ends, and the members it began with are still *)
(* the first ones unless the program removed some.                         *)
LoopInv ==
  loop # NULL =>
    /\ loop \in LoopType
    /\ loop.of \in live
    /\ loop.idx <= Len(loop.members)
    /\ loop.stop = IF loop.up THEN Len(loop.members) ELSE 0
    /\ loop.intact => IsPrefix(loop.members, kids[loop.of])

CxxInv == ObjectInv /\ CallInv /\ LoopInv /\ LoopsSeeEveryMember

-----------------------------------------------------------------------------
(* Calls of the C library, after which the destructor deletes objects.     *)

(* A setting that keeps its hook keeps its type.                           *)
TypesKept == \A s \in live : hook[s] # NULL /\ hook'[s] = hook[s] => type'[s] = type[s]

LibraryStep == (Reshaped \/ UNCHANGED <<live, hook, finalized>>) /\ TypesKept

LEMMA RebuildIsLibraryStep ==
  ASSUME TypeOK, NEW dead \in SUBSET live, NEW new \in SUBSET Settings, NEW q, NEW ks,
         NEW n, NEW t, NEW v, new \cap (live \ dead) = {},
         Rebuild(dead, q, ks, new, n, t, v)
  PROVE  LibraryStep
<1>1. TypesKept
  <2> SUFFICES ASSUME NEW s \in live, hook[s] # NULL, hook'[s] = hook[s]
               PROVE  type'[s] = type[s]
    BY DEF TypesKept
  <2>1. s \in Settings
    BY DEF TypeOK
  <2>2. s \notin new /\ s \notin dead
    BY <2>1 DEF Rebuild, Reshape, CreatedHook
  <2> QED
    BY <2>1, <2>2 DEF Rebuild, Reshape
<1> QED
  BY <1>1, ReshapedBy DEF LibraryStep

(* No setting gets a hook, and those it had are not lost.                  *)
LEMMA LibraryHooks ==
  ASSUME ObjectInv, root # NULL => destructor, LibraryStep
  PROVE  /\ HooksLiveOnce'
         /\ \A s \in live' : hook'[s] # NULL =>
              s \in live /\ hook'[s] = hook[s] /\ type'[s] = type[s]
         /\ \A s \in live : hook[s] # NULL =>
              hook[s] \in finalized' \/ (s \in live' /\ hook'[s] = hook[s])
<1>1. HookInv /\ HookStep /\ TypeOK
  BY DEF ObjectInv, IInv, HookInv, HookStep, LibraryStep
<1>2. HooksLiveOnce'
  BY <1>1, HooksStayOnce
<1>3. ASSUME NEW s \in live', hook'[s] # NULL
      PROVE  s \in live /\ hook'[s] = hook[s]
  <2>1. CASE Reshaped
    <3> PICK dead \in SUBSET live, new \in SUBSET Settings :
          \E q, ks, n, t, v :
            new \cap (live \ dead) = {} /\ Rebuild(dead, q, ks, new, n, t, v)
      BY <2>1, Zenon DEF Reshaped
    <3>1. PICK q, ks, n, t, v :
            new \cap (live \ dead) = {} /\ Rebuild(dead, q, ks, new, n, t, v)
      OBVIOUS
    <3> QED
      BY <1>1, <1>3, <3>1 DEF Rebuild, Reshape, CreatedHook, TypeOK
  <2>2. CASE UNCHANGED <<live, hook, finalized>>
    BY <1>3, <2>2
  <2> QED
    BY <2>1, <2>2 DEF LibraryStep
<1>4. ASSUME NEW s \in live, hook[s] # NULL, hook[s] \notin finalized'
      PROVE  s \in live' /\ hook'[s] = hook[s]
  <2>1. destructor
    BY DEF ObjectInv, IInv, TreeOK, RootIsGroup
  <2>2. hook[s] \in finalized' \cup {hook'[x] : x \in live'}
    BY <1>1, <1>4, <2>1, HooksAreKept
  <2>3. PICK x \in live' : hook'[x] = hook[s]
    BY <1>4, <2>2
  <2>4. x \in live /\ hook[x] = hook[s]
    BY <1>3, <1>4, <2>3
  <2> QED
    BY <1>4, <2>3, <2>4 DEF ObjectInv, HooksLiveOnce
<1> QED
  BY <1>2, <1>3, <1>4 DEF LibraryStep, TypesKept

(* The objects that are left are those of the settings that are left.      *)
LEMMA DeletedKeeps ==
  ASSUME ObjectInv, root # NULL => destructor, LibraryStep, Deleted, IInv', ValueStep,
         defaultFormat' \in Formats \cup {"DEFAULT"}
  PROVE  ObjectInv'
<1>1. /\ HooksLiveOnce'
      /\ \A s \in live' : hook'[s] # NULL =>
           s \in live /\ hook'[s] = hook[s] /\ type'[s] = type[s]
      /\ \A s \in live : hook[s] # NULL =>
           hook[s] \in finalized' \/ (s \in live' /\ hook'[s] = hook[s])
  BY LibraryHooks
<1>2. ValuesFit'
  BY ValuesStayFit DEF ObjectInv, IInv
<1>3. \A h \in Hooks : object'[h] = IF h \in finalized' THEN NULL ELSE object[h]
  BY DEF Deleted
<1>4. ObjectTypeOK'
  BY <1>3 DEF Deleted, ObjectInv, ObjectTypeOK
<1>5. \A s \in live : s \in Settings /\ (hook[s] # NULL => hook[s] \in Hooks)
  BY DEF ObjectInv, IInv, TypeOK
<1>6. ASSUME NEW s \in live', hook'[s] # NULL
      PROVE  /\ object'[hook'[s]] # NULL
             /\ object'[hook'[s]].setting = s /\ object'[hook'[s]].type = type'[s]
  <2>1. hook'[s] \notin finalized'
    BY <1>1, <1>6 DEF HooksLiveOnce
  <2>2. s \in live /\ hook'[s] = hook[s] /\ type'[s] = type[s] /\ hook[s] \in Hooks
    BY <1>1, <1>5, <1>6
  <2>3. object'[hook'[s]] = object[hook[s]]
    BY <1>3, <2>1, <2>2
  <2> QED
    BY <1>6, <2>2, <2>3 DEF ObjectInv, ObjectsAreCurrent
<1>7. ASSUME NEW h \in Hooks, object'[h] # NULL
      PROVE  object'[h].setting \in live' /\ hook'[object'[h].setting] = h
  <2>1. h \notin finalized' /\ object'[h] = object[h]
    BY <1>3, <1>7
  <2>2. object[h].setting \in live /\ hook[object[h].setting] = h /\ h # NULL
    BY <1>7, <2>1, SettingAssumption DEF ObjectInv, ObjectsAreCurrent
  <2> QED
    BY <1>1, <2>1, <2>2
<1> QED
  BY <1>1, <1>2, <1>4, <1>6, <1>7 DEF ObjectInv, ObjectsAreCurrent

-----------------------------------------------------------------------------
(* Making objects.                                                         *)

LEMMA WrapKeeps ==
  ASSUME ObjectInv, NEW W \in SUBSET live, Wrap(W), UNCHANGED defaultFormat
  PROVE  ObjectInv'
<1> DEFINE U == Unwrapped(W)
<1>1. PICK made \in [U -> FreshObjects] :
        /\ \A s, x \in U : made[s] = made[x] => s = x
        /\ hook' = [s \in Settings |-> IF s \in U THEN made[s] ELSE hook[s]]
        /\ object' = [h \in Hooks |->
                        IF \E s \in U : made[s] = h
                        THEN NewObject(CHOOSE s \in U : made[s] = h)
                        ELSE object[h]]
        /\ UNCHANGED <<live, config, name, type, value, format, parent, kids, finalized>>
        /\ ok' = TRUE
  BY Zenon DEF Wrap
<1>2. /\ UNCHANGED <<live, root, opts, destructor>>
      /\ UNCHANGED <<name, type, value, format, parent, kids, finalized>>
  BY <1>1 DEF config
<1>3. /\ TypeOK /\ live \subseteq Settings /\ U \subseteq live /\ \A s \in U : hook[s] = NULL
      /\ \A s \in live : hook[s] \in Hooks \cup {NULL}
  BY DEF ObjectInv, IInv, TypeOK, Unwrapped
<1> HIDE DEF U
<1>4. \A s \in U : /\ made[s] \in Hooks /\ made[s] \notin finalized
                   /\ made[s] # NULL
                   /\ \A x \in live : hook[x] # made[s]
  BY <1>1, SettingAssumption DEF FreshObjects
<1>5. \A s \in live : hook'[s] = IF s \in U THEN made[s] ELSE hook[s]
  BY <1>1, <1>3
<1>6. IInv'
  <2>1. hook' \in [Settings -> Hooks \cup {NULL}]
    BY <1>1, <1>3, <1>4 DEF TypeOK
  <2>2. \A s \in Settings \ live : hook'[s] = NULL
    BY <1>1, <1>3 DEF TypeOK
  <2>3. TypeOK'
    BY <1>1, <1>2, <1>3, <2>1, <2>2 DEF TypeOK
  <2> QED
    BY <1>2, <2>3, LocalStepKeeps DEF ObjectInv
<1>7. HooksLiveOnce'
  BY <1>1, <1>2, <1>4, <1>5 DEF HooksLiveOnce, ObjectInv
<1>8. ValuesFit'
  BY <1>2 DEF ObjectInv, ValuesFit
<1>9. \A s \in U : /\ object'[made[s]] = NewObject(s)
                   /\ (CHOOSE x \in U : made[x] = made[s]) = s
  BY <1>1, <1>4
<1>10. \A h \in Hooks : object'[h] = object[h] \/ \E s \in U : made[s] = h
  BY <1>1
<1>16. \A h \in Hooks : (\A s \in U : made[s] # h) => object'[h] = object[h]
  BY <1>1
<1>11. \A s \in U : NewObject(s) \in SettingObject /\ NewObject(s) # NULL
                    /\ NewObject(s).setting = s /\ NewObject(s).type = type[s]
  <2> SUFFICES ASSUME NEW s \in U
               PROVE  NewObject(s) \in SettingObject /\ NewObject(s) # NULL
                      /\ NewObject(s).setting = s /\ NewObject(s).type = type[s]
    OBVIOUS
  <2>1. s \in Settings /\ type[s] \in Types /\ FormatOf(s) \in AllFormats \cup Formats
    BY <1>3 DEF TypeOK, FormatOf, ObjectInv, ObjectTypeOK, AllFormats
  <2>2. NewObject(s) \in SettingObject
    BY <2>1 DEF NewObject, SettingObject
  <2> QED
    BY <2>2, ObjectAssumption DEF NewObject
<1>12. ObjectTypeOK'
  <2>1. \A h \in Hooks : object'[h] \in SettingObject \cup {NULL}
    BY <1>9, <1>10, <1>11 DEF ObjectInv, ObjectTypeOK
  <2>2. object' = [h \in Hooks |-> object'[h]]
    BY <1>1, Zenon
  <2> QED
    BY <2>1, <2>2 DEF ObjectInv, ObjectTypeOK
<1>13. ASSUME NEW s \in live, hook'[s] # NULL
       PROVE  /\ object'[hook'[s]] # NULL /\ object'[hook'[s]].setting = s
              /\ object'[hook'[s]].type = type[s]
  <2>1. CASE s \in U
    BY <1>5, <1>9, <1>11, <2>1
  <2>2. CASE s \notin U
    <3>1. hook'[s] = hook[s] /\ hook[s] \in Hooks
      BY <1>3, <1>5, <1>13, <2>2
    <3>2. object'[hook[s]] = object[hook[s]]
      BY <1>4, <1>16, <3>1
    <3> QED
      BY <1>13, <3>1, <3>2 DEF ObjectInv, ObjectsAreCurrent
  <2> QED
    BY <2>1, <2>2
<1>14. ASSUME NEW h \in Hooks, object'[h] # NULL
       PROVE  object'[h].setting \in live /\ hook'[object'[h].setting] = h
  <2>1. CASE \E s \in U : made[s] = h
    BY <1>3, <1>5, <1>9, <1>11, <2>1
  <2>2. CASE ~\E s \in U : made[s] = h
    <3>1. object'[h] = object[h]
      BY <1>16, <2>2
    <3>2. object[h].setting \in live /\ hook[object[h].setting] = h /\ h # NULL
      BY <1>14, <3>1, SettingAssumption DEF ObjectInv, ObjectsAreCurrent
    <3>3. object[h].setting \notin U
      BY <1>3, <3>2
    <3> QED
      BY <1>5, <3>1, <3>2, <3>3
  <2> QED
    BY <2>1, <2>2
<1>15. ObjectsAreCurrent'
  BY <1>2, <1>13, <1>14 DEF ObjectsAreCurrent
<1> QED
  BY <1>6, <1>7, <1>8, <1>12, <1>15 DEF ObjectInv

-----------------------------------------------------------------------------
(* Loops over calls that are not theirs.                                   *)

LEMMA LoopKeptKeeps ==
  ASSUME LoopInv, LoopsSeeEveryMember, LoopKept PROVE LoopInv' /\ LoopsSeeEveryMember'
<1>1. CASE loop' = NULL
  BY <1>1 DEF LoopInv, LoopsSeeEveryMember
<1>2. CASE loop' # NULL
  <2> DEFINE keeps == loop.intact /\ IsPrefix(loop.members, kids'[loop.of])
  <2>1. /\ loop # NULL /\ loop.of \in live'
        /\ loop' = [loop EXCEPT !.intact = keeps]
    BY <1>2 DEF LoopKept
  <2>2. loop \in LoopType /\ keeps \in BOOLEAN
    BY <2>1 DEF LoopInv, LoopType
  <2>3. keeps => loop.intact /\ IsPrefix(loop.members, kids'[loop.of])
    OBVIOUS
  <2> HIDE DEF keeps
  <2>4. /\ loop'.of = loop.of /\ loop'.up = loop.up /\ loop'.idx = loop.idx
        /\ loop'.stop = loop.stop /\ loop'.seen = loop.seen /\ loop'.members = loop.members
        /\ loop'.intact = keeps
        /\ loop' \in LoopType
    BY <2>1, <2>2 DEF LoopType
  <2>5. LoopInv'
    BY <2>1, <2>3, <2>4 DEF LoopInv
  <2>6. LoopsSeeEveryMember'
    BY <2>1, <2>3, <2>4, Zenon DEF LoopsSeeEveryMember
  <2> QED
    BY <2>5, <2>6
<1> QED
  BY <1>1, <1>2

LEMMA LoopStays ==
  ASSUME LoopInv, LoopsSeeEveryMember, UNCHANGED <<loop, live, kids>>
  PROVE  LoopInv' /\ LoopsSeeEveryMember'
BY DEF LoopInv, LoopsSeeEveryMember

-----------------------------------------------------------------------------
(* The ways a method ends.                                                 *)

LEMMA AboveIsLive == \A s : Above(s) \in SUBSET live
BY DEF Above

(* It wraps settings and returns, or throws.                               *)
LEMMA WrapKeepsAll ==
  ASSUME CxxInv, NEW W \in SUBSET live, Wrap(W), UNCHANGED <<todo, loop>>, Quiet
  PROVE  CxxInv'
<1>1. UNCHANGED <<live, root, destructor, kids, defaultFormat, reading>>
  BY DEF Wrap, config, Quiet
<1>2. ObjectInv'
  BY <1>1, WrapKeeps DEF CxxInv
<1>3. CallInv'
  BY <1>1 DEF CxxInv, CallInv
<1>4. LoopInv' /\ LoopsSeeEveryMember'
  BY <1>1, LoopStays DEF CxxInv
<1> QED
  BY <1>2, <1>3, <1>4 DEF CxxInv

LEMMA ReturnKeeps == ASSUME CxxInv, NEW W \in SUBSET live, Return(W) PROVE CxxInv'
BY WrapKeepsAll DEF Return

LEMMA ThrowKeeps == ASSUME CxxInv, NEW s, NEW e, Throw(s, e) PROVE CxxInv'
BY WrapKeepsAll, AboveIsLive DEF Throw

(* It has called the C library.                                            *)
LEMMA LibraryKeeps ==
  ASSUME CxxInv, LibraryStep, Deleted, LoopKept, IInv', ValueStep,
         defaultFormat' \in Formats \cup {"DEFAULT"},
         root' # NULL => destructor',
         todo'.wrap \in SUBSET live',
         reading' => todo' = Nothing
  PROVE  CxxInv'
<1>1. ObjectInv'
  BY DeletedKeeps DEF CxxInv, CallInv
<1>2. LoopInv' /\ LoopsSeeEveryMember'
  BY LoopKeptKeeps DEF CxxInv
<1> QED
  BY <1>1, <1>2 DEF CxxInv, CallInv

(* It has not touched the settings.                                        *)
LEMMA QuietKeeps ==
  ASSUME CxxInv, UNCHANGED <<vars, object, todo>>,
         defaultFormat' \in Formats \cup {"DEFAULT"}, reading' => reading,
         LoopInv', LoopsSeeEveryMember'
  PROVE  CxxInv'
<1>1. UNCHANGED vars
  OBVIOUS
<1>2. IInv'
  <2>1. IInv /\ TypeOK'
    BY <1>1 DEF vars, CxxInv, ObjectInv, IInv, TypeOK
  <2> QED
    BY <1>1, <2>1, LocalStepKeeps DEF vars
<1>3. ObjectInv'
  BY <1>1, <1>2 DEF vars, CxxInv, ObjectInv, HooksLiveOnce, ValuesFit, ObjectTypeOK,
     ObjectsAreCurrent
<1>4. CallInv'
  BY <1>1 DEF vars, CxxInv, CallInv
<1> QED
  BY <1>3, <1>4 DEF CxxInv

-----------------------------------------------------------------------------
(* Class Config.                                                           *)

LEMMA PlainTodo == ASSUME CxxInv, Idle, Plain PROVE todo' = Nothing /\ todo'.wrap = {}
BY DEF Idle, Plain, Nothing, Then

LEMMA NewRootIsLibraryStep ==
  ASSUME TypeOK, NEW dead \in SUBSET live, NewRoot(dead) PROVE LibraryStep /\ ValueStep
<1>1. PICK r \in Settings \ (live \ dead) :
        Rebuild(dead, NULL, <<>>, {r}, NULL, "GROUP", NULL)
  BY DEF NewRoot
<1>2. {r} \in SUBSET Settings /\ {r} \cap (live \ dead) = {} /\ NULL \in ValuesOf("GROUP")
  BY DEF ValuesOf
<1> QED
  BY <1>1, <1>2, RebuildIsLibraryStep, CreatedFits DEF Rebuild

LEMMA ConfigKeeps ==
  ASSUME CxxInv, Construct \/ Destruct \/ Clear \/ Read \/ (\E o \in OptionSets : SetOptions(o))
  PROVE  CxxInv'
<1>1. TypeOK /\ IInv /\ defaultFormat \in Formats \cup {"DEFAULT"}
  BY DEF CxxInv, ObjectInv, ObjectTypeOK, IInv
<1>2. CASE Construct
  <2>1. live = {} /\ NewRoot({}) /\ ok' = TRUE /\ opts' = {} /\ destructor' = TRUE
    BY <1>1, <1>2 DEF Construct, IInv, TreeOK, RootIsGroup
  <2>2. IInv'
    BY <1>1, <2>1, NewRootKeeps
  <2>3. LibraryStep /\ ValueStep
    BY <1>1, <2>1, NewRootIsLibraryStep
  <2> QED
    BY <1>2, <2>1, <2>2, <2>3, PlainTodo, LibraryKeeps DEF Construct, Plain, Idle
<1>3. CASE Clear \/ Read
  <2>1. ConfigClear /\ Plain /\ Idle /\ UNCHANGED defaultFormat
    BY <1>3 DEF Clear, Read, Quiet
  <2>2. IInv'
    BY <1>1, <2>1, LifeStepKeeps DEF LifeStep
  <2>3. LibraryStep /\ ValueStep
    BY <1>1, <2>1, SubtreeIsLive, NewRootIsLibraryStep DEF ConfigClear
  <2>4. root' # NULL => destructor'
    BY <2>1 DEF ConfigClear, CxxInv, CallInv
  <2> QED
    BY <1>1, <2>1, <2>2, <2>3, <2>4, PlainTodo, LibraryKeeps DEF Plain
<1>4. CASE Destruct
  <2>1. ConfigDestroy /\ Plain /\ Idle /\ UNCHANGED defaultFormat
    BY <1>4 DEF Destruct, Quiet
  <2>2. IInv' /\ ValueStep
    BY <1>1, <2>1, LifeStepKeeps, LifeStepValues DEF LifeStep
  <2>3. Rebuild(Subtree(root), NULL, <<>>, {}, NULL, "NONE", NULL) /\ root' = NULL
    BY <2>1 DEF ConfigDestroy
  <2>4. LibraryStep
    BY <1>1, <2>3, SubtreeIsLive, RebuildIsLibraryStep
  <2> QED
    BY <1>1, <2>1, <2>2, <2>3, <2>4, PlainTodo, LibraryKeeps DEF Plain
<1>5. ASSUME NEW o \in OptionSets, SetOptions(o) PROVE CxxInv'
  <2>1. ConfigSetOptions(o) /\ Plain /\ Idle /\ UNCHANGED defaultFormat
    BY <1>5 DEF SetOptions, Quiet
  <2>2. IInv' /\ ValueStep
    BY <1>1, <2>1, LifeStepKeeps, LifeStepValues DEF LifeStep
  <2>3. UNCHANGED <<live, root, hook, finalized, type, destructor>>
    BY <2>1 DEF ConfigSetOptions, fields
  <2>4. LibraryStep
    BY <2>3 DEF LibraryStep, TypesKept
  <2> QED
    BY <1>1, <2>1, <2>2, <2>3, <2>4, PlainTodo, LibraryKeeps DEF Plain, CxxInv, CallInv
<1> QED
  BY <1>2, <1>3, <1>4, <1>5

LEMMA AddIsLibraryStep ==
  ASSUME TypeOK, NEW p \in live, NEW n, NEW t, ConfigSettingAdd(p, n, t)
  PROVE  LibraryStep
<1> DEFINE m == GivenName(p, n)
           old == GetMember(p, m)
           dead == IF old = NULL THEN {} ELSE Subtree(old)
           rest == IF old = NULL THEN kids[p] ELSE RemoveAt(kids[p], Position(p, m))
<1>1. CASE ~MayAdd(p, n, t)
  BY <1>1 DEF ConfigSettingAdd, Refuse, Unchanged, fields, LibraryStep, TypesKept
<1>2. CASE MayAdd(p, n, t)
  <2>1. PICK c \in Settings \ (live \ dead) :
          Rebuild(dead, p, Append(rest, c), {c}, m, t, ZeroOf(t))
    BY <1>2, Zenon DEF ConfigSettingAdd
  <2>2. dead \in SUBSET live
    BY SubtreeIsLive
  <2> HIDE DEF m, old, dead, rest
  <2>3. {c} \in SUBSET Settings /\ {c} \cap (live \ dead) = {}
    OBVIOUS
  <2> QED
    BY <2>1, <2>2, <2>3, RebuildIsLibraryStep
<1> QED
  BY <1>1, <1>2

LEMMA ReadSettingKeeps ==
  ASSUME CxxInv, NEW p \in live, NEW n \in Names \cup {NULL}, NEW t, ReadSetting(p, n, t)
  PROVE  CxxInv'
<1>1. /\ ConfigSettingAdd(p, n, t) /\ Plain /\ reading
      /\ UNCHANGED <<defaultFormat, reading>>
  BY DEF ReadSetting, Quiet
<1>2. IInv /\ TypeOK /\ defaultFormat \in Formats \cup {"DEFAULT"}
  BY DEF CxxInv, ObjectInv, ObjectTypeOK, IInv
<1>3. IInv' /\ LibraryStep /\ ValueStep
  BY <1>1, <1>2, ConfigSettingAddKeeps, AddIsLibraryStep, ConfigSettingAddValues
<1>4. todo = Nothing /\ todo' = Nothing /\ todo'.wrap = {}
  BY <1>1 DEF CxxInv, CallInv, Plain, Nothing, Then
<1>5. root' # NULL => destructor'
  <2>1. UNCHANGED config
    BY <1>1, Zenon DEF ConfigSettingAdd, Refuse, Unchanged
  <2> QED
    BY <2>1 DEF config, CxxInv, CallInv
<1> QED
  BY <1>1, <1>2, <1>3, <1>4, <1>5, LibraryKeeps DEF Plain

(* What lookups find is there.                                             *)
LEMMA FoundIsLive ==
  ASSUME CxxInv
  PROVE  /\ \A s \in live, path \in Paths : Lookup(s, path) \in live \cup {NULL}
         /\ \A s \in live : \A n : GetMember(s, n) \in live \cup {NULL}
         /\ \A s \in live, i \in Int : GetElem(s, i) \in live \cup {NULL}
<1>1. IInv /\ TypeOK /\ ElementsAreLive /\ live \subseteq Settings
  BY DEF CxxInv, ObjectInv, IInv, TypeOK, TreeOK
<1>2. \A s \in live, path \in Paths : Lookup(s, path) \in live \cup {NULL}
  BY <1>1, LookupIsLive, SettingAssumption
<1>3. \A s \in live : \A n : GetMember(s, n) \in live \cup {NULL}
  BY <1>1, SearchIsElement, Elements DEF GetMember
<1>4. \A s \in live, i \in Int : GetElem(s, i) \in live \cup {NULL}
  BY <1>1, ElemIsLive
<1> QED
  BY <1>2, <1>3, <1>4

(* lookupValue() makes objects for what it found and what is above.        *)
LEMMA LookedKeeps ==
  ASSUME CxxInv, NEW found \in live \cup {NULL}, NEW above \in SUBSET live, NEW t,
         Looked(found, above, t)
  PROVE  CxxInv'
<1>1. CASE found = NULL
  BY <1>1, ReturnKeeps DEF Looked
<1>2. CASE found # NULL
  <2>1. PICK r \in CastAs(found, t) :
          Return({found} \cup IF r.exception = NULL THEN {} ELSE Above(found))
    BY <1>2, Zenon DEF Looked
  <2> DEFINE W == {found} \cup IF r.exception = NULL THEN {} ELSE Above(found)
  <2>2. W \in SUBSET live
    BY <1>2, AboveIsLive
  <2> HIDE DEF W
  <2>3. Return(W)
    BY <2>1 DEF W
  <2> QED
    BY <2>2, <2>3, ReturnKeeps
<1> QED
  BY <1>1, <1>2

LEMMA ConfigStepKeeps == ASSUME CxxInv, ConfigStep PROVE CxxInv'
<1>1. IInv /\ live \subseteq Settings /\ (root # NULL => root \in live)
  BY DEF CxxInv, ObjectInv, IInv, TypeOK
<1>2. CASE GetRoot
  BY <1>1, <1>2, ReturnKeeps DEF GetRoot
<1>3. ASSUME NEW f \in Formats, SetDefaultFormat(f) PROVE CxxInv'
  <2>1. /\ UNCHANGED <<vars, object, todo>> /\ UNCHANGED loop /\ reading' = reading
        /\ defaultFormat' \in Formats \cup {"DEFAULT"}
        /\ UNCHANGED <<live, kids>>
    BY <1>3 DEF SetDefaultFormat, vars
  <2> QED
    BY <2>1, QuietKeeps, LoopStays DEF CxxInv
<1>4. ASSUME NEW e, EndRead(e) PROVE CxxInv'
  <2>1. /\ UNCHANGED <<vars, object, todo>> /\ UNCHANGED loop /\ reading' = FALSE
        /\ UNCHANGED defaultFormat /\ UNCHANGED <<live, kids>>
    BY <1>4 DEF EndRead, vars
  <2> QED
    BY <2>1, QuietKeeps, LoopStays DEF CxxInv, ObjectInv, ObjectTypeOK
<1>5. ASSUME NEW path \in Paths, ConfigLookup(path) PROVE CxxInv'
  <2>1. CASE Lookup(root, path) = NULL
    <3>1. /\ UNCHANGED <<vars, object, todo>> /\ UNCHANGED loop /\ UNCHANGED reading
          /\ UNCHANGED defaultFormat /\ UNCHANGED <<live, kids>>
      BY <1>5, <2>1 DEF ConfigLookup, vars
    <3> QED
      BY <3>1, QuietKeeps, LoopStays DEF CxxInv, ObjectInv, ObjectTypeOK
  <2>2. CASE Lookup(root, path) # NULL
    BY <1>1, <1>5, <2>2, FoundIsLive, ReturnKeeps DEF ConfigLookup
  <2> QED
    BY <2>1, <2>2
<1>6. ASSUME NEW path \in Paths, NEW t, ConfigLookupValue(path, t) PROVE CxxInv'
  BY <1>1, <1>6, FoundIsLive, LookedKeeps DEF ConfigLookupValue
<1> QED
  BY <1>2, <1>3, <1>4, <1>5, <1>6, ConfigKeeps, ReadSettingKeeps DEF ConfigStep

-----------------------------------------------------------------------------
(* Class Setting: the methods that only read.                              *)

LEMMA PrefixOfItself == ASSUME NEW s \in Seq(Settings) PROVE IsPrefix(s, s)
BY LenProperties DEF IsPrefix

LEMMA BeginKeeps == ASSUME CxxInv, NEW s \in live, NEW up \in BOOLEAN, Begin(s, up) PROVE CxxInv'
<1>1. CASE CachedType(s) \notin Aggregates
  BY <1>1, ThrowKeeps DEF Begin
<1>2. CASE CachedType(s) \in Aggregates
  <2>1. /\ loop' = [of |-> s, up |-> up, idx |-> IF up THEN 0 ELSE Count(s),
                    stop |-> IF up THEN Count(s) ELSE 0,
                    seen |-> <<>>, members |-> kids[s], intact |-> TRUE]
        /\ UNCHANGED <<vars, object, defaultFormat, reading, todo>>
        /\ UNCHANGED <<live, kids>>
    BY <1>2 DEF Begin, vars
  <2>2. s \in Settings /\ kids[s] \in Seq(Settings) /\ Count(s) = Len(kids[s])
        /\ Len(kids[s]) \in Nat /\ IsPrefix(kids[s], kids[s])
    BY LenProperties, PrefixOfItself DEF CxxInv, ObjectInv, IInv, TypeOK, Count
  <2>3. loop' \in LoopType
    BY <2>1, <2>2 DEF LoopType
  <2>4. LoopInv'
    BY <2>1, <2>2, <2>3 DEF LoopInv
  <2>5. LoopsSeeEveryMember'
    <3>1. SubSeq(kids[s], 1, 0) = <<>>
      BY <2>2
    <3>2. Reverse(SubSeq(kids[s], Len(kids[s]) + 1, Len(kids[s]))) = <<>>
      <4>1. SubSeq(kids[s], Len(kids[s]) + 1, Len(kids[s])) = <<>>
        BY <2>2
      <4> QED
        BY <4>1 DEF Reverse
    <3> QED
      BY <2>1, <2>2, <3>1, <3>2 DEF LoopsSeeEveryMember
  <2> QED
    BY <2>1, <2>4, <2>5, QuietKeeps DEF CxxInv, ObjectInv, ObjectTypeOK
<1> QED
  BY <1>1, <1>2

LEMMA ReadingStepKeeps == ASSUME CxxInv, NEW s \in live, ReadingStep(s) PROVE CxxInv'
<1>1. IInv /\ OnlyRootIsLoose /\ {} \in SUBSET live
  BY DEF CxxInv, ObjectInv, IInv, TreeOK
<1>2. ASSUME NEW t, CastSetting(s, t) PROVE CxxInv'
  <2>1. PICK r \in CastAs(s, t) :
          IF r.exception = NULL THEN Return({}) ELSE Throw(s, r.exception)
    BY <1>2, Zenon DEF CastSetting
  <2> QED
    BY <1>1, <2>1, ReturnKeeps, ThrowKeeps, Zenon
<1>3. ASSUME NEW path \in Paths, SettingLookup(s, path) PROVE CxxInv'
  <2>1. Lookup(s, path) # NULL => {Lookup(s, path)} \in SUBSET live
    BY FoundIsLive
  <2> QED
    BY <1>3, <2>1, ReturnKeeps, ThrowKeeps, Zenon DEF SettingLookup
<1>4. ASSUME NEW n, Member(s, n) PROVE CxxInv'
  <2>1. GetMember(s, n) # NULL => {GetMember(s, n)} \in SUBSET live
    BY FoundIsLive
  <2> QED
    BY <1>4, <2>1, ReturnKeeps, ThrowKeeps, Zenon DEF Member
<1>5. ASSUME NEW n, NEW t, SettingLookupValue(s, n, t) PROVE CxxInv'
  <2> DEFINE found == IF CachedType(s) = "GROUP" THEN GetMember(s, n) ELSE NULL
  <2>1. found \in live \cup {NULL}
    BY FoundIsLive
  <2>2. Looked(found, Above(s), t)
    BY <1>5, Zenon DEF SettingLookupValue
  <2> HIDE DEF found
  <2> QED
    BY <2>1, <2>2, AboveIsLive, LookedKeeps
<1>6. ASSUME NEW idx \in ElemIdx, Element(s, idx) PROVE CxxInv'
  <2>1. GetElem(s, idx) # NULL => {GetElem(s, idx)} \in SUBSET live
    BY FoundIsLive, SettingAssumption
  <2> QED
    BY <1>6, <2>1, ReturnKeeps, ThrowKeeps, Zenon DEF Element
<1>7. CASE GetParent(s)
  <2>1. {parent[s]} \in SUBSET live
    BY <1>1, <1>7 DEF GetParent, OnlyRootIsLoose
  <2> QED
    BY <1>7, <2>1, ReturnKeeps DEF GetParent
<1>8. CASE GetPath(s)
  BY <1>8, AboveIsLive, ReturnKeeps DEF GetPath
<1>9. ASSUME NEW up \in LoopKinds, Begin(s, up) PROVE CxxInv'
  BY <1>9, BeginKeeps, CxxAssumption
<1> QED
  BY <1>2, <1>3, <1>4, <1>5, <1>6, <1>7, <1>8, <1>9 DEF ReadingStep

-----------------------------------------------------------------------------
(* Class Setting: the methods that change the setting.                     *)

(* The type cached is the type.                                            *)
LEMMA CachedIsType == ASSUME ObjectsAreCurrent, NEW s \in live PROVE CachedType(s) = type[s]
BY DEF ObjectsAreCurrent, CachedType

LEMMA SetFormatKeeps ==
  ASSUME CxxInv, NEW s \in live, NEW f \in Formats, SetFormat(s, f) PROVE CxxInv'
<1> DEFINE g == IF CachedType(s) \in {"INT", "INT64"} THEN f ELSE "DEFAULT"
<1>1. /\ ConfigSettingSetFormat(s, g) /\ hook[s] # NULL
      /\ object' = [object EXCEPT ![hook[s]].format = g]
      /\ UNCHANGED <<todo, loop, defaultFormat, reading>>
      /\ g \in AllFormats \cup Formats
  BY DEF SetFormat, Quiet, Referenced, AllFormats
<1> HIDE DEF g
<1>2. IInv /\ TypeOK /\ hook[s] \in Hooks /\ ObjectsAreCurrent /\ ObjectTypeOK
      /\ object[hook[s]] \in SettingObject
  BY <1>1 DEF CxxInv, ObjectInv, IInv, TypeOK, ObjectsAreCurrent, ObjectTypeOK
<1>3. /\ UNCHANGED <<live, name, type, value, parent, hook, kids, finalized, root, destructor>>
      /\ format' = format \/ (type[s] \in {"INT", "INT64"} /\ format' = [format EXCEPT ![s] = g])
  BY <1>1 DEF ConfigSettingSetFormat, Refuse, Unchanged, config, fields
<1>4. IInv'
  BY <1>1, <1>2, ConfigSettingSetFormatKeeps
<1>5. ValuesFit'
  BY <1>2, <1>3 DEF CxxInv, ObjectInv, ValuesFit, TypeOK
<1>6. \A h \in Hooks : \/ object'[h] = object[h]
                       \/ /\ h = hook[s] /\ object'[h] \in SettingObject
                          /\ object'[h].setting = object[h].setting
                          /\ object'[h].type = object[h].type
  BY <1>1, <1>2 DEF ObjectTypeOK, SettingObject
<1>7. ObjectTypeOK'
  <2>1. object' \in [Hooks -> SettingObject \cup {NULL}]
    BY <1>1, <1>2 DEF ObjectTypeOK, SettingObject
  <2> QED
    BY <1>1, <1>2, <2>1 DEF ObjectTypeOK
<1>8. ObjectsAreCurrent'
  <2>1. \A x \in live : hook[x] # NULL => hook[x] \in Hooks
    BY <1>2 DEF TypeOK
  <2>2. \A h \in Hooks : object'[h] # NULL => object[h] # NULL
                         /\ object'[h].setting = object[h].setting
                         /\ object'[h].type = object[h].type
    BY <1>2, <1>6, ObjectAssumption
  <2>3. \A h \in Hooks : object[h] # NULL => object'[h] # NULL
    BY <1>6, ObjectAssumption
  <2> QED
    BY <1>2, <1>3, <2>1, <2>2, <2>3 DEF ObjectsAreCurrent
<1>9. ObjectInv'
  BY <1>3, <1>4, <1>5, <1>7, <1>8 DEF CxxInv, ObjectInv, HooksLiveOnce
<1>10. LoopInv' /\ LoopsSeeEveryMember'
  BY <1>1, <1>3, LoopStays DEF CxxInv
<1> QED
  BY <1>1, <1>3, <1>9, <1>10 DEF CxxInv, CallInv

(* An assignment never changes the type of a setting with an object: the   *)
(* type was asserted.                                                      *)
LEMMA AssignKeeps ==
  ASSUME CxxInv, NEW s \in live, NEW as \in ScalarTypes, NEW v \in ScalarArgs[as],
         Assign(s, as, v)
  PROVE  CxxInv'
<1>1. CASE ~TypeAsserted(s, as)
  BY <1>1, ThrowKeeps DEF Assign
<1>2. CASE TypeAsserted(s, as)
  <2>1. /\ ConfigSettingSet(s, as, v) /\ Plain /\ Idle
        /\ UNCHANGED <<defaultFormat, reading>>
    BY <1>2 DEF Assign, Quiet
  <2>2. IInv /\ TypeOK /\ ValuesFit /\ CachedType(s) = type[s]
        /\ defaultFormat \in Formats \cup {"DEFAULT"}
    BY CachedIsType DEF CxxInv, ObjectInv, IInv, ObjectTypeOK
  <2>3. type[s] # "NONE"
    BY <1>2, <2>2 DEF TypeAsserted, NumberTypes, ScalarTypes
  <2>4. IInv' /\ ValueStep
    BY <2>1, <2>2, ConfigSettingSetKeeps, ConfigSettingSetValues
  <2>5. UNCHANGED <<live, hook, finalized, type, root, destructor>>
    <3> DEFINE results == Stored(as, type[s], v, "AUTOCONVERT" \in opts)
    <3>1. CASE results = {}
      BY <2>1, <3>1 DEF ConfigSettingSet, Refuse, Unchanged, fields, config
    <3>2. CASE results # {}
      <4>1. PICK r \in results : Store(s, r)
        BY <2>1, <3>2 DEF ConfigSettingSet
      <4>2. r[1] = type[s]
        <5>1. ("AUTOCONVERT" \in opts) \in BOOLEAN
          OBVIOUS
        <5> QED
          BY <2>3, <5>1, StoredKeepsType
      <4>3. [type EXCEPT ![s] = type[s]] = type
        BY <2>2 DEF TypeOK
      <4> QED
        BY <4>1, <4>2, <4>3 DEF Store, config
    <3> QED
      BY <3>1, <3>2
  <2>6. LibraryStep
    BY <2>5 DEF LibraryStep, TypesKept
  <2> QED
    BY <2>1, <2>2, <2>4, <2>5, <2>6, PlainTodo, LibraryKeeps DEF Plain, CxxInv, CallInv
<1> QED
  BY <1>1, <1>2

(* A call of the C library with more to be done after it.                  *)
LEMMA PassedKeeps ==
  ASSUME CxxInv, Idle, NEW s, NEW e, NEW W, Passed(s, e, W),
         LibraryStep, IInv', ValueStep, UNCHANGED config,
         ok' => W \in SUBSET live', ~ok' => UNCHANGED live
  PROVE  CxxInv'
<1>1. /\ Deleted /\ LoopKept /\ UNCHANGED <<defaultFormat, reading>>
      /\ todo' = IF ok' THEN Then(W, NULL) ELSE Then(Above(s), e)
  BY DEF Passed, Quiet
<1>2. todo'.wrap \in SUBSET live'
  BY <1>1, AboveIsLive DEF Then
<1>3. ~reading'
  BY <1>1 DEF Idle
<1> QED
  BY <1>1, <1>2, <1>3, LibraryKeeps DEF CxxInv, CallInv, ObjectInv, ObjectTypeOK, config

(* The setting that was added is there; nothing is gone unless a member of *)
(* the same name was overridden.                                           *)
LEMMA AddedIsLive ==
  ASSUME IInv, NEW p \in live, NEW n, NEW t, ConfigSettingAdd(p, n, t), ok'
  PROVE  /\ Last(kids'[p]) \in live'
         /\ GetMember(p, GivenName(p, n)) = NULL => live \subseteq live'
<1> DEFINE m == GivenName(p, n)
           old == GetMember(p, m)
           dead == IF old = NULL THEN {} ELSE Subtree(old)
           rest == IF old = NULL THEN kids[p] ELSE RemoveAt(kids[p], Position(p, m))
<1>1. MayAdd(p, n, t)
  BY Zenon DEF ConfigSettingAdd, Refuse, Answer
<1>2. PICK c \in Settings \ (live \ dead) :
        Rebuild(dead, p, Append(rest, c), {c}, m, t, ZeroOf(t))
  BY <1>1, Zenon DEF ConfigSettingAdd
<1>3. TypeOK /\ TreeOK /\ NothingLeaks /\ p \in Settings /\ kids[p] \in Seq(Settings)
  BY DEF IInv, TypeOK
<1>4. p \notin dead
  <2>1. CASE old # NULL
    <3>1. old \in ToSet(kids[p])
      BY <1>3, <2>1, SearchIsElement DEF GetMember
    <3> HIDE DEF old
    <3> QED
      BY <1>3, <2>1, <3>1, SubtreeOfElement
  <2>2. CASE old = NULL
    BY <2>2
  <2> QED
    BY <2>1, <2>2
<1>5. rest \in Seq(Settings)
  <2>1. CASE old # NULL
    <3>1. Position(p, m) \in 1 .. Len(kids[p])
      BY <1>3, <2>1, PositionIsElement DEF GetMember, ListSearch
    <3> QED
      BY <1>3, <2>1, <3>1, RemoveAtProperties
  <2>2. CASE old = NULL
    BY <1>3, <2>2
  <2> QED
    BY <2>1, <2>2
<1>6. old = NULL => dead = {}
  OBVIOUS
<1> HIDE DEF m, old, dead, rest
<1>7. /\ live' = (live \ dead) \cup {c}
      /\ kids'[p] = Append(rest, c)
  BY <1>2, <1>3, <1>4 DEF Rebuild, Reshape
<1>8. Last(Append(rest, c)) = c
  BY <1>5, AppendProperties DEF Last
<1> QED
  BY <1>6, <1>7, <1>8 DEF old, m

LEMMA AddPasses ==
  ASSUME CxxInv, Idle, NEW s \in live, NEW n \in Names \cup {NULL, BadName}, NEW t, NEW e,
         NEW W, ConfigSettingAdd(s, n, t), Passed(s, e, W),
         ok' => W \in SUBSET live'
  PROVE  CxxInv'
<1>1. IInv /\ TypeOK
  BY DEF CxxInv, ObjectInv, IInv
<1>2. IInv' /\ LibraryStep /\ ValueStep
  BY <1>1, ConfigSettingAddKeeps, AddIsLibraryStep, ConfigSettingAddValues
<1>3. UNCHANGED config /\ (~ok' => UNCHANGED live)
  BY Zenon DEF ConfigSettingAdd, Refuse, Unchanged, Answer
<1> QED
  BY <1>2, <1>3, PassedKeeps

LEMMA DropPasses ==
  ASSUME CxxInv, Idle, NEW s, NEW e, Passed(s, e, {}), IInv',
         Refuse \/ \E q, i : DropElement(q, i)
  PROVE  CxxInv'
<1>1. TypeOK
  BY DEF CxxInv, ObjectInv, IInv
<1>2. CASE Refuse
  <2>1. LibraryStep /\ ValueStep /\ UNCHANGED config /\ UNCHANGED live
    BY <1>2 DEF Refuse, Unchanged, fields, LibraryStep, TypesKept, ValueStep
  <2>2. {} \in SUBSET live'
    OBVIOUS
  <2> QED
    BY <2>1, <2>2, PassedKeeps
<1>3. ASSUME NEW q, NEW i, DropElement(q, i) PROVE CxxInv'
  <2>1. /\ Rebuild(Subtree(kids[q][i]), q, RemoveAt(kids[q], i), {}, NULL, "NONE", NULL)
        /\ UNCHANGED config /\ ok' = TRUE
    BY <1>3 DEF DropElement, Answer
  <2>2. LibraryStep
    BY <1>1, <2>1, SubtreeIsLive, RebuildIsLibraryStep
  <2>3. ValueStep
    BY <1>3, DropElementValues
  <2>4. {} \in SUBSET live'
    OBVIOUS
  <2> QED
    BY <2>1, <2>2, <2>3, <2>4, PassedKeeps
<1> QED
  BY <1>2, <1>3

LEMMA ChangingStepKeeps == ASSUME CxxInv, NEW s \in live, ChangingStep(s) PROVE CxxInv'
<1>1. IInv /\ TypeOK /\ ObjectsAreCurrent
  BY DEF CxxInv, ObjectInv, IInv
<1>2. ASSUME NEW path \in Paths, RemoveMember(s, path) PROVE CxxInv'
  <2>1. CASE CachedType(s) # "GROUP"
    BY <1>2, <2>1, ThrowKeeps DEF RemoveMember
  <2>2. CASE CachedType(s) = "GROUP"
    <3>1. ConfigSettingRemove(s, path) /\ Passed(s, "NotFound", {}) /\ Idle
      BY <1>2, <2>2 DEF RemoveMember
    <3>2. Refuse \/ \E q, i : DropElement(q, i)
      BY <3>1, Zenon DEF ConfigSettingRemove
    <3> QED
      BY <1>1, <3>1, <3>2, ConfigSettingRemoveKeeps, DropPasses
  <2> QED
    BY <2>1, <2>2
<1>3. ASSUME NEW idx \in ElemIdx \cap Nat, RemoveIndex(s, idx) PROVE CxxInv'
  <2>1. CASE CachedType(s) \notin Aggregates
    BY <1>3, <2>1, ThrowKeeps DEF RemoveIndex
  <2>2. CASE CachedType(s) \in Aggregates
    <3>1. ConfigSettingRemoveElem(s, idx) /\ Passed(s, "NotFound", {}) /\ Idle
      BY <1>3, <2>2 DEF RemoveIndex
    <3>2. Refuse \/ \E q, i : DropElement(q, i)
      BY <3>1, Zenon DEF ConfigSettingRemoveElem
    <3> QED
      BY <1>1, <3>1, <3>2, ConfigSettingRemoveElemKeeps, DropPasses
  <2> QED
    BY <2>1, <2>2
<1>4. ASSUME NEW n \in Names \cup {BadName}, NEW t, AddMember(s, n, t) PROVE CxxInv'
  <2>1. CASE CachedType(s) # "GROUP" \/ TypeCode(t) = "NONE"
    BY <1>4, <2>1, ThrowKeeps DEF AddMember
  <2>2. CASE ~(CachedType(s) # "GROUP" \/ TypeCode(t) = "NONE")
    <3>1. ConfigSettingAdd(s, n, TypeCode(t)) /\ Passed(s, "Name", {Last(kids'[s])}) /\ Idle
      BY <1>4, <2>2, Zenon DEF AddMember
    <3>2. ok' => {Last(kids'[s])} \in SUBSET live'
      BY <1>1, <3>1, AddedIsLive
    <3> QED
      BY <3>1, <3>2, AddPasses
  <2> QED
    BY <2>1, <2>2
<1>5. ASSUME NEW t, AddElement(s, t) PROVE CxxInv'
  <2> DEFINE first == IF CachedType(s) = "ARRAY" /\ kids[s] # <<>> THEN {kids[s][1]} ELSE {}
  <2>1. first \in SUBSET live
    <3>1. kids[s] # <<>> => 1 \in DOMAIN kids[s]
      BY <1>1, LenProperties, EmptySeq DEF TypeOK
    <3> QED
      BY <1>1, <3>1 DEF IInv, TreeOK, ElementsAreLive
  <2>2. CASE CachedType(s) \notin {"ARRAY", "LIST"}
    BY <1>5, <2>2, ThrowKeeps DEF AddElement
  <2>3. CASE CachedType(s) = "ARRAY" /\ ~ArrayTakes(s, t)
    <3>1. Wrap(Above(s) \cup first) /\ UNCHANGED <<todo, loop>> /\ Quiet
      BY <1>5, <2>3, Zenon DEF AddElement
    <3>2. Above(s) \cup first \in SUBSET live
      BY <2>1, AboveIsLive
    <3> HIDE DEF first
    <3> QED
      BY <3>1, <3>2, WrapKeepsAll
  <2>4. CASE CachedType(s) \in {"ARRAY", "LIST"} /\ ~(CachedType(s) = "ARRAY" /\ ~ArrayTakes(s, t))
    <3>1. /\ ConfigSettingAdd(s, NULL, TypeCode(t)) /\ Idle
          /\ Passed(s, "Name", first \cup {Last(kids'[s])})
      BY <1>5, <2>4, Zenon DEF AddElement
    <3>2. type[s] \in {"ARRAY", "LIST"}
      BY <1>1, <2>4, CachedIsType
    <3>3. GetMember(s, GivenName(s, NULL)) = NULL
      BY <3>2 DEF GetMember
    <3> HIDE DEF first
    <3>4. ok' => first \cup {Last(kids'[s])} \in SUBSET live'
      BY <1>1, <2>1, <3>1, <3>3, AddedIsLive
    <3> QED
      BY <3>1, <3>4, AddPasses
  <2> QED
    BY <2>2, <2>3, <2>4
<1> QED
  BY <1>2, <1>3, <1>4, <1>5, SetFormatKeeps, AssignKeeps DEF ChangingStep

-----------------------------------------------------------------------------
(* The rest of a call, and the steps of a loop.                            *)

LEMMA FinishKeeps == ASSUME CxxInv, Finish PROVE CxxInv'
<1>1. /\ todo.wrap \in SUBSET live /\ Wrap(todo.wrap) /\ todo' = Nothing
      /\ UNCHANGED loop /\ Quiet
  BY DEF Finish, CxxInv, CallInv
<1>2. UNCHANGED <<live, root, destructor, kids, defaultFormat, reading>>
  BY <1>1 DEF Wrap, config, Quiet
<1>3. ObjectInv'
  BY <1>1, <1>2, WrapKeeps DEF CxxInv
<1>4. CallInv'
  BY <1>1, <1>2 DEF CxxInv, CallInv, Nothing, Then
<1>5. LoopInv' /\ LoopsSeeEveryMember'
  BY <1>1, <1>2, LoopStays DEF CxxInv
<1> QED
  BY <1>3, <1>4, <1>5 DEF CxxInv

LEMMA EndLoopKeeps == ASSUME CxxInv, EndLoop PROVE CxxInv'
<1>1. /\ UNCHANGED <<vars, object, todo>> /\ UNCHANGED <<defaultFormat, reading>>
      /\ loop' = NULL
  BY DEF EndLoop
<1>2. LoopInv' /\ LoopsSeeEveryMember'
  BY <1>1 DEF LoopInv, LoopsSeeEveryMember
<1>3. defaultFormat' \in Formats \cup {"DEFAULT"}
  BY <1>1 DEF CxxInv, ObjectInv, ObjectTypeOK
<1> QED
  BY <1>1, <1>2, <1>3, QuietKeeps

(* What an index in the members finds.                                     *)
LEMMA MemberAt ==
  ASSUME IInv, NEW s \in live, NEW m \in Seq(Settings), IsPrefix(m, kids[s]),
         NEW i \in Nat, i < Len(m)
  PROVE  GetElem(s, i) = m[i + 1] /\ m[i + 1] \in live /\ m[i + 1] # NULL
<1>1. /\ s \in Settings /\ kids[s] \in Seq(Settings) /\ ElementsAreLive /\ NoDuplicates
      /\ live \subseteq Settings
  BY DEF IInv, TypeOK, TreeOK
<1> DEFINE len == Len(kids[s])
<1>2. len \in Nat /\ Len(m) \in Nat /\ i + 1 \in 1 .. Len(m)
  BY <1>1, LenProperties
<1>3. Len(m) <= len /\ m[i + 1] = kids[s][i + 1]
  <2>1. /\ Len(m) <= Len(kids[s])
        /\ SubSeq(m, 1, Len(m)) = SubSeq(kids[s], 1, Len(m))
    BY DEF IsPrefix
  <2>2. SubSeq(m, 1, Len(m))[i + 1] = m[i + 1]
    BY <1>2
  <2>3. SubSeq(kids[s], 1, Len(m))[i + 1] = kids[s][i + 1]
    BY <1>1, <1>2, <2>1
  <2> QED
    BY <2>1, <2>2, <2>3
<1>4. len <= Cardinality(Settings)
  <2>1. kids[s] \in Injection(1 .. Len(kids[s]), Settings)
    <3>1. kids[s] \in [1 .. Len(kids[s]) -> Settings]
      BY <1>1, LenProperties
    <3>2. \A a, b \in 1 .. Len(kids[s]) : kids[s][a] = kids[s][b] => a = b
      BY <1>1, LenProperties DEF NoDuplicates
    <3> QED
      BY <3>1, <3>2 DEF Injection, IsInjective
  <2>2. Cardinality(1 .. len) = len
    <3> HIDE DEF len
    <3> QED
      BY <1>2, FS_Interval
  <2> QED
    BY <2>1, <2>2, FS_Injection, HeapAssumption
<1>5. i % UintMod = i
  <2>1. Cardinality(Settings) \in Nat /\ Cardinality(Settings) <= UintMod
    BY HeapAssumption, FS_CardinalityType
  <2>2. i < UintMod /\ UintMod \in Nat
    <3> HIDE DEF len
    <3> QED
      BY <1>2, <1>3, <1>4, <2>1, SettingAssumption
  <2> QED
    BY <2>2, SmallMod
<1>6. GetElem(s, i) = kids[s][i + 1]
  BY <1>2, <1>3, <1>5 DEF GetElem
<1>7. kids[s][i + 1] \in live
  <2>1. i + 1 \in DOMAIN kids[s]
    BY <1>1, <1>2, <1>3, LenProperties
  <2> QED
    BY <1>1, <2>1 DEF ElementsAreLive
<1> QED
  BY <1>1, <1>3, <1>6, <1>7, SettingAssumption

(* One member more has been seen, on the way up and on the way down.       *)
LEMMA OneMoreUp ==
  ASSUME NEW m \in Seq(Settings), NEW i \in Nat, i < Len(m)
  PROVE  Append(SubSeq(m, 1, i), m[i + 1]) = SubSeq(m, 1, i + 1)
OBVIOUS

LEMMA OneMoreDown ==
  ASSUME NEW m \in Seq(Settings), NEW i \in Nat, i < Len(m)
  PROVE  Append(Reverse(SubSeq(m, i + 2, Len(m))), m[i + 1])
           = Reverse(SubSeq(m, i + 1, Len(m)))
<1> DEFINE p == SubSeq(m, i + 2, Len(m))
           q == SubSeq(m, i + 1, Len(m))
           k == Len(m) - i
<1>1. /\ Len(m) \in Nat /\ k \in Nat \ {0}
      /\ p \in Seq(Settings) /\ Len(p) = k - 1 /\ q \in Seq(Settings) /\ Len(q) = k
      /\ \A j \in 1 .. k - 1 : p[j] = m[i + 1 + j]
      /\ \A j \in 1 .. k : q[j] = m[i + j]
  BY LenProperties
<1> HIDE DEF p, q, k
<1>2. /\ Reverse(p) = [j \in 1 .. k - 1 |-> p[k - j]]
      /\ Reverse(q) = [j \in 1 .. k |-> q[k - j + 1]]
  BY <1>1 DEF Reverse
<1>3. Reverse(p) \in Seq(Settings) /\ Len(Reverse(p)) = k - 1 /\ m[i + 1] \in Settings
  BY <1>1, <1>2, LenProperties, SMTT(30)
<1>4. Reverse(q) \in Seq(Settings) /\ Len(Reverse(q)) = k
  BY <1>1, <1>2
<1>5. /\ Append(Reverse(p), m[i + 1]) \in Seq(Settings)
      /\ Len(Append(Reverse(p), m[i + 1])) = k
  BY <1>1, <1>3
<1>6. \A j \in 1 .. k : Append(Reverse(p), m[i + 1])[j] = Reverse(q)[j]
  <2> SUFFICES ASSUME NEW j \in 1 .. k
               PROVE  Append(Reverse(p), m[i + 1])[j] = Reverse(q)[j]
    OBVIOUS
  <2>1. CASE j = k
    <3>1. Append(Reverse(p), m[i + 1])[j] = m[i + 1]
      BY <1>1, <1>3, <2>1, AppendProperties
    <3>2. k - j + 1 = 1 /\ 1 \in 1 .. k
      BY <1>1, <2>1
    <3>3. Reverse(q)[j] = q[1] /\ q[1] = m[i + 1]
      BY <1>1, <1>2, <3>2
    <3> QED
      BY <3>1, <3>3
  <2>2. CASE j # k
    <3>1. j \in 1 .. k - 1 /\ k - j \in 1 .. k - 1 /\ k - j + 1 \in 1 .. k
          /\ i + 1 + (k - j) = i + (k - j + 1)
      BY <1>1, <2>2
    <3>2. Append(Reverse(p), m[i + 1])[j] = Reverse(p)[j]
      BY <1>1, <1>3, <3>1, AppendProperties
    <3>3. Reverse(p)[j] = p[k - j] /\ Reverse(q)[j] = q[k - j + 1]
      BY <1>2, <3>1
    <3>4. p[k - j] = m[i + 1 + (k - j)] /\ q[k - j + 1] = m[i + (k - j + 1)]
      BY <1>1, <3>1
    <3> QED
      BY <3>1, <3>2, <3>3, <3>4
  <2> QED
    BY <2>1, <2>2
<1>7. Append(Reverse(p), m[i + 1]) = Reverse(q)
  BY <1>4, <1>5, <1>6, SeqEqual
<1> QED
  BY <1>7 DEF p, q

LEMMA WrapEndsLoop ==
  ASSUME CxxInv, NEW W \in SUBSET live, Wrap(W), loop' = NULL, UNCHANGED todo, Quiet
  PROVE  CxxInv'
<1>1. UNCHANGED <<live, root, destructor, kids, defaultFormat, reading>>
  BY DEF Wrap, config, Quiet
<1>2. ObjectInv'
  BY <1>1, WrapKeeps DEF CxxInv
<1>3. CallInv'
  BY <1>1 DEF CxxInv, CallInv
<1>4. LoopInv' /\ LoopsSeeEveryMember'
  BY DEF LoopInv, LoopsSeeEveryMember
<1> QED
  BY <1>2, <1>3, <1>4 DEF CxxInv

LEMMA VisitKeeps == ASSUME CxxInv, Visit PROVE CxxInv'
<1> DEFINE it == Moved(loop, IF loop.up THEN 1 ELSE -1)
           at == IF loop.up THEN loop.idx ELSE it.idx
           element == GetElem(loop.of, at)
           m == loop.members
<1>1. /\ loop # NULL /\ loop \in LoopType /\ loop.of \in live
      /\ loop.idx <= Len(m) /\ loop.stop = (IF loop.up THEN Len(m) ELSE 0)
      /\ loop.intact => IsPrefix(m, kids[loop.of])
      /\ loop.idx # loop.stop
  BY DEF CxxInv, LoopInv, Visit
<1>2. /\ m \in Seq(Settings) /\ Len(m) \in Nat /\ loop.idx \in Nat /\ loop.seen \in Seq(Settings)
      /\ loop.up \in BOOLEAN /\ loop.intact \in BOOLEAN
  BY <1>1, LenProperties DEF LoopType
<1>3. /\ it.idx = loop.idx + (IF loop.up THEN 1 ELSE -1)
      /\ it = [loop EXCEPT !.idx = it.idx]
      /\ it.idx \in Nat /\ it.idx <= Len(m)
      /\ at \in Nat /\ at < Len(m)
  <2>1. it = [loop EXCEPT !.idx = loop.idx + (IF loop.up THEN 1 ELSE -1)]
    BY DEF Moved
  <2>2. it.idx = loop.idx + (IF loop.up THEN 1 ELSE -1)
    BY <1>1, <2>1 DEF LoopType
  <2>3. /\ loop.up => loop.idx < Len(m) /\ it.idx = loop.idx + 1
        /\ ~loop.up => loop.idx > 0 /\ it.idx = loop.idx - 1
    BY <1>1, <1>2, <2>2
  <2> HIDE DEF it
  <2> QED
    BY <1>1, <1>2, <2>1, <2>2, <2>3
<1>4. /\ it.of = loop.of /\ it.up = loop.up /\ it.stop = loop.stop /\ it.seen = loop.seen
      /\ it.members = m /\ it.intact = loop.intact /\ it \in LoopType
  <2> HIDE DEF it
  <2> QED
    BY <1>1, <1>3 DEF LoopType
<1>5. CASE element = NULL
  <2>1. Wrap(Above(loop.of)) /\ loop' = NULL /\ UNCHANGED todo /\ Quiet
    BY <1>5, Zenon DEF Visit
  <2> QED
    BY <2>1, AboveIsLive, WrapEndsLoop
<1>6. CASE element # NULL
  <2>1. /\ Wrap({element}) /\ UNCHANGED todo /\ Quiet
        /\ loop' = [it EXCEPT !.seen = Append(@, element)]
    BY <1>6, Zenon DEF Visit
  <2>2. element \in live /\ {element} \in SUBSET live /\ element \in Settings
    BY <1>1, <1>3, <1>6, FoundIsLive DEF CxxInv, ObjectInv, IInv, TypeOK
  <2> DEFINE seen == Append(loop.seen, element)
  <2>3. seen \in Seq(Settings) /\ loop' = [it EXCEPT !.seen = seen]
    <3>1. seen \in Seq(Settings)
      BY <1>2, <2>2
    <3> HIDE DEF element, it
    <3> QED
      BY <1>4, <2>1, <3>1
  <2>4. loop.intact /\ loop.up => seen = SubSeq(m, 1, it.idx)
    <3> SUFFICES ASSUME loop.intact, loop.up PROVE seen = SubSeq(m, 1, it.idx)
      OBVIOUS
    <3>1. loop.seen = SubSeq(m, 1, loop.idx)
      BY <1>1 DEF CxxInv, LoopsSeeEveryMember
    <3>2. loop.idx < Len(m) /\ it.idx = loop.idx + 1 /\ at = loop.idx
      BY <1>3
    <3>3. element = m[loop.idx + 1]
      BY <1>1, <1>2, <3>2, MemberAt DEF CxxInv, ObjectInv
    <3> HIDE DEF it, element, m, at
    <3> QED
      BY <1>2, <3>1, <3>2, <3>3, OneMoreUp DEF m
  <2>5. loop.intact /\ ~loop.up => seen = Reverse(SubSeq(m, it.idx + 1, Len(m)))
    <3> SUFFICES ASSUME loop.intact, ~loop.up
                 PROVE  seen = Reverse(SubSeq(m, it.idx + 1, Len(m)))
      OBVIOUS
    <3>1. loop.seen = Reverse(SubSeq(m, loop.idx + 1, Len(m)))
      BY <1>1 DEF CxxInv, LoopsSeeEveryMember
    <3>2. at = it.idx /\ loop.idx = it.idx + (-1) + 2 /\ loop.idx + 1 = at + 2
      BY <1>2, <1>3
    <3>3. element = m[at + 1]
      BY <1>1, <1>2, <1>3, MemberAt DEF CxxInv, ObjectInv
    <3>4. at \in Nat /\ at < Len(m) /\ m \in Seq(Settings)
      BY <1>2, <1>3
    <3> HIDE DEF it, element, m, at
    <3>5. Append(Reverse(SubSeq(m, at + 2, Len(m))), m[at + 1]) = Reverse(SubSeq(m, at + 1, Len(m)))
      BY <3>4, OneMoreDown
    <3> QED
      BY <3>1, <3>2, <3>3, <3>5 DEF m
  <2> HIDE DEF seen
  <2>6. /\ loop'.of = loop.of /\ loop'.up = loop.up /\ loop'.idx = it.idx
        /\ loop'.stop = loop.stop /\ loop'.seen = seen /\ loop'.members = m
        /\ loop'.intact = loop.intact /\ loop' \in LoopType
    <3> HIDE DEF it, m
    <3> QED
      BY <1>4, <2>3 DEF LoopType
  <2> HIDE DEF it, at, element, m
  <2>7. UNCHANGED <<live, root, destructor, kids, defaultFormat, reading>>
    BY <2>1 DEF Wrap, config, Quiet
  <2>8. ObjectInv'
    BY <2>1, <2>2, <2>7, WrapKeeps DEF CxxInv
  <2>9. CallInv'
    BY <2>1, <2>7 DEF CxxInv, CallInv
  <2>10. LoopInv'
    BY <1>1, <1>3, <2>6, <2>7 DEF LoopInv, m
  <2>11. LoopsSeeEveryMember'
    BY <2>4, <2>5, <2>6 DEF LoopsSeeEveryMember
  <2> QED
    BY <2>8, <2>9, <2>10, <2>11 DEF CxxInv
<1> QED
  BY <1>5, <1>6

-----------------------------------------------------------------------------
(* All runs.                                                               *)

LEMMA CxxInitEstablishes == CxxInit => CxxInv
<1> SUFFICES ASSUME CxxInit PROVE CxxInv
  OBVIOUS
<1>1. TypeOK
  <2>1. /\ live = {} /\ root = NULL
        /\ name \in [Settings -> Names \cup {NULL}]
        /\ type \in [Settings -> Types]
        /\ value \in [Settings -> Values]
        /\ format \in [Settings -> AllFormats]
    BY DEF CxxInit, Types, Values, AllFormats
  <2>2. /\ parent \in [Settings -> Settings \cup {NULL}]
        /\ hook \in [Settings -> Hooks \cup {NULL}]
        /\ kids \in [Settings -> Seq(Settings)]
        /\ opts = {} /\ destructor = FALSE /\ finalized = {} /\ ok = TRUE
    BY DEF CxxInit
  <2>3. \A s \in Settings : kids[s] = <<>> /\ hook[s] = NULL /\ parent[s] = NULL
    BY DEF CxxInit
  <2> QED
    BY <2>1, <2>2, <2>3 DEF TypeOK
<1>2. IInv
  BY <1>1 DEF CxxInit, IInv, TreeOK, ElementsAreLive, NoDuplicates, OnlyRootIsLoose,
     RootIsGroup, NothingLeaks
<1>3. HooksLiveOnce /\ ValuesFit
  BY DEF CxxInit, HooksLiveOnce, ValuesFit
<1>4. ObjectTypeOK /\ ObjectsAreCurrent
  BY DEF CxxInit, ObjectTypeOK, ObjectsAreCurrent
<1>5. CallInv /\ LoopInv /\ LoopsSeeEveryMember
  BY DEF CxxInit, CallInv, Nothing, Then, LoopInv, LoopsSeeEveryMember
<1> QED
  BY <1>2, <1>3, <1>4, <1>5 DEF CxxInv, ObjectInv

LEMMA CxxStepKeeps == CxxInv /\ [CxxNext]_allVars => CxxInv'
<1> SUFFICES ASSUME CxxInv, [CxxNext]_allVars PROVE CxxInv'
  OBVIOUS
<1>1. CASE UNCHANGED allVars
  <2>1. /\ UNCHANGED <<vars, object, todo>> /\ UNCHANGED <<defaultFormat, reading>>
        /\ UNCHANGED <<loop, live, kids>>
    BY <1>1 DEF allVars, cxxVars, vars
  <2> QED
    BY <2>1, QuietKeeps, LoopStays DEF CxxInv, ObjectInv, ObjectTypeOK
<1>2. CASE CxxNext
  BY <1>2, ConfigStepKeeps, FinishKeeps, VisitKeeps, EndLoopKeeps, ReadingStepKeeps,
     ChangingStepKeeps DEF CxxNext
<1> QED
  BY <1>1, <1>2

(* The invariant on which the theorems rest.                               *)
LEMMA CxxInvariance == CxxSpec => []CxxInv
BY CxxInitEstablishes, CxxStepKeeps, PTL DEF CxxSpec

(* Whatever methods a program calls, of whatever settings it has, and with *)
(* whatever references they return or paths they build to throw: the hooks *)
(* and the Setting objects correspond one to one, and an object knows its  *)
(* setting and the type of it.                                             *)
THEOREM ReferencesAreCurrent == CxxSpec => []ObjectsAreCurrent
<1>1. CxxInv => ObjectsAreCurrent
  BY DEF CxxInv, ObjectInv
<1> QED
  BY <1>1, CxxInvariance, PTL

(* The settings a Config holds are a tree, with nothing beside it, while   *)
(* the calls of the C++ classes are interleaved with loops and with the    *)
(* parts of a call after the C library has returned.                       *)
THEOREM ConfigsHoldATree == CxxSpec => [](TypeOK /\ TreeOK /\ NothingLeaks /\ HooksLiveOnce)
<1>1. CxxInv => TypeOK /\ TreeOK /\ NothingLeaks /\ HooksLiveOnce
  BY DEF CxxInv, ObjectInv, IInv
<1> QED
  BY <1>1, CxxInvariance, PTL

(* A loop has seen the members between its start and where it is, each     *)
(* once, in their order, whatever the program does in its body, up to the  *)
(* removal of a member.                                                    *)
THEOREM LoopsSeeAllMembers == CxxSpec => []LoopsSeeEveryMember
<1>1. CxxInv => LoopsSeeEveryMember
  BY DEF CxxInv
<1> QED
  BY <1>1, CxxInvariance, PTL

-----------------------------------------------------------------------------
(* Casts.                                                                  *)

(* A cast that asks for the type the setting has finds its value.          *)
LEMMA CastOfItsType ==
  ASSUME NEW s, NEW as \in {"INT", "INT64"}, type[s] = as, CachedType(s) = as, NEW range
  PROVE  Cast(s, as, range) =
           {IF value[s] \in range THEN Gives(value[s]) ELSE Throws("Range")}
<1>1. TypeAsserted(s, as)
  BY DEF TypeAsserted
<1>2. Get(as, s) = {value[s]}
  BY DEF Get, Got, GetInt, GetInt64
<1>3. GetOrZero(as, s) = {value[s]}
  BY <1>2 DEF GetOrZero
<1> QED
  BY <1>1, <1>3 DEF Cast

(* Ranges in which the same numbers of a setting lie make no difference.   *)
LEMMA CastsAgree ==
  ASSUME NEW v, NEW r1, NEW r2, v \in r1 <=> v \in r2
  PROVE  {IF v \in r1 THEN Gives(v) ELSE Throws("Range")}
           = {IF v \in r2 THEN Gives(v) ELSE Throws("Range")}
OBVIOUS

(* An int is in the range of an unsigned int when it is not negative.      *)
LEMMA IntInWidths ==
  ASSUME NEW v \in Int32
  PROVE  (v \in Nat <=> v \in 0 .. Uint32Max) /\ v \in Int64
<1>1. Int32Max \in Nat /\ Int64Max \in Nat /\ Int32Max <= Int64Max
  BY WidthAssumption
<1>2. v \in Int /\ v <= Int32Max /\ -(Int32Max + 1) <= v
  BY <1>1 DEF Int32
<1>3. Uint32Max = 2 * Int32Max + 1
  BY CxxAssumption
<1> QED
  BY <1>1, <1>2, <1>3 DEF Int64

(* A cast of an int or a long long setting to any integer type of C++      *)
(* gives the number or throws, in all widths: no sign or high half of a    *)
(* number is lost, through whichever accessor it is read.                  *)
THEOREM CastsAreExact == CxxSpec => []CastsKeepTheNumber
<1>1. CxxInv => CastsKeepTheNumber
  <2> SUFFICES ASSUME CxxInv, NEW s \in live, type[s] \in {"INT", "INT64"},
                      NEW t \in {"int", "unsigned", "long long", "unsigned long long"}
               PROVE  CastAs(s, t) =
                        {IF value[s] \in RangeOf(t) THEN Gives(value[s]) ELSE Throws("Range")}
    BY DEF CastsKeepTheNumber
  <2> DEFINE v == value[s]
             Outcome(range) == {IF v \in range THEN Gives(v) ELSE Throws("Range")}
  <2>1. CachedType(s) = type[s]
    BY CachedIsType DEF CxxInv, ObjectInv
  <2>2. v \in (IF type[s] = "INT" THEN Int32 ELSE Int64)
    BY DEF CxxInv, ObjectInv, ValuesFit, ValuesOf
  <2>3. \A range : Cast(s, type[s], range) = Outcome(range)
    BY <2>1, CastOfItsType
  <2>4. v \in Int32 => (v \in Nat <=> v \in 0 .. Uint32Max) /\ v \in Int64
    BY IntInWidths, Zenon
  <2> HIDE DEF v, Outcome
  <2>5. CASE t = "int"
    <3>1. CastAs(s, t) = CastInt(s) /\ RangeOf(t) = Int32
      BY <2>5, Zenon DEF CastAs, RangeOf
    <3>2. CastInt(s) = Outcome(Int32)
      BY <2>1, <2>3 DEF CastInt
    <3> QED
      BY <3>1, <3>2, Zenon DEF Outcome, v
  <2>6. CASE t = "unsigned"
    <3>1. CastAs(s, t) = CastUnsigned(s) /\ RangeOf(t) = 0 .. Uint32Max
      BY <2>6, Zenon DEF CastAs, RangeOf
    <3>2. CASE type[s] = "INT64"
      <4>1. CastUnsigned(s) = Outcome(0 .. Uint32Max)
        BY <2>1, <2>3, <3>2 DEF CastUnsigned
      <4> QED
        BY <3>1, <4>1, Zenon DEF Outcome, v
    <3>3. CASE type[s] = "INT"
      <4>1. CastUnsigned(s) = Outcome(Nat)
        BY <2>1, <2>3, <3>3 DEF CastUnsigned
      <4>2. Outcome(Nat) = Outcome(0 .. Uint32Max)
        BY <2>2, <2>4, <3>3, CastsAgree DEF Outcome
      <4> QED
        BY <3>1, <4>1, <4>2, Zenon DEF Outcome, v
    <3> QED
      BY <3>2, <3>3
  <2>7. CASE t = "long long"
    <3>1. CastAs(s, t) = CastLongLong(s) /\ RangeOf(t) = Int64
      BY <2>7, Zenon DEF CastAs, RangeOf
    <3>2. CASE type[s] = "INT64"
      <4>1. CastLongLong(s) = Outcome(Int64)
        BY <2>1, <2>3, <3>2 DEF CastLongLong
      <4> QED
        BY <3>1, <4>1, Zenon DEF Outcome, v
    <3>3. CASE type[s] = "INT"
      <4>1. CastLongLong(s) = Outcome(Int32)
        BY <2>1, <2>3, <3>3 DEF CastLongLong
      <4>2. Outcome(Int32) = Outcome(Int64)
        BY <2>2, <2>4, <3>3, CastsAgree DEF Outcome
      <4> QED
        BY <3>1, <4>1, <4>2, Zenon DEF Outcome, v
    <3> QED
      BY <3>2, <3>3
  <2>8. CASE t = "unsigned long long"
    <3>1. CastAs(s, t) = CastUnsignedLongLong(s) /\ RangeOf(t) = Nat
      BY <2>8, Zenon DEF CastAs, RangeOf
    <3>2. CastUnsignedLongLong(s) = Outcome(Nat)
      BY <2>1, <2>3 DEF CastUnsignedLongLong
    <3> QED
      BY <3>1, <3>2, Zenon DEF Outcome, v
  <2> QED
    BY <2>5, <2>6, <2>7, <2>8
<1> QED
  BY <1>1, CxxInvariance, PTL
=============================================================================
