---------------------------- MODULE SettingTree -----------------------------
(***************************************************************************)
(* The tree of settings of a config_t and the functions of lib/libconfig.c *)
(* that change it: adding and removing settings, storing scalars, formats, *)
(* hooks, options, and the creation and destruction of the whole.          *)
(*                                                                         *)
(* A setting is a heap cell.  The program allocates a cell that is not in  *)
(* use, so a cell that was freed may come back as another setting.  `live' *)
(* is the set of the cells that are allocated, and a cell that is not live *)
(* has blank contents.                                                     *)
(*                                                                         *)
(* One action is one call of the API with arguments the documentation      *)
(* allows: the settings passed are live ones.                              *)
(***************************************************************************)
EXTENDS ScalarValues, SequencesExt

CONSTANTS
  Settings,     \* the heap cells for config_setting_t: bounds the tree
  Names,        \* the names __config_validate_name() accepts
  BadName,      \* a name that it rejects
  SEP,          \* one of PATH_TOKENS, in a path
  BADIDX,       \* a '[' that is not followed by an integer and ']', in a path
  UintMod,      \* 2^32: an index is cut to an unsigned int
  Hooks,        \* the pointers the program attaches to settings
  AddTypes,     \* types passed to config_setting_add; "BAD" is out of range
  Paths,        \* paths passed to config_setting_remove: sequences of SEP,
                \* names, integers (an index "[n]") and BADIDX
  ElemIdx,      \* indices passed to the set_*_elem functions
  ScalarArgs,   \* for every scalar type, the values passed to its functions
  Formats,      \* formats passed to config_setting_set_format
  OptionSets,   \* options passed to config_set_options
  Destructors   \* whether config_set_destructor gets a function: BOOLEAN

ASSUME SettingAssumption ==
  /\ NULL \notin Settings
  /\ NULL \notin Hooks
  /\ Names \cap Int = {}
  /\ {SEP, BADIDX, NULL} \cap (Names \cup Int) = {}
  /\ UintMod \in Nat \ {0}
  /\ Paths \subseteq Seq({SEP, BADIDX, BadName} \cup Names \cup Int)
  /\ ElemIdx \subseteq Int
  /\ Destructors \subseteq BOOLEAN
  /\ \A t \in ScalarTypes : ScalarArgs[t] \subseteq ValuesOf(t)
  /\ OptionSets \subseteq SUBSET {"AUTOCONVERT", "ALLOW_OVERRIDES"}

(* The elements of a list are counted in an unsigned int.                  *)
ASSUME HeapAssumption ==
  IsFiniteSet(Settings) /\ Cardinality(Settings) <= UintMod

AllFormats == {"DEFAULT", "HEX", "BIN", "OCT"}

VARIABLES
  live,       \* the cells in use
  root,       \* config->root
  name, type, value, format, parent, hook,  \* the fields of each setting
  kids,       \* value.list of an aggregate: its elements, in order
  opts,       \* config->options, those that matter here
  destructor, \* config->destructor is set
  finalized,  \* the hooks that were passed to the destructor
  ok          \* what the last call returned

fields == <<name, type, value, format, parent, hook, kids>>
config == <<root, opts, destructor>>
vars == <<live, root, name, type, value, format, parent, hook, kids, opts,
          destructor, finalized, ok>>

-----------------------------------------------------------------------------
(* Looking settings up.                                                    *)

(* The position of the first element of s with the name n: 0 if none.      *)
Position(s, n) == SelectInSeq(kids[s], LAMBDA e : name[e] = n)

(* __config_list_search(); nothing is found under the null name.           *)
ListSearch(s, n) ==
  IF n # NULL /\ Position(s, n) # 0 THEN kids[s][Position(s, n)] ELSE NULL

GetMember(s, n) == IF type[s] = "GROUP" THEN ListSearch(s, n) ELSE NULL

(* config_setting_get_elem(), for an index that was a long or an int.      *)
GetElem(s, idx) ==
  LET i == idx % UintMod
  IN IF i < Len(kids[s]) THEN kids[s][i + 1] ELSE NULL

(* The end of the component of path that begins at i: the next separator.  *)
ComponentEnd(path, i) ==
  CHOOSE j \in i .. Len(path) + 1 :
    /\ j = Len(path) + 1 \/ path[j] = SEP
    /\ \A k \in i .. j - 1 : path[k] # SEP

(* A component can only match when it is a name and nothing else.          *)
ComponentName(path, i, j) ==
  IF j = i + 1 /\ path[i] \in Names THEN path[i] ELSE NULL

(***************************************************************************)
(* One turn of the loop of config_setting_lookup(), at the setting f and   *)
(* the i-th token of the path: where it goes on.  One separator at most is *)
(* skipped before a component, an index applies to every aggregate, and    *)
(* the walk stops at a setting that is not a group when a name is next.    *)
(***************************************************************************)
LookupTurn(path, i, f) ==
  LET j == IF path[i] = SEP THEN i + 1 ELSE i
      e == ComponentEnd(path, j)
      stop(found) == <<Len(path) + 1, found>>
  IN IF j <= Len(path) /\ path[j] \in Int THEN <<j + 1, GetElem(f, path[j])>>
     ELSE IF j <= Len(path) /\ path[j] = BADIDX THEN stop(NULL)
     ELSE IF type[f] = "GROUP" THEN <<e, ListSearch(f, ComponentName(path, j, e))>>
     ELSE stop(IF j > Len(path) THEN f ELSE NULL)

(* config_setting_lookup(): walk[<<i, f>>] is what is found from the       *)
(* setting f along the path from its i-th token.                           *)
Lookup(s, path) ==
  LET walk[at \in (1 .. Len(path) + 1) \X (Settings \cup {NULL})] ==
        IF at[1] > Len(path) THEN at[2]
        ELSE IF at[2] = NULL THEN NULL
        ELSE walk[LookupTurn(path, at[1], at[2])]
      found == walk[<<1, s>>]
  IN IF found = s THEN NULL ELSE found

(* The name config_setting_remove() looks for: what follows the last       *)
(* separator of the path.                                                  *)
LastName(path) ==
  LET i == SelectLastInSeq(path, LAMBDA tok : tok = SEP)
  IN ComponentName(path, i + 1, Len(path) + 1)

(* config_setting_index()                                                  *)
Index(s) ==
  IF parent[s] = NULL THEN -1
  ELSE SelectInSeq(kids[parent[s]], LAMBDA e : e = s) - 1

-----------------------------------------------------------------------------
(* Reading scalars: as in Got, no answer is a call that refuses.           *)

(* config_setting_get_int_safe() and its like; without _safe they answer 0 *)
(* or a null string for nothing.                                           *)
Get(as, s) == Got(as, type[s], value[s], "AUTOCONVERT" \in opts)
GetOrZero(as, s) == IF Get(as, s) = {} THEN {ZeroOf(as)} ELSE Get(as, s)

(* config_lookup_int() and its like, with a path from the root.            *)
LookupValue(as, path) ==
  IF Lookup(root, path) = NULL THEN {} ELSE Get(as, Lookup(root, path))

(* config_setting_lookup_int() and its like.                               *)
MemberValue(as, s, n) == IF GetMember(s, n) = NULL THEN {} ELSE Get(as, GetMember(s, n))

(* config_setting_get_int_elem() and its like.                             *)
ElemValue(as, s, idx) ==
  IF GetElem(s, idx) = NULL THEN {ZeroOf(as)} ELSE GetOrZero(as, GetElem(s, idx))

-----------------------------------------------------------------------------
(* Changing the tree.                                                      *)

(* The cells __config_setting_destroy(s) frees: the least set with s that  *)
(* holds the elements of its members.                                      *)
Closed(T) == \A y \in T : ToSet(kids[y]) \subseteq T
Subtree(s) == {x \in live : \A T \in SUBSET live : s \in T /\ Closed(T) => x \in T}

\* Mutant: the hook of a new setting is what the memory held before.
StaleHook(c) == hook[c]
(* The hook __config_setting_create() gives to the new setting c.          *)
CreatedHook(c) == NULL

\* Mutant: destroying an aggregate forgets its hook.
ScalarHooks(dead) == {hook[s] : s \in {x \in dead : type[x] \notin Aggregates}} \ {NULL}
(* The hooks __config_setting_destroy() finds.                             *)
HooksOf(dead) == {hook[s] : s \in dead} \ {NULL}

(***************************************************************************)
(* The heap after the cells `dead' were destroyed, the list of q became ks *)
(* and the cells `new' (one at most) were created as elements of q with    *)
(* the name n, the type t, the value v and the format f.  The destructor   *)
(* gets the hooks of the dead settings.                                    *)
(***************************************************************************)
Reshape(dead, q, ks, new, n, t, v, f) ==
  LET with(field, created, blank) ==
        [s \in Settings |-> IF s \in new THEN created
                            ELSE IF s \in dead THEN blank ELSE field[s]]
  IN /\ live' = (live \ dead) \cup new
     /\ name' = with(name, n, NULL)
     /\ type' = with(type, t, "NONE")
     /\ value' = with(value, v, NULL)
     /\ format' = with(format, f, "DEFAULT")
     /\ parent' = with(parent, q, NULL)
     /\ hook' = [s \in Settings |-> IF s \in new THEN CreatedHook(s)
                                    ELSE IF s \in dead THEN NULL ELSE hook[s]]
     /\ kids' = [s \in Settings |-> IF s \in new \cup dead THEN <<>>
                                    ELSE IF s = q THEN ks ELSE kids[s]]
     /\ finalized' = IF destructor THEN finalized \cup HooksOf(dead) ELSE finalized

(* The same with the format of a new setting.                              *)
Rebuild(dead, q, ks, new, n, t, v) == Reshape(dead, q, ks, new, n, t, v, "DEFAULT")

Unchanged == UNCHANGED <<live, fields, config, finalized>>

Answer(b) == ok' = b

(* A call that returns failure and has done nothing.                       *)
Refuse == Answer(FALSE) /\ Unchanged

-----------------------------------------------------------------------------
(* The life of the config_t.                                               *)

(* config_init() on memory the program has just got.                       *)
Init ==
  \E r \in Settings :
    /\ live = {r}
    /\ root = r
    /\ name = [s \in Settings |-> NULL]
    /\ type = [s \in Settings |-> IF s = r THEN "GROUP" ELSE "NONE"]
    /\ value = [s \in Settings |-> NULL]
    /\ format = [s \in Settings |-> "DEFAULT"]
    /\ parent = [s \in Settings |-> NULL]
    /\ hook = [s \in Settings |-> NULL]
    /\ kids = [s \in Settings |-> <<>>]
    /\ opts = {}
    /\ destructor = FALSE
    /\ finalized = {}
    /\ ok = TRUE

(* The old root is destroyed and a root without contents is made.          *)
NewRoot(dead) ==
  \E r \in Settings \ (live \ dead) :
    /\ Rebuild(dead, NULL, <<>>, {r}, NULL, "GROUP", NULL)
    /\ root' = r

(* config_init() on a config_t that was destroyed.                         *)
ConfigInit ==
  /\ root = NULL
  /\ NewRoot({})
  /\ opts' = {}
  /\ destructor' = FALSE
  /\ Answer(TRUE)

ConfigClear ==
  /\ root # NULL
  /\ NewRoot(Subtree(root))
  /\ UNCHANGED <<opts, destructor>>
  /\ Answer(TRUE)

\* Mutant: the root pointer is left as it was.
ConfigDestroyKeepingRoot ==
  /\ root # NULL
  /\ Rebuild(Subtree(root), NULL, <<>>, {}, NULL, "NONE", NULL)
  /\ UNCHANGED config
  /\ Answer(TRUE)

ConfigDestroy ==
  /\ root # NULL
  /\ Rebuild(Subtree(root), NULL, <<>>, {}, NULL, "NONE", NULL)
  /\ root' = NULL
  /\ opts' = {}
  /\ destructor' = FALSE
  /\ Answer(TRUE)

ConfigSetOptions(o) ==
  /\ root # NULL
  /\ opts' = o
  /\ UNCHANGED <<live, root, fields, destructor, finalized>>
  /\ Answer(TRUE)

ConfigSetDestructor(d) ==
  /\ root # NULL
  /\ destructor' = d
  /\ UNCHANGED <<live, root, fields, opts, finalized>>
  /\ Answer(TRUE)

-----------------------------------------------------------------------------
(* Adding and removing settings.                                           *)

\* Mutant: arrays and lists are mixed up.
CheckListType(s, t) ==
  \/ kids[s] = <<>>
  \/ type[s] = "ARRAY"
  \/ type[kids[s][1]] = t

(* __config_list_checktype()                                               *)
CheckType(s, t) ==
  \/ kids[s] = <<>>
  \/ type[s] = "LIST"
  \/ type[kids[s][1]] = t

\* Mutant: elements keep the name the program passed.
NameAsPassed(p, n) == n

(* Elements of arrays and lists have no names.                             *)
GivenName(p, n) == IF type[p] \in {"ARRAY", "LIST"} THEN NULL ELSE n

MayAdd(p, n, t) ==
  /\ t \in Types
  /\ type[p] = "ARRAY" => t \in ScalarTypes
  /\ GivenName(p, n) # BadName
  /\ GetMember(p, GivenName(p, n)) # NULL => "ALLOW_OVERRIDES" \in opts
  /\ type[p] \in Aggregates

\* Mutant: an overridden member is unlinked but not destroyed.
AddUnlinking(p, n, t) ==
  LET m == GivenName(p, n)
      old == GetMember(p, m)
      rest == IF old = NULL THEN kids[p] ELSE RemoveAt(kids[p], Position(p, m))
  IN IF MayAdd(p, n, t)
     THEN /\ \E c \in Settings \ live :
               Rebuild({}, p, Append(rest, c), {c}, m, t, ZeroOf(t))
          /\ UNCHANGED config
          /\ Answer(TRUE)
     ELSE Refuse

\* Mutant: a member of the same name is left where it is.
AddBesides(p, n, t) ==
  IF MayAdd(p, n, t)
  THEN /\ \E c \in Settings \ live :
            Rebuild({}, p, Append(kids[p], c), {c}, GivenName(p, n), t, ZeroOf(t))
       /\ UNCHANGED config
       /\ Answer(TRUE)
  ELSE Refuse

(* config_setting_add(): a member that has the name already is removed     *)
(* first when overrides are allowed.                                       *)
ConfigSettingAdd(p, n, t) ==
  LET m == GivenName(p, n)
      old == GetMember(p, m)
      dead == IF old = NULL THEN {} ELSE Subtree(old)
      rest == IF old = NULL THEN kids[p] ELSE RemoveAt(kids[p], Position(p, m))
  IN IF MayAdd(p, n, t)
     THEN /\ \E c \in Settings \ (live \ dead) :
               Rebuild(dead, p, Append(rest, c), {c}, m, t, ZeroOf(t))
          /\ UNCHANGED config
          /\ Answer(TRUE)
     ELSE Refuse

\* Mutant: the element is destroyed but stays in the list.
DestroyElement(q, i) ==
  /\ Rebuild(Subtree(kids[q][i]), q, kids[q], {}, NULL, "NONE", NULL)
  /\ UNCHANGED config
  /\ Answer(TRUE)

(* Takes the i-th element out of the list of q and destroys it.            *)
DropElement(q, i) ==
  /\ Rebuild(Subtree(kids[q][i]), q, RemoveAt(kids[q], i), {}, NULL, "NONE", NULL)
  /\ UNCHANGED config
  /\ Answer(TRUE)

\* Mutant: the second search is done in the setting the path starts from.
RemoveFromStart(p, path) ==
  LET found == IF type[p] = "GROUP" THEN Lookup(p, path) ELSE NULL
      n == LastName(path)
  IN IF found # NULL /\ ListSearch(p, n) # NULL
     THEN DropElement(p, Position(p, n))
     ELSE Refuse

(* config_setting_remove(): the path is looked up, then the last component *)
(* of the path is searched once more among the siblings of what was found. *)
ConfigSettingRemove(p, path) ==
  LET found == IF type[p] = "GROUP" THEN Lookup(p, path) ELSE NULL
      n == LastName(path)
  IN IF found # NULL /\ ListSearch(parent[found], n) # NULL
     THEN \E q \in live : \E i \in DOMAIN kids[q] :
            /\ q = parent[found]
            /\ i = Position(q, n)
            /\ DropElement(q, i)
     ELSE Refuse

ConfigSettingRemoveElem(p, idx) ==
  IF type[p] \in Aggregates /\ idx < Len(kids[p])
  THEN DropElement(p, idx + 1)
  ELSE Refuse

-----------------------------------------------------------------------------
(* Storing into settings.                                                  *)

(* s is left with the type and the value of the pair r.                    *)
Store(s, r) ==
  /\ type' = [type EXCEPT ![s] = r[1]]
  /\ value' = [value EXCEPT ![s] = r[2]]
  /\ UNCHANGED <<live, name, format, parent, hook, kids, config, finalized>>
  /\ Answer(TRUE)

(* config_setting_set_int(), _int64, _float, _bool and _string             *)
ConfigSettingSet(s, as, v) ==
  LET results == Stored(as, type[s], v, "AUTOCONVERT" \in opts)
  IN IF results # {} THEN \E r \in results : Store(s, r) ELSE Refuse

\* Mutant: the element is created before the types are compared.
AppendThenCheck(s, as, v) ==
  IF type[s] \in {"ARRAY", "LIST"}
  THEN /\ \E c \in Settings \ live :
            Rebuild({}, s, Append(kids[s], c), {c}, NULL, as, v)
       /\ UNCHANGED config
       /\ Answer(CheckType(s, as))
  ELSE Refuse

(* config_setting_set_int_elem() and the others, with a negative index: a  *)
(* new element, whose type an array checks against its first one.          *)
AppendElem(s, as, v) ==
  IF type[s] \in {"ARRAY", "LIST"} /\ CheckType(s, as)
  THEN /\ \E c \in Settings \ live :
            Rebuild({}, s, Append(kids[s], c), {c}, NULL, as, v)
       /\ UNCHANGED config
       /\ Answer(TRUE)
  ELSE Refuse

(* The same with an index: the element there is set.                       *)
ConfigSettingSetElem(s, idx, as, v) ==
  IF idx < 0 THEN AppendElem(s, as, v)
  ELSE IF type[s] \in {"ARRAY", "LIST"} /\ GetElem(s, idx) # NULL
  THEN ConfigSettingSet(GetElem(s, idx), as, v)
  ELSE Refuse

(* The formats config_setting_set_format() knows, for an integer.          *)
FormatsTaken == {"DEFAULT", "HEX", "BIN"}

ConfigSettingSetFormat(s, f) ==
  IF type[s] \in {"INT", "INT64"} /\ f \in FormatsTaken
  THEN /\ format' = [format EXCEPT ![s] = f]
       /\ UNCHANGED <<live, name, type, value, parent, hook, kids, config, finalized>>
       /\ Answer(TRUE)
  ELSE Refuse

(* config_setting_set_hook(), by a program that gives a setting its hook   *)
(* once, and gives no hook to two settings: the destructor frees them.     *)
ConfigSettingSetHook(s, h) ==
  /\ hook[s] = NULL
  /\ h \notin finalized
  /\ \A x \in Settings : hook[x] # h
  /\ hook' = [hook EXCEPT ![s] = h]
  /\ UNCHANGED <<live, name, type, value, format, parent, kids, config, finalized>>
  /\ Answer(TRUE)

-----------------------------------------------------------------------------
LifeStep ==
  \/ ConfigInit
  \/ ConfigClear
  \/ ConfigDestroy
  \/ \E o \in OptionSets : ConfigSetOptions(o)
  \/ \E d \in Destructors : ConfigSetDestructor(d)

SettingStep(s) ==
  \/ \E n \in Names \cup {NULL, BadName}, t \in AddTypes : ConfigSettingAdd(s, n, t)
  \/ \E path \in Paths : ConfigSettingRemove(s, path)
  \/ \E idx \in ElemIdx \cap Nat : ConfigSettingRemoveElem(s, idx)
  \/ \E as \in ScalarTypes : \E v \in ScalarArgs[as] : ConfigSettingSet(s, as, v)
  \/ \E idx \in ElemIdx, as \in ScalarTypes : \E v \in ScalarArgs[as] :
       ConfigSettingSetElem(s, idx, as, v)
  \/ \E f \in Formats : ConfigSettingSetFormat(s, f)
  \/ \E h \in Hooks : ConfigSettingSetHook(s, h)

Next == LifeStep \/ \E s \in live : SettingStep(s)

Spec == Init /\ [][Next]_vars

-----------------------------------------------------------------------------
(* Correctness.                                                            *)

(* Every variable has its type, and a cell not in use is blank.            *)
TypeOK ==
  /\ live \in SUBSET Settings
  /\ root \in live \cup {NULL}
  /\ name \in [Settings -> Names \cup {NULL}]
  /\ type \in [Settings -> Types]
  /\ value \in [Settings -> Values]
  /\ format \in [Settings -> AllFormats]
  /\ parent \in [Settings -> Settings \cup {NULL}]
  /\ hook \in [Settings -> Hooks \cup {NULL}]
  /\ kids \in [Settings -> Seq(Settings)]
  /\ opts \in SUBSET {"AUTOCONVERT", "ALLOW_OVERRIDES"}
  /\ destructor \in BOOLEAN
  /\ finalized \in SUBSET Hooks
  /\ ok \in BOOLEAN
  /\ \A s \in Settings \ live :
       kids[s] = <<>> /\ hook[s] = NULL /\ parent[s] = NULL

(* The lists and the parent pointers describe one tree below the root:     *)
(* whatever is added, overridden and removed, no list keeps a setting that *)
(* was freed, no setting is in two places, and each one's parent is the    *)
(* setting that lists it (config_setting_parent, config_setting_index).    *)
ElementsAreLive == \A s \in live : \A i \in DOMAIN kids[s] :
  kids[s][i] \in live /\ parent[kids[s][i]] = s
NoDuplicates == \A s \in live : \A i, j \in DOMAIN kids[s] :
  kids[s][i] = kids[s][j] => i = j
OnlyRootIsLoose ==
  \A s \in live : IF s = root THEN parent[s] = NULL
                  ELSE parent[s] \in live /\ s \in ToSet(kids[parent[s]])
RootIsGroup == IF root = NULL THEN live = {} ELSE type[root] = "GROUP"
TreeOK == ElementsAreLive /\ NoDuplicates /\ OnlyRootIsLoose /\ RootIsGroup

(* Everything allocated hangs below the root, so that destroying the root  *)
(* frees it: no operation leaks a setting or an override's old subtree.    *)
NothingLeaks == root # NULL => live = Subtree(root)

(* Elements live in aggregates only; members of groups only carry names,   *)
(* no two of them the same; arrays hold scalars.  Lookup by name and the   *)
(* written form of the configuration rest on it.                           *)
ShapeOK ==
  \A s \in live :
    /\ kids[s] # <<>> => type[s] \in Aggregates
    /\ \A i, j \in DOMAIN kids[s] :
         /\ name[kids[s][i]] # NULL => type[s] = "GROUP"
         /\ name[kids[s][i]] = name[kids[s][j]] /\ i # j => name[kids[s][i]] = NULL
         /\ type[s] = "ARRAY" => type[kids[s][i]] \in ScalarTypes

(* Through every conversion and every sequence of stores, a setting holds  *)
(* a value of its type, and only integers have a format of their own.      *)
ValuesFit ==
  \A s \in live : /\ value[s] \in ValuesOf(type[s])
                  /\ format[s] # "DEFAULT" => type[s] \in {"INT", "INT64"}

(* No setting holds a hook that the destructor was given already, and no   *)
(* two settings hold the same one: nothing is finalized twice.             *)
HooksLiveOnce ==
  \A s \in live : hook[s] # NULL =>
    /\ hook[s] \notin finalized
    /\ \A x \in live : hook[x] = hook[s] => x = s

(* The path that leads to s from the root, as the C++ class's getPath()    *)
(* writes it: names for named members, indices for the rest.               *)
PathTo(s) ==
  LET step(x) == IF name[x] # NULL THEN name[x]
                 ELSE Index(x)
      path[x \in live] == IF x = root THEN <<>>
                          ELSE IF parent[x] = root THEN <<step(x)>>
                          ELSE path[parent[x]] \o <<SEP, step(x)>>
  IN path[s]

(* Every setting is found under its own path, so that no sequence of adds, *)
(* overrides and removals makes one unreachable or shadows it.             *)
EverySettingIsFound ==
  \A s \in live \ {root} : Lookup(root, PathTo(s)) = s

(* An array holds elements of one type.                                    *)
ArraysAreHomogeneous ==
  \A s \in live : type[s] = "ARRAY" =>
    \A i, j \in DOMAIN kids[s] : type[kids[s][i]] = type[kids[s][j]]

-----------------------------------------------------------------------------
(* What a step may do.                                                     *)

(* A call that fails leaves the configuration as it was: no failing path   *)
(* of an add or a set has created, removed or retyped anything.            *)
FailureIsClean == [][~ok' => Unchanged]_vars

(* When config_setting_remove() succeeds, it has freed the setting the     *)
(* path leads to, with all below it, and nothing else, although it finds   *)
(* the setting it removes by a second search.                              *)
RemovesWhatLookupFinds ==
  [][ok' /\ live' # live => \A p \in live, path \in Paths :
       ConfigSettingRemove(p, path) => live' = live \ Subtree(Lookup(p, path))]_vars

(* The hooks of settings that go away go to the destructor, whichever way  *)
(* they go, as long as one is installed.                                   *)
NoHookIsLost ==
  [][destructor => \A s \in live : hook[s] # NULL =>
       hook[s] \in finalized' \cup {hook'[x] : x \in live'}]_vars
(* A number in halves, and whether a type can hold it.                     *)
Halves(as, v) == IF as = "FLOAT" THEN v ELSE 2 * v
Holds(t, h) ==
  t = "FLOAT" \/ ((h % 2) = 0 /\ h \div 2 \in (IF t = "INT" THEN Int32 ELSE Int64))

(* Nothing of v is lost in a setting of type t.                            *)
StoredExactly(as, v, t) ==
  IF t = "FLOAT" /\ as # "FLOAT" THEN -FloatExact <= v /\ v <= FloatExact
  ELSE IF t \in NumberTypes THEN Holds(t, Halves(as, v)) ELSE TRUE

(* What the functions that read the setting s answer.                      *)
Answers(as, s) ==
  {Get(as, s), LookupValue(as, PathTo(s))} \cup
    (IF name[s] # NULL THEN {MemberValue(as, parent[s], name[s])} ELSE {})

(* A scalar that a setting took is read back, by every function that       *)
(* reads: with the accessor it was stored with, the same value; with       *)
(* another, the same number where that type has it, and between integers   *)
(* of the two widths an answer exactly when it has.                        *)
StoredIsReadBack ==
  [][\A s \in live \ {root}, as \in ScalarTypes : \A v \in ScalarArgs[as] :
       ConfigSettingSet(s, as, v) /\ ok' /\ StoredExactly(as, v, type'[s]) =>
         /\ Answers(as, s)' = {{v}}
         /\ name[s] = NULL => ElemValue(as, parent[s], Index(s))' = {v}
         /\ as \in NumberTypes => \A bs \in NumberTypes : \A got \in Answers(bs, s)' :
              /\ Holds(bs, Halves(as, v)) => \A r \in got : Halves(bs, r) = Halves(as, v)
              /\ "FLOAT" \notin {bs, type'[s]} => (got # {} <=> Holds(bs, Halves(as, v)))]_vars
=============================================================================
