----------------------------- MODULE CxxWrapper ------------------------------
(***************************************************************************)
(* The C++ classes Config and Setting of lib/libconfigcpp.c++ over the     *)
(* tree of settings.  A Setting object is made for a setting when the      *)
(* program first gets a reference to it, is kept in the setting's hook,    *)
(* caches the type and the format, and is deleted by the destructor that   *)
(* the Config installs in its config_t.                                    *)
(*                                                                         *)
(* The program calls methods of settings it has references to, and drops   *)
(* the references to settings that go away.  A method that throws builds   *)
(* the path of the setting for the exception, which makes objects for the  *)
(* settings above it.                                                      *)
(***************************************************************************)
EXTENDS SettingTree

CONSTANTS
  Uint32Max,   \* UINT32_MAX
  AddedTypes,  \* types of the settings the program adds
  Casts,       \* the C++ types that the program asks for
  LoopKinds    \* whether an iteration goes up: BOOLEAN

ASSUME CxxAssumption ==
  /\ Uint32Max = 2 * Int32Max + 1
  /\ AddedTypes \subseteq Types \cup {"BAD"}
  /\ Casts \subseteq {"bool", "int", "unsigned", "long long", "unsigned long long",
                    "double", "string"}
  /\ LoopKinds \subseteq BOOLEAN

(* A Setting object: its setting, _type and _format.                       *)
SettingObject == [setting : Settings, type : Types, format : AllFormats \cup Formats]

ASSUME ObjectAssumption == NULL \notin SettingObject

VARIABLES
  object,         \* the Setting objects, or NULL
  defaultFormat,  \* config->default_format
  reading,        \* the C library reads a text
  todo,           \* what the call in progress does after the C library returned
  thrown,         \* the exception of the last call, or NULL
  loop            \* an iteration over the members of a setting, or NULL

cxxVars == <<object, defaultFormat, reading, todo, thrown, loop>>
allVars == <<vars, cxxVars>>

(* What is left of a call: settings to wrap, an exception to throw.        *)
Then(W, e) == [wrap |-> W, exception |-> e]
Nothing == Then({}, NULL)

-----------------------------------------------------------------------------
(* Setting objects.                                                        *)

Referenced(s) == s \in live /\ hook[s] # NULL
FreshObjects == Hooks \ (finalized \cup {hook[s] : s \in live})

(* config_setting_get_format()                                             *)
FormatOf(s) == IF format[s] # "DEFAULT" THEN format[s] ELSE defaultFormat

(* Setting::Setting()                                                      *)
NewObject(s) == [setting |-> s, type |-> type[s], format |-> FormatOf(s)]

(* __toTypeCode(): a number that is no Type becomes "NONE".                *)
TypeCode(t) == IF t \in Types THEN t ELSE "NONE"

(* _type                                                                   *)
CachedType(s) == IF hook[s] = NULL THEN type[s] ELSE object[hook[s]].type

\* Mutant: an object is made for every reference.
UnwrappedAlways(W) == W
(* The settings of W that have no object yet.                              *)
Unwrapped(W) == {s \in W : hook[s] = NULL}

(* wrapSetting() of every setting in W.                                    *)
Wrap(W) ==
  \E made \in [Unwrapped(W) -> FreshObjects] :
    /\ \A s, x \in Unwrapped(W) : made[s] = made[x] => s = x
    /\ hook' = [s \in Settings |-> IF s \in Unwrapped(W) THEN made[s] ELSE hook[s]]
    /\ object' = [h \in Hooks |->
                    IF \E s \in Unwrapped(W) : made[s] = h
                    THEN NewObject(CHOOSE s \in Unwrapped(W) : made[s] = h)
                    ELSE object[h]]
    /\ UNCHANGED <<live, config, name, type, value, format, parent, kids, finalized>>
    /\ ok' = TRUE

(* ConfigDestructor() deletes the objects of the settings that went away.  *)
Deleted == object' = [h \in Hooks |-> IF h \in finalized' THEN NULL ELSE object[h]]

(* __constructPath() takes the parents of s one by one.                    *)
Above(s) == {x \in live \ {s} : s \in Subtree(x)}

(* An iteration goes on while its setting is there.                        *)
LoopKept ==
  \/ loop = NULL /\ loop' = NULL
  \/ /\ loop # NULL
     /\ loop.of \in live' /\ hook'[loop.of] = hook[loop.of]
     /\ loop' = [loop EXCEPT !.intact = @ /\ IsPrefix(loop.members, kids'[loop.of])]

(* The last conjuncts of every method: it returns, or throws e after       *)
(* building the path of s.                                                 *)
Idle == todo = Nothing /\ ~reading
Quiet == UNCHANGED <<defaultFormat, reading>>
Return(W) == Wrap(W) /\ thrown' = NULL /\ UNCHANGED <<todo, loop>> /\ Quiet
Throw(s, e) == Wrap(Above(s)) /\ thrown' = e /\ UNCHANGED <<todo, loop>> /\ Quiet

-----------------------------------------------------------------------------
(* Class Config.                                                           *)

CxxInit ==
  /\ live = {} /\ root = NULL
  /\ name = [s \in Settings |-> NULL] /\ type = [s \in Settings |-> "NONE"]
  /\ value = [s \in Settings |-> NULL] /\ format = [s \in Settings |-> "DEFAULT"]
  /\ parent = [s \in Settings |-> NULL] /\ hook = [s \in Settings |-> NULL]
  /\ kids = [s \in Settings |-> <<>>]
  /\ opts = {} /\ destructor = FALSE /\ finalized = {} /\ ok = TRUE
  /\ object = [h \in Hooks |-> NULL]
  /\ defaultFormat = "DEFAULT" /\ reading = FALSE
  /\ todo = Nothing /\ thrown = NULL /\ loop = NULL

(* A call that only passes on to the C library.                            *)
Plain == Deleted /\ LoopKept /\ thrown' = NULL /\ UNCHANGED todo

Construct ==
  /\ Idle /\ root = NULL
  /\ NewRoot({}) /\ opts' = {} /\ destructor' = TRUE /\ ok' = TRUE
  /\ defaultFormat' = "DEFAULT"
  /\ Plain /\ UNCHANGED reading

Destruct == Idle /\ ConfigDestroy /\ Plain /\ Quiet

Clear == Idle /\ ConfigClear /\ Plain /\ Quiet

SetOptions(o) == Idle /\ ConfigSetOptions(o) /\ Plain /\ Quiet

SetDefaultFormat(f) ==
  /\ Idle /\ root # NULL
  /\ defaultFormat' = f
  /\ UNCHANGED <<vars, object, todo, loop, reading>> /\ thrown' = NULL

(* read() and its like: the C library clears the configuration and builds  *)
(* a new one, without objects.                                             *)
Read == Idle /\ ConfigClear /\ Plain /\ reading' = TRUE /\ UNCHANGED defaultFormat

ReadSetting(p, n, t) ==
  /\ reading
  /\ (type[p] = "ARRAY" => CheckType(p, t)) = TRUE
  /\ ConfigSettingAdd(p, n, t) /\ ok'
  /\ Plain /\ Quiet

(* handleError() when the text was wrong.                                  *)
EndRead(e) ==
  /\ reading /\ reading' = FALSE
  /\ thrown' = e
  /\ UNCHANGED <<vars, object, defaultFormat, todo, loop>>

GetRoot == Idle /\ root # NULL /\ Return({root})

-----------------------------------------------------------------------------
(* Casts: the outcomes are values or exceptions.                           *)

Gives(v) == [value |-> v, exception |-> NULL]
Throws(e) == [value |-> NULL, exception |-> e]

(* assertType()                                                            *)
TypeAsserted(s, as) ==
  \/ as = CachedType(s)
  \/ {as, CachedType(s)} \subseteq NumberTypes /\ "AUTOCONVERT" \in opts

(* A value from the setting, if its type can be asserted, in a range.      *)
Cast(s, as, range) ==
  IF ~TypeAsserted(s, as) THEN {Throws("Type")}
  ELSE {IF v \in range THEN Gives(v) ELSE Throws("Range") : v \in GetOrZero(as, s)}

CastInt(s) ==
  IF CachedType(s) = "INT64" THEN Cast(s, "INT64", Int32) ELSE Cast(s, "INT", Int32)

\* Mutant: a negative int is taken as it is.
CastUnsignedAnyInt(s) ==
  IF CachedType(s) = "INT64" THEN Cast(s, "INT64", 0 .. Uint32Max) ELSE Cast(s, "INT", Int32)
CastUnsigned(s) ==
  IF CachedType(s) = "INT64" THEN Cast(s, "INT64", 0 .. Uint32Max) ELSE Cast(s, "INT", Nat)

CastLongLong(s) ==
  IF CachedType(s) = "INT" THEN Cast(s, "INT", Int32) ELSE Cast(s, "INT64", Int64)

CastUnsignedLongLong(s) ==
  IF CachedType(s) = "INT" THEN Cast(s, "INT", Nat) ELSE Cast(s, "INT64", Nat)

CastAs(s, t) ==
  CASE t = "int" -> CastInt(s)
    [] t = "unsigned" -> CastUnsigned(s)
    [] t = "long long" -> CastLongLong(s)
    [] t = "unsigned long long" -> CastUnsignedLongLong(s)
    [] t = "bool" -> Cast(s, "BOOL", Values)
    [] t = "double" -> Cast(s, "FLOAT", Values)
    [] t = "string" -> Cast(s, "STRING", Values)

(* A cast operator on a reference.                                         *)
CastSetting(s, t) ==
  /\ Idle /\ Referenced(s)
  /\ \E r \in CastAs(s, t) :
       IF r.exception = NULL THEN Return({}) ELSE Throw(s, r.exception)

(* lookupValue(): the exceptions are caught, their objects stay.           *)
Looked(found, above, t) ==
  IF found = NULL THEN Return(above)
  ELSE \E r \in CastAs(found, t) :
         Return({found} \cup IF r.exception = NULL THEN {} ELSE Above(found))

ConfigLookupValue(path, t) ==
  Idle /\ root # NULL /\ Looked(Lookup(root, path), {}, t)

-----------------------------------------------------------------------------
(* Class Setting.                                                          *)

ConfigLookup(path) ==
  /\ Idle /\ root # NULL
  /\ LET found == Lookup(root, path)
     IN IF found = NULL
        THEN /\ thrown' = "NotFound"
             /\ UNCHANGED <<vars, object, todo, loop, defaultFormat, reading>>
        ELSE Return({found})

(* Setting::lookup()                                                       *)
SettingLookup(s, path) ==
  /\ Idle /\ Referenced(s)
  /\ IF CachedType(s) # "GROUP" THEN Throw(s, "Type")
     ELSE IF Lookup(s, path) = NULL THEN Throw(s, "NotFound")
     ELSE Return({Lookup(s, path)})

(* operator[] with a name, and lookupValue().                              *)
Member(s, n) ==
  /\ Idle /\ Referenced(s)
  /\ IF CachedType(s) # "GROUP" THEN Throw(s, "Type")
     ELSE IF GetMember(s, n) = NULL THEN Throw(s, "NotFound")
     ELSE Return({GetMember(s, n)})

SettingLookupValue(s, n, t) ==
  /\ Idle /\ Referenced(s)
  /\ Looked(IF CachedType(s) = "GROUP" THEN GetMember(s, n) ELSE NULL, Above(s), t)

(* operator[] with an index.                                               *)
Element(s, idx) ==
  /\ Idle /\ Referenced(s)
  /\ IF CachedType(s) \notin Aggregates THEN Throw(s, "Type")
     ELSE IF GetElem(s, idx) = NULL THEN Throw(s, "NotFound")
     ELSE Return({GetElem(s, idx)})

GetParent(s) == Idle /\ Referenced(s) /\ s # root /\ Return({parent[s]})

GetPath(s) == Idle /\ Referenced(s) /\ Return(Above(s))

SetFormat(s, f) ==
  /\ Idle /\ Referenced(s)
  /\ LET g == IF CachedType(s) \in {"INT", "INT64"} THEN f ELSE "DEFAULT"
     IN /\ ConfigSettingSetFormat(s, g)
        /\ object' = [object EXCEPT ![hook[s]].format = g]
  /\ thrown' = NULL /\ UNCHANGED <<todo, loop>> /\ Quiet

(* The assignment operators: nobody looks at what the C library returns.   *)
Assign(s, as, v) ==
  /\ Idle /\ Referenced(s)
  /\ IF TypeAsserted(s, as)
     THEN ConfigSettingSet(s, as, v) /\ Plain /\ Quiet
     ELSE Throw(s, "Type")

(* What comes after the call of the C library: an exception if it failed.  *)
(* The objects suffice for the rest of the call: a bound.                  *)
Passed(s, e, returned) ==
  /\ Deleted /\ LoopKept /\ thrown' = NULL
  /\ todo' = IF ok' THEN Then(returned, NULL) ELSE Then(Above(s), e)
  /\ Cardinality({x \in todo'.wrap : hook'[x] = NULL}) <= Cardinality(FreshObjects')
  /\ Quiet

RemoveMember(s, path) ==
  /\ Idle /\ Referenced(s)
  /\ IF CachedType(s) # "GROUP" THEN Throw(s, "Type")
     ELSE ConfigSettingRemove(s, path) /\ Passed(s, "NotFound", {})

RemoveIndex(s, idx) ==
  /\ Idle /\ Referenced(s)
  /\ IF CachedType(s) \notin Aggregates THEN Throw(s, "Type")
     ELSE ConfigSettingRemoveElem(s, idx) /\ Passed(s, "NotFound", {})

(* add() with a name.                                                      *)
AddMember(s, n, t) ==
  /\ Idle /\ Referenced(s)
  /\ IF CachedType(s) # "GROUP" \/ TypeCode(t) = "NONE" THEN Throw(s, "Type")
     ELSE ConfigSettingAdd(s, n, TypeCode(t)) /\ Passed(s, "Name", {Last(kids'[s])})

(* What an array takes.                                                    *)
ArrayTakes(s, t) ==
  IF kids[s] # <<>> THEN t = CachedType(kids[s][1]) ELSE t \in ScalarTypes

(* add() without a name.  An array gets a reference to its first element   *)
(* for the comparison; the new element is assigned the value that it has.  *)
AddElement(s, t) ==
  LET first == IF CachedType(s) = "ARRAY" /\ kids[s] # <<>> THEN {kids[s][1]} ELSE {}
  IN /\ Idle /\ Referenced(s)
     /\ IF CachedType(s) \notin {"ARRAY", "LIST"} THEN Throw(s, "Type")
        ELSE IF CachedType(s) = "ARRAY" /\ ~ArrayTakes(s, t)
        THEN Wrap(Above(s) \cup first) /\ thrown' = "Type" /\ UNCHANGED <<todo, loop>> /\ Quiet
        ELSE ConfigSettingAdd(s, NULL, TypeCode(t)) /\ Passed(s, "Name", first \cup {Last(kids'[s])})

(* The rest of a method after the call of the C library.                   *)
Finish ==
  /\ todo # Nothing /\ todo' = Nothing
  /\ Wrap(todo.wrap) /\ thrown' = todo.exception
  /\ UNCHANGED loop /\ Quiet

-----------------------------------------------------------------------------
(* Iterators: the program goes from begin() to end(), or back, and may     *)
(* call other methods in the body of the loop.                             *)

\* Mutant: the end is one before the last member.
CountShort(s) == IF kids[s] = <<>> THEN 0 ELSE Len(kids[s]) - 1
(* _count, and _idx of end()                                               *)
Count(s) == Len(kids[s])

Begin(s, up) ==
  /\ Idle /\ Referenced(s) /\ loop = NULL
  /\ IF CachedType(s) \notin Aggregates THEN Throw(s, "Type")
     ELSE /\ loop' = [of |-> s, up |-> up, idx |-> IF up THEN 0 ELSE Count(s),
                      stop |-> IF up THEN Count(s) ELSE 0,
                      seen |-> <<>>, members |-> kids[s], intact |-> TRUE]
          /\ UNCHANGED <<vars, object, defaultFormat, reading, todo>> /\ thrown' = NULL

(* ++ and --                                                               *)
Moved(it, offset) == [it EXCEPT !.idx = @ + offset]

(* *it++ or *--it                                                          *)
Visit ==
  /\ Idle /\ loop # NULL /\ loop.idx # loop.stop
  /\ LET it == Moved(loop, IF loop.up THEN 1 ELSE -1)
         element == GetElem(loop.of, IF loop.up THEN loop.idx ELSE it.idx)
     IN IF element = NULL
        THEN Wrap(Above(loop.of)) /\ thrown' = "NotFound" /\ loop' = NULL
        ELSE Wrap({element}) /\ thrown' = NULL /\ loop' = [it EXCEPT !.seen = Append(@, element)]
  /\ UNCHANGED todo /\ Quiet

EndLoop ==
  /\ Idle /\ loop # NULL /\ loop.idx = loop.stop
  /\ loop' = NULL
  /\ UNCHANGED <<vars, object, defaultFormat, reading, todo>> /\ thrown' = NULL

-----------------------------------------------------------------------------
ConfigStep ==
  \/ Construct \/ Destruct \/ Clear \/ Read \/ GetRoot
  \/ \E o \in OptionSets : SetOptions(o)
  \/ \E f \in Formats : SetDefaultFormat(f)
  \/ \E p \in live, n \in Names \cup {NULL}, t \in AddedTypes : ReadSetting(p, n, t)
  \/ \E e \in {NULL, "Parse"} : EndRead(e)
  \/ \E path \in Paths : ConfigLookup(path) \/ \E t \in Casts : ConfigLookupValue(path, t)

ReadingStep(s) ==
  \/ \E t \in Casts : CastSetting(s, t)
  \/ \E path \in Paths : SettingLookup(s, path)
  \/ \E n \in Names : Member(s, n) \/ \E t \in Casts : SettingLookupValue(s, n, t)
  \/ \E idx \in ElemIdx : Element(s, idx)
  \/ GetParent(s) \/ GetPath(s)
  \/ \E up \in LoopKinds : Begin(s, up)

ChangingStep(s) ==
  \/ \E f \in Formats : SetFormat(s, f)
  \/ \E as \in ScalarTypes : \E v \in ScalarArgs[as] : Assign(s, as, v)
  \/ \E path \in Paths : RemoveMember(s, path)
  \/ \E idx \in ElemIdx \cap Nat : RemoveIndex(s, idx)
  \/ \E n \in Names \cup {BadName}, t \in AddedTypes : AddMember(s, n, t)
  \/ \E t \in AddedTypes : AddElement(s, t)

CxxNext ==
  \/ ConfigStep \/ Finish \/ Visit \/ EndLoop
  \/ \E s \in live : ReadingStep(s) \/ ChangingStep(s)

CxxSpec == CxxInit /\ [][CxxNext]_allVars

-----------------------------------------------------------------------------
(* Correctness.                                                            *)

(* A reference leads to the object of a live setting, with the type the    *)
(* setting has; every object belongs to one live setting, so that none is  *)
(* leaked, deleted twice, or left behind by a setting that went away.      *)
ObjectsAreCurrent ==
  /\ \A s \in live : hook[s] # NULL =>
       LET o == object[hook[s]]
       IN o # NULL /\ o.setting = s /\ o.type = type[s]
  /\ \A h \in Hooks : object[h] # NULL =>
       object[h].setting \in live /\ hook[object[h].setting] = h

(* The integers a cast has.                                                *)
RangeOf(t) ==
  CASE t = "int" -> Int32 [] t = "unsigned" -> 0 .. Uint32Max
    [] t = "long long" -> Int64 [] t = "unsigned long long" -> Nat

(* A cast to an integer type gives the number that an integer setting      *)
(* holds or throws: a Range exception exactly when the type does not have  *)
(* the number, the widths and the signs being what they may.               *)
CastsKeepTheNumber ==
  \A s \in live : type[s] \in {"INT", "INT64"} =>
    \A t \in {"int", "unsigned", "long long", "unsigned long long"} :
      CastAs(s, t) = {IF value[s] \in RangeOf(t) THEN Gives(value[s]) ELSE Throws("Range")}

(* A loop over the members of a setting has seen those from where it began *)
(* to where it is, each once, in order, even if members are appended in    *)
(* its body.                                                               *)
LoopsSeeEveryMember ==
  loop # NULL /\ loop.intact =>
    loop.seen = IF loop.up THEN SubSeq(loop.members, 1, loop.idx)
                ELSE Reverse(SubSeq(loop.members, loop.idx + 1, Len(loop.members)))

=============================================================================
