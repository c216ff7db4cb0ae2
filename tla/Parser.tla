------------------------------- MODULE Parser -------------------------------
(***************************************************************************)
(* The parser of lib/grammar.y building a tree of settings, and the writer *)
(* of lib/libconfig.c (__config_write_value, __config_write_setting).      *)
(*                                                                         *)
(* A text is a sequence of tokens.  One action is one token shifted, with  *)
(* the reductions it causes and their code; only the end of a string needs *)
(* the token after it, so that reduction is an action of its own, which    *)
(* leaves that token in `look'.  `open' and `expect' stand for the stack   *)
(* of bison's automaton.  Every token is on a line of its own.             *)
(***************************************************************************)
EXTENDS SettingTree

CONSTANTS
  Tokens,       \* what the scanner may find in a file
  MaxTokens,    \* bound: tokens in a file
  EmptyString,  \* ""
  Joined        \* Joined[s, t]: the text of the string s followed by t

(* What libconfig_yylex() returns, with the value of the token: only an    *)
(* integer has a format.                                                   *)
TokensOf(kind, t, values, formats) ==
  [kind : {kind}, type : {t}, value : values, format : formats]

AllTokens ==
  [kind : {"EQUALS", "COMMA", "SEMICOLON", "GARBAGE"}]
    \cup [kind : {"NAME"}, name : Names]
    \cup [kind : {"START", "END"}, of : Aggregates]
    \cup TokensOf("SCALAR", "BOOL", {0, 1}, {"DEFAULT"})
    \cup TokensOf("SCALAR", "INT", Int32, AllFormats)
    \cup TokensOf("SCALAR", "INT64", Int64, AllFormats)
    \cup TokensOf("SCALAR", "FLOAT", Int, {"DEFAULT"})
    \cup TokensOf("STRING", "STRING", Strings, {"DEFAULT"})

ASSUME ParserAssumption ==
  /\ MaxTokens \in Nat
  /\ EmptyString \in Strings
  /\ Joined \in [Strings \X Strings -> Strings]
  /\ NULL \notin Names \cup Strings \cup AllTokens \cup {BadName, [kind |-> "EOF"]}
  /\ BadName \notin Names
  /\ Tokens \subseteq AllTokens
  /\ 1 \in Int32

VARIABLES
  phase,       \* "reading", how the read ended ("accepted", "refused" by
               \* the grammar, "failed" by the code of a rule), or "idle"
               \* when another call came after it
  ctxParent, ctxSetting,  \* ctx->parent, ctx->setting
  ctxString,   \* ctx->string: NULL when nothing was appended
  open,        \* the types of the brackets that are open, the innermost first
  expect,      \* what the grammar allows next
  look,        \* a token read ahead, or NULL
  text,        \* the tokens shifted in this read
  written,     \* the text config_write() made that is read, NULL for another
  place        \* setting->line: the token at which the scanner was, 0 for none

(* The token the grammar sees.                                             *)
PlainToken(tok) ==
  IF tok = NULL THEN [kind |-> "NONE"]
  ELSE IF tok.kind \in {"START", "END"} THEN [kind |-> tok.kind, of |-> tok.of]
  ELSE [kind |-> tok.kind]

(* Sign, Start, End, Allowed, Enclosing, AfterValue, and what a parser for *)
(* the grammar promises.                                                   *)
INSTANCE Grammar WITH look <- PlainToken(look)

Name(n) == [kind |-> "NAME", name |-> n]
Scalar(t, v, f) == [kind |-> "SCALAR", type |-> t, value |-> v, format |-> f]
Quoted(v) == [Scalar("STRING", v, "DEFAULT") EXCEPT !.kind = "STRING"]

context == <<ctxParent, ctxSetting, ctxString>>
stack == <<open, expect>>
input == <<look, text, written>>
parserVars == <<vars, phase, context, stack, input, place>>

-----------------------------------------------------------------------------
(* Writing.                                                                *)

\* Mutant: no comma between the elements of a list.
NoSeparator(x, i) == <<>>
(* What follows the i-th element of a list or an array.                    *)
ElementSeparator(x, i) == IF i < Len(kids[x]) THEN <<Sign("COMMA")>> ELSE <<>>

(* __config_write_value() of a setting without elements.                   *)
ScalarText(x) ==
  IF type[x] = "STRING" THEN <<Quoted(IF value[x] = NULL THEN EmptyString ELSE value[x])>>
  ELSE IF type[x] = "BOOL" THEN <<Scalar("BOOL", IF value[x] = 0 THEN 0 ELSE 1, "DEFAULT")>>
  ELSE IF type[x] = "NONE" THEN <<Sign("GARBAGE")>>
  ELSE <<Scalar(type[x], value[x], format[x])>>

(* The same of a list or an array, whose elements have the texts items.    *)
ListText(x, items) ==
  <<Start(type[x])>>
    \o FlattenSeq([i \in DOMAIN items |-> items[i] \o ElementSeparator(x, i)])
    \o <<End(type[x])>>

(* __config_write_setting() of a setting x that has the text item.         *)
SettingText(x, item, semicolons) ==
  (IF name[x] # NULL THEN <<Name(name[x]), Sign("EQUALS")>> ELSE <<>>) \o item
    \o (IF semicolons THEN <<Sign("SEMICOLON")>> ELSE <<>>)

(* __config_write_value() of a group.                                      *)
GroupText(x, items, semicolons) ==
  <<Start("GROUP")>>
    \o FlattenSeq([i \in DOMAIN items |-> SettingText(kids[x][i], items[i], semicolons)])
    \o <<End("GROUP")>>

(* config_write(): the root's value without the braces of other groups.    *)
ConfigWrite(semicolons) ==
  LET texts[x \in live] ==
        LET items == [i \in DOMAIN kids[x] |-> texts[kids[x][i]]]
        IN IF type[x] \in {"ARRAY", "LIST"} THEN ListText(x, items)
           ELSE IF type[x] = "GROUP" THEN GroupText(x, items, semicolons)
           ELSE ScalarText(x)
  IN SubSeq(texts[root], 2, Len(texts[root]) - 1)

-----------------------------------------------------------------------------
(* Beginning and ending a read.                                            *)

ParserInit ==
  /\ Init
  /\ phase = "idle"
  /\ ctxParent = NULL /\ ctxSetting = NULL /\ ctxString = NULL
  /\ open = <<>> /\ expect = "setting"
  /\ look = NULL /\ text = <<>> /\ written = NULL
  /\ place = [s \in Settings |-> 0]

(* __config_read() up to the parser: a text w that was written before, or  *)
(* one that is not known (NULL).                                           *)
StartRead(w) ==
  /\ phase # "reading"
  /\ ConfigClear
  /\ phase' = "reading"
  /\ ctxParent' = root' /\ ctxSetting' = root' /\ ctxString' = NULL
  /\ open' = <<>> /\ expect' = "setting"
  /\ look' = NULL /\ text' = <<>> /\ written' = w
  /\ place' = [s \in Settings |-> 0]

(* What was read is written and read again.                                *)
ReadAgain ==
  /\ phase = "accepted"
  /\ \E semicolons \in BOOLEAN : StartRead(ConfigWrite(semicolons))

ChangeOptions ==
  /\ phase # "reading"
  /\ \E o \in OptionSets : ConfigSetOptions(o)
  /\ phase' = "idle"
  /\ UNCHANGED <<context, stack, input, place>>

(* Bound: when every cell is in use, a text has no further settings.       *)
Creates(tok) ==
  \/ tok.kind = "NAME"
  \/ Enclosing # "GROUP" /\ tok.kind \in {"START", "SCALAR", "STRING"}

(* The token that was read ahead, or what the scanner may find.            *)
NextTokens ==
  IF look # NULL THEN {look}
  ELSE IF written # NULL
  THEN {IF Len(text) < Len(written) THEN written[Len(text) + 1] ELSE Sign("EOF")}
  ELSE {Sign("EOF")} \cup
       {tok \in Tokens : Len(text) < MaxTokens /\ (live = Settings => ~Creates(tok))}

Shift(tok) ==
  /\ phase = "reading"
  /\ tok \in NextTokens
  /\ look' = NULL
  /\ text' = Append(text, tok)
  /\ UNCHANGED written

(* The scanner is behind this token, shifted now or read ahead.            *)
Here == Len(text) + 1

\* Mutant: the line is the one of the token before.
CaptureBefore(S) ==
  place' = [s \in Settings |-> IF s \in S THEN Len(text)
                               ELSE IF s \in live' THEN place[s] ELSE 0]

(* capture_parse_pos() for the settings S; a setting that goes has no line.*)
Capture(S) ==
  place' = [s \in Settings |-> IF s \in S THEN Here
                               ELSE IF s \in live' THEN place[s] ELSE 0]

(* The parser returns.                                                     *)
Return(how) ==
  /\ phase' = how
  /\ UNCHANGED stack

-----------------------------------------------------------------------------
(* Settings, arrays, lists and groups.                                     *)

InArray == ctxParent # NULL /\ type[ctxParent] = "ARRAY"
InList == ctxParent # NULL /\ type[ctxParent] = "LIST"

(* The name of a setting: it is added without a type.                      *)
ParseName(tok) ==
  /\ Shift(tok) /\ Allowed(tok) /\ tok.kind = "NAME"
  /\ ConfigSettingAdd(ctxParent, tok.name, "NONE")
  /\ UNCHANGED <<ctxParent, ctxString>>
  /\ IF ok'
     THEN /\ ctxSetting' = Last(kids'[ctxParent])
          /\ Capture({ctxSetting'})
          /\ expect' = "equals"
          /\ UNCHANGED <<phase, open>>
     ELSE ctxSetting' = NULL /\ Capture({}) /\ Return("failed")

ParseEquals(tok) ==
  /\ Shift(tok) /\ Allowed(tok) /\ tok.kind = "EQUALS"
  /\ expect' = "value"
  /\ UNCHANGED <<vars, phase, context, open, place>>

(* Within a list an aggregate is a new element; elsewhere it is what the   *)
(* setting that was named becomes.                                         *)
ParseStart(tok) ==
  /\ Shift(tok) /\ Allowed(tok) /\ tok.kind = "START"
  /\ IF InList
     THEN /\ ConfigSettingAdd(ctxParent, NULL, tok.of)
          /\ ctxParent' = Last(kids'[ctxParent])
          /\ Capture({ctxParent'})
          /\ UNCHANGED ctxSetting
     ELSE /\ type' = [type EXCEPT ![ctxSetting] = tok.of]
          /\ ctxParent' = ctxSetting
          /\ ctxSetting' = NULL
          /\ UNCHANGED <<live, name, value, format, parent, hook, kids, config,
                         finalized, ok, place>>
  /\ open' = <<tok.of>> \o open
  /\ expect' = IF tok.of = "GROUP" THEN "setting" ELSE "first"
  /\ UNCHANGED <<phase, ctxString>>

\* Mutant: the end of an aggregate leaves the parent where it is.
ParseEndInside(tok) ==
  /\ Shift(tok) /\ Allowed(tok) /\ tok.kind = "END"
  /\ open' = Tail(open)
  /\ expect' = AfterValue(Enclosing')
  /\ UNCHANGED <<vars, phase, context, place>>

ParseEnd(tok) ==
  /\ Shift(tok) /\ Allowed(tok) /\ tok.kind = "END"
  /\ ctxParent' = IF ctxParent = NULL THEN NULL ELSE parent[ctxParent]
  /\ open' = Tail(open)
  /\ expect' = AfterValue(Enclosing')
  /\ UNCHANGED <<vars, phase, ctxSetting, ctxString, place>>

\* Mutant: after the comma an element must follow.
ParseOneSeparator(tok) ==
  /\ Shift(tok) /\ Allowed(tok) /\ tok.kind \in {"COMMA", "SEMICOLON"}
  /\ expect' = IF expect = "terminator" THEN "setting" ELSE "value"
  /\ UNCHANGED <<vars, phase, context, open, place>>

(* Any number of commas may follow an element, one separator a setting.    *)
ParseSeparator(tok) ==
  /\ Shift(tok) /\ Allowed(tok) /\ tok.kind \in {"COMMA", "SEMICOLON"}
  /\ expect' = IF expect = "terminator" THEN "setting" ELSE "element"
  /\ UNCHANGED <<vars, phase, context, open, place>>

-----------------------------------------------------------------------------
(* Scalars.                                                                *)

(* The format after config_setting_set_format() with that of the token,    *)
(* which is called for integers and whose failure is ignored.              *)
FormatAfter(tok, old) ==
  IF tok.type \in {"INT", "INT64"} /\ tok.format \in FormatsTaken
  THEN tok.format ELSE old

\* Mutant: the type of a new element is not checked.
AppendUnchecked(tok) ==
  /\ \E c \in Settings \ live :
       Reshape({}, ctxParent, Append(kids[ctxParent], c), {c}, NULL,
               tok.type, tok.value, FormatAfter(tok, "DEFAULT"))
  /\ UNCHANGED config
  /\ Answer(TRUE)

(* config_setting_set_int_elem() and the others on the open array or list. *)
AppendValue(tok) ==
  IF CheckType(ctxParent, tok.type)
  THEN /\ \E c \in Settings \ live :
            Reshape({}, ctxParent, Append(kids[ctxParent], c), {c}, NULL,
                    tok.type, tok.value, FormatAfter(tok, "DEFAULT"))
       /\ UNCHANGED config
       /\ Answer(TRUE)
  ELSE Refuse

(* config_setting_set_int() and the others on the setting that was named.  *)
AssignValue(tok) ==
  LET results == Stored(tok.type, type[ctxSetting], tok.value,
                        "AUTOCONVERT" \in opts)
  IN IF results # {}
     THEN \E r \in results :
            /\ type' = [type EXCEPT ![ctxSetting] = r[1]]
            /\ value' = [value EXCEPT ![ctxSetting] = r[2]]
            /\ format' = [format EXCEPT ![ctxSetting] = FormatAfter(tok, @)]
            /\ UNCHANGED <<live, name, parent, hook, kids, config, finalized>>
            /\ Answer(TRUE)
     ELSE Refuse

(* A simple_value.                                                         *)
StoreValue(tok) ==
  /\ IF InArray \/ InList THEN AppendValue(tok) ELSE AssignValue(tok)
  /\ IF (InArray \/ InList) /\ ~ok'
     THEN Capture({}) /\ Return("failed")
     ELSE /\ Capture(IF InArray \/ InList THEN {Last(kids'[ctxParent])} ELSE {})
          /\ expect' = AfterValue(Enclosing)
          /\ UNCHANGED <<phase, open>>
  /\ UNCHANGED <<ctxParent, ctxSetting>>

ParseScalar(tok) ==
  /\ Shift(tok) /\ Allowed(tok) /\ tok.kind = "SCALAR"
  /\ StoreValue(tok)
  /\ UNCHANGED ctxString

(* Adjacent strings are put together.                                      *)
ParseString(tok) ==
  /\ Shift(tok) /\ Allowed(tok) /\ tok.kind = "STRING"
  /\ ctxString' = IF ctxString = NULL THEN tok.value
                  ELSE Joined[<<ctxString, tok.value>>]
  /\ expect' = "string"
  /\ UNCHANGED <<vars, phase, ctxParent, ctxSetting, open, place>>

\* Mutant: the string stays in the context and the next one is added to it.
TakeStringLeavingIt ==
  /\ phase = "reading" /\ expect = "string" /\ look = NULL
  /\ \E tok \in NextTokens : tok.kind # "STRING" /\ look' = tok
  /\ StoreValue(Quoted(ctxString))
  /\ UNCHANGED <<ctxString, text, written>>

(* A token that is no string ends one, after it was read.                  *)
TakeString ==
  /\ phase = "reading" /\ expect = "string" /\ look = NULL
  /\ \E tok \in NextTokens : tok.kind # "STRING" /\ look' = tok
  /\ StoreValue(Quoted(ctxString))
  /\ ctxString' = NULL
  /\ UNCHANGED <<text, written>>

-----------------------------------------------------------------------------
(* The end: of the text, or at a token the grammar does not allow, when a  *)
(* string that was not taken is dropped (libconfig_parsectx_cleanup).      *)
ParseEof(tok) ==
  /\ Shift(tok) /\ Allowed(tok) /\ tok.kind = "EOF"
  /\ Return("accepted")
  /\ UNCHANGED <<vars, context, place>>

ParseError(tok) ==
  /\ Shift(tok) /\ ~Allowed(tok) /\ expect # "string"
  /\ Return("refused")
  /\ ctxString' = NULL
  /\ UNCHANGED <<vars, ctxParent, ctxSetting, place>>

ParserStep ==
  \/ \E tok \in NextTokens :
       \/ ParseName(tok) \/ ParseEquals(tok) \/ ParseStart(tok) \/ ParseEnd(tok)
       \/ ParseSeparator(tok) \/ ParseScalar(tok) \/ ParseString(tok)
       \/ ParseEof(tok) \/ ParseError(tok)
  \/ TakeString

ParserNext == StartRead(NULL) \/ ReadAgain \/ ChangeOptions \/ ParserStep

ParserSpec == ParserInit /\ [][ParserNext]_parserVars

-----------------------------------------------------------------------------
(* Correctness.                                                            *)

(* The settings from ctx->parent up to the root are the aggregates whose   *)
(* brackets are open, although the parser finds its way back by the parent *)
(* pointers alone; and where a value is due, the setting it is for is a    *)
(* fresh member of ctx->parent.                                            *)
LeadsToRoot(up) ==
  /\ up[1] = ctxParent
  /\ \A i \in DOMAIN open : type[up[i]] = open[i] /\ parent[up[i]] = up[i + 1]
  /\ up[Len(open) + 1] = root

ParentIsOpen ==
  phase = "reading" =>
    /\ \E up \in [1 .. Len(open) + 1 -> live] : LeadsToRoot(up)
    /\ expect \in {"equals", "value"} =>
         /\ ctxSetting = Last(kids[ctxParent])
         /\ type[ctxSetting] = "NONE" /\ name[ctxSetting] # NULL

(* Wherever a text stops to be legal, what was built so far is a tree in   *)
(* which the program may go on: nothing leaked, names and values where     *)
(* they belong, arrays of one type, and the parser is where the brackets   *)
(* say it is.                                                              *)
PartialTreeIsLegal ==
  /\ TreeOK /\ NothingLeaks /\ ShapeOK /\ ValuesFit /\ ArraysAreHomogeneous
  /\ ParentIsOpen
  /\ phase # "reading" => ctxString = NULL

(* The parser takes, refuses and reads ahead as the grammar says, so that  *)
(* what holds here of a token and the code that goes with it holds of the  *)
(* automaton that was generated.                                           *)
FollowsTheGrammar == GrammarSpec

(* A text without what leaves no trace in the tree: separators, the borders*)
(* of adjacent strings, and that an integer was octal.                     *)
EssenceWith(sofar, before, tok) ==
  IF tok.kind \in {"COMMA", "SEMICOLON", "EOF"} THEN sofar
  ELSE IF tok.kind = "STRING" /\ before = "STRING"
  THEN Append(Front(sofar), Quoted(Joined[Last(sofar).value, tok.value]))
  ELSE IF tok.kind = "SCALAR" /\ tok.format = "OCT"
  THEN Append(sofar, [tok EXCEPT !.format = "DEFAULT"])
  ELSE Append(sofar, tok)

KindOf(toks, n) == IF n \in DOMAIN toks THEN toks[n].kind ELSE "NONE"

Essence(toks) ==
  LET essence[n \in 0 .. Len(toks)] ==
        IF n = 0 THEN <<>>
        ELSE EssenceWith(essence[n - 1], KindOf(toks, n - 1), toks[n])
  IN essence[Len(toks)]

(* A tree that was read whole is the tree of its text: written, it gives   *)
(* the same names, brackets and values in the same order.                  *)
TreeIsTheText ==
  phase = "accepted" /\ "ALLOW_OVERRIDES" \notin opts =>
    Essence(ConfigWrite(TRUE)) = Essence(text)

(* What config_write() writes of a configuration that was read is read     *)
(* again without error, with separators or without, and gives the same.    *)
WrittenIsReadAgain ==
  written # NULL =>
    /\ phase \notin {"refused", "failed"}
    /\ phase = "accepted" => Essence(ConfigWrite(TRUE)) = Essence(written)

(* The token at the line of a setting is the setting's own: its name, the  *)
(* value of an element, the bracket of an aggregate in a list.             *)
OwnToken(s) ==
  LET seen == IF look = NULL THEN text ELSE Append(text, look)
      tok == seen[place[s]]
  IN /\ place[s] \in DOMAIN seen
     /\ IF name[s] # NULL THEN tok = Name(name[s])
        ELSE IF type[s] \in Aggregates THEN tok = Start(type[s])
        ELSE tok.kind \in {"SCALAR", "STRING"} /\ tok.type = type[s]

(* config_setting_source_line() gives such a line for every setting but an *)
(* element that is a string.                                               *)
LinesAreTheirOwn ==
  \A s \in live \ {root} : type[s] # "STRING" => OwnToken(s)
===============================================================================
