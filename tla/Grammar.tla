------------------------------- MODULE Grammar -------------------------------
(***************************************************************************)
(* What the rules of lib/grammar.y promise of any parser for them: which   *)
(* tokens are accepted, and what is read ahead.  The parser is in the      *)
(* brackets `open' and expects something within the innermost of them.     *)
(*                                                                         *)
(* This is the abstract specification; Parser (the code of the rules) and  *)
(* Automaton (the tables and the loop generated by bison) implement it.    *)
(***************************************************************************)
EXTENDS Sequences

Sign(k) == [kind |-> k]
Start(t) == [kind |-> "START", of |-> t]
End(t) == [kind |-> "END", of |-> t]
NoToken == Sign("NONE")

Brackets == {"GROUP", "ARRAY", "LIST"}
PlainTokens ==
  {Sign(k) : k \in {"NAME", "EQUALS", "SCALAR", "STRING", "COMMA", "SEMICOLON",
                    "GARBAGE", "EOF"}}
    \cup {Start(t) : t \in Brackets} \cup {End(t) : t \in Brackets}

VARIABLES
  phase,   \* "idle", "reading", "accepted", "refused" (the text is not in the
           \* language) or "failed" (for any other reason)
  open,    \* the types of the brackets that are open, the innermost first
  expect,  \* what the rules allow next, within the innermost bracket
  look     \* a token that was read and not accepted yet, or NoToken

grammarVars == <<phase, open, expect, look>>

Enclosing == IF open = <<>> THEN "GROUP" ELSE Head(open)
ValueExpected == {"value", "first", "element"}
SettingExpected == {"setting", "terminator"}

StartsValue(tok) ==
  \/ tok.kind \in {"SCALAR", "STRING"}
  \/ tok.kind = "START" /\ Enclosing # "ARRAY"

(* The language: a setting is a name, "=", a value and a separator that may*)
(* be left out; in arrays and lists any number of commas follows a value.  *)
Allowed(tok) ==
  \/ tok.kind = "NAME" /\ expect \in SettingExpected
  \/ tok.kind = "EQUALS" /\ expect = "equals"
  \/ StartsValue(tok) /\ expect \in ValueExpected
  \/ tok.kind = "STRING" /\ expect = "string"
  \/ /\ tok.kind = "END" /\ open # <<>> /\ Enclosing = tok.of
     /\ \/ expect = "end"
        \/ expect \in IF tok.of = "GROUP" THEN SettingExpected
                      ELSE {"first", "element", "comma"}
  \/ tok.kind = "COMMA" /\ expect \in {"terminator", "comma", "element"}
  \/ tok.kind = "SEMICOLON" /\ expect = "terminator"
  \/ tok.kind = "EOF" /\ expect \in SettingExpected \cup {"end"} /\ open = <<>>

(* After a value that is complete within the bracket b.                    *)
AfterValue(b) == IF b = "GROUP" THEN "terminator" ELSE "comma"

OpenAfter(tok) ==
  IF tok.kind = "START" THEN <<tok.of>> \o open
  ELSE IF tok.kind = "END" THEN Tail(open)
  ELSE open

ExpectAfter(tok) ==
  CASE tok.kind = "NAME" -> "equals"
    [] tok.kind = "EQUALS" -> "value"
    [] tok.kind = "START" -> IF tok.of = "GROUP" THEN "setting" ELSE "first"
    [] tok.kind = "END" -> AfterValue(IF Len(open) = 1 THEN "GROUP" ELSE open[2])
    [] tok.kind = "SCALAR" -> AfterValue(Enclosing)
    [] tok.kind = "STRING" -> "string"
    [] tok.kind \in {"COMMA", "SEMICOLON"} ->
         IF expect = "terminator" \/ Enclosing = "GROUP" THEN "setting" ELSE "element"

-----------------------------------------------------------------------------
GrammarInit == phase = "idle"

Begin ==
  /\ phase # "reading"
  /\ phase' = "reading" /\ open' = <<>> /\ expect' = "setting" /\ look' = NoToken

(* Between two reads nothing is promised.                                  *)
Aside == phase # "reading" /\ phase' \in {phase, "idle"}

ReadAhead(tok) ==
  /\ phase = "reading" /\ look = NoToken
  /\ look' = tok
  /\ UNCHANGED <<phase, open, expect>>

Take(tok) ==
  /\ phase = "reading" /\ look \in {NoToken, tok}
  /\ Allowed(tok)
  /\ IF tok.kind = "EOF" THEN phase' = "accepted"
     ELSE /\ open' = OpenAfter(tok)
          /\ expect' = ExpectAfter(tok)
          /\ look' = NoToken
          /\ UNCHANGED phase

(* Adjacent strings are one value, so a string ends with the next token.   *)
EndString(tok) ==
  /\ phase = "reading" /\ expect = "string"
  /\ look \in {NoToken, tok} /\ tok.kind # "STRING"
  /\ look' = tok
  /\ expect' = AfterValue(Enclosing)
  /\ UNCHANGED <<phase, open>>

(* What was optional and does not come is left out.                        *)
LeaveOut ==
  /\ phase = "reading" /\ look # NoToken
  /\ \/ expect = "terminator" /\ look.kind \notin {"COMMA", "SEMICOLON"} /\ expect' = "setting"
     \/ expect = "setting" /\ look.kind # "NAME" /\ expect' = "end"
     \/ expect = "first" /\ ~StartsValue(look) /\ expect' = "end"
     \/ expect = "element" /\ ~StartsValue(look) /\ expect' = "comma"
     \/ expect = "comma" /\ look.kind # "COMMA" /\ expect' = "end"
  /\ UNCHANGED <<phase, open, look>>

(* A text is refused at a token the rules do not allow.                    *)
RefuseText(tok) ==
  /\ phase = "reading" /\ expect # "string"
  /\ look \in {NoToken, tok} /\ ~Allowed(tok)
  /\ phase' = "refused"

(* The code of a rule gives up, or the parser's stack is full.             *)
GiveUp == phase = "reading" /\ phase' = "failed"

GrammarNext ==
  \/ Begin \/ Aside \/ LeaveOut \/ GiveUp
  \/ \E tok \in PlainTokens :
       ReadAhead(tok) \/ Take(tok) \/ EndString(tok) \/ RefuseText(tok)

GrammarSpec == GrammarInit /\ [][GrammarNext]_grammarVars
=============================================================================
