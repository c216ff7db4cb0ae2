------------------------------ MODULE Automaton ------------------------------
(***************************************************************************)
(* The parser that bison generates from lib/grammar.y: the tables and the  *)
(* loop of yyparse() in lib/grammar.c, with its stacks, which grow, the    *)
(* look-ahead token, and the strings that the scanner allocates for it.    *)
(*                                                                         *)
(* One action is one turn of the loop: a token read, a token shifted, a    *)
(* rule reduced, the stacks enlarged, or the end.  What the code of a rule *)
(* does to the configuration is in Parser; here it may abort, and it frees *)
(* the string it was given.                                                *)
(***************************************************************************)
EXTENDS Integers, Sequences, SequencesExt

CONSTANTS
  InitDepth,  \* YYINITDEPTH: 200
  MaxDepth,   \* YYMAXDEPTH: 10000
  Cells,      \* memory for the strings of TOK_STRING tokens
  GARBAGE     \* a value that nobody wrote, or no pointer

ASSUME DepthAssumption ==
  /\ InitDepth \in Nat /\ MaxDepth \in Nat
  /\ 4 <= InitDepth /\ InitDepth <= MaxDepth
ASSUME GARBAGE \notin Cells

-----------------------------------------------------------------------------
(* The tables.  Symbols are numbered as in enum yysymbol_kind_t: tokens up *)
(* to 26, then the left-hand sides of rules.                               *)
FINAL == 6
LAST == 50
NTOKENS == 27
NINF == -19
EMPTY == -2

TOK_STRING == 13
Eof == 0
Symbols == {Eof} \cup 3 .. 26   \* what yylex() returns

(* Index into table of the portion of a state.                             *)
yypact == <<
  4, -19, 19, 4, -19, 6, -19, -19, -2, -19, -19, -19, -19, -19, -19, -19,
  -19, -19, -19, -19, -19, -19, -19, -19, -19, -8, 9, -19, -19, 37, -2, 4,
  -19, -19, -19, -19, -19, 2, 7, -19, 3, 10, 4, 8, 37, -19, -2, -19, -19,
  -19, -19>>
(* The rule a state reduces by default, 0 for an error.                    *)
yydefact == <<
  2, 11, 0, 3, 4, 0, 1, 5, 0, 23, 24, 26, 28, 30, 25, 27, 29, 31, 32, 21,
  13, 15, 44, 18, 19, 8, 33, 17, 20, 42, 37, 6, 10, 9, 12, 22, 39, 43, 0,
  34, 38, 0, 7, 0, 41, 14, 36, 16, 45, 40, 35>>
yypgoto == <<
  -19, -19, -5, -19, -19, -3, -19, -19, -19, -19, -19, -18, -19, -15, -19,
  -19, -19, -19, -19, -19>>
(* Where to go after a reduction.                                          *)
yydefgoto == <<
  0, 2, 3, 43, 34, 4, 5, 23, 29, 24, 30, 25, 26, 27, 40, 41, 37, 38, 28, 31>>
yytable == <<
  7, 9, 10, 11, 12, 13, 14, 15, 16, 17, 18, 19, 39, 32, 36, 20, 33, 21, 1,
  6, 22, 8, 35, 44, 46, 45, 42, 0, 50, 49, 47, 48, 0, 0, 0, 0, 0, 0, 0, 7,
  9, 10, 11, 12, 13, 14, 15, 16, 17, 18, 19>>
(* What to shift, and for which symbol.                                    *)
yycheck == <<
  3, 3, 4, 5, 6, 7, 8, 9, 10, 11, 12, 13, 30, 21, 29, 17, 24, 19, 14, 0, 22,
  15, 13, 21, 21, 18, 31, -1, 46, 44, 20, 23, -1, -1, -1, -1, -1, -1, -1,
  42, 3, 4, 5, 6, 7, 8, 9, 10, 11, 12, 13>>
(* The symbol whose shift leads to a state.                                *)
yystos == <<
  0, 14, 28, 29, 32, 33, 0, 32, 15, 3, 4, 5, 6, 7, 8, 9, 10, 11, 12, 13, 17,
  19, 22, 34, 36, 38, 39, 40, 45, 35, 37, 46, 21, 24, 31, 13, 40, 43, 44,
  38, 41, 42, 29, 30, 21, 18, 21, 20, 23, 40, 38>>
yyr1 == <<
  0, 27, 28, 28, 29, 29, 30, 30, 31, 31, 31, 33, 32, 35, 34, 37, 36, 38, 38,
  38, 38, 39, 39, 40, 40, 40, 40, 40, 40, 40, 40, 40, 40, 40, 41, 41, 41,
  42, 42, 43, 43, 43, 44, 44, 46, 45>>
(* The left-hand side of a rule and the length of its right-hand side.     *)
yyr2 == <<
  0, 2, 0, 1, 1, 2, 0, 1, 0, 1, 1, 0, 5, 0, 4, 0, 4, 1, 1, 1, 1, 1, 2, 1, 1,
  1, 1, 1, 1, 1, 1, 1, 1, 1, 1, 3, 2, 0, 1, 1, 3, 2, 0, 1, 0, 4>>

(* C arrays begin at 0.                                                    *)
At(table, i) == table[i + 1]

BracketOf(sym) ==
  IF sym \in {17, 18} THEN "ARRAY" ELSE IF sym \in {19, 20} THEN "LIST" ELSE "GROUP"

-----------------------------------------------------------------------------
VARIABLES
  result,   \* yyresult: 0, 1 or 2; Running or Idle
  nerrs,    \* yynerrs
  states,   \* yyss up to yyssp
  values,   \* yyvs up to yyvsp: the pointer of each symbol to a string
  size,     \* yystacksize
  char,     \* yychar as a symbol, or EMPTY
  lval,     \* yylval: its string
  heap,     \* the strings that are allocated
  freedTwice, \* a string was freed that was not allocated
  pending   \* the rules whose code is due for the tokens shifted so far

parse == <<result, nerrs, states, values, size, char, lval>>
vars == <<parse, heap, freedTwice, pending>>

Running == -1   \* yyparse() has not returned
Idle == -2      \* it was not called yet
Top == Last(states)

\* Mutant: the stack is enlarged one element too late.
RoomForOneMore == Len(states) <= size
(* The stacks end before their last element, or are enlarged.              *)
Room == Len(states) < size

\* Mutant: no state reduces without a token.
NeedsTokenAlways(s) == TRUE
(* What the tables say of symbol sym in state s.                           *)
NeedsToken(s) == At(yypact, s) # NINF
Column(s, sym) == At(yypact, s) + sym
\* Mutant: rows of the table overlap, and nobody looks whose entry it is.
HasEntryOfAnyRow(s, sym) == NeedsToken(s) /\ Column(s, sym) \in 0 .. LAST
HasEntry(s, sym) ==
  /\ NeedsToken(s)
  /\ Column(s, sym) \in 0 .. LAST
  /\ At(yycheck, Column(s, sym)) = sym
Entry(s, sym) == At(yytable, Column(s, sym))

(* The state after the left-hand side of a rule, on top of the state s.    *)
GoTo(s, rule) ==
  LET lhs == At(yyr1, rule) - NTOKENS
      i == At(yypgoto, lhs) + s
  IN IF i \in 0 .. LAST /\ At(yycheck, i) = s
     THEN At(yytable, i) ELSE At(yydefgoto, lhs)

\* Mutant: the look-ahead is not destroyed.
DestroyedStack(p, v) ==
  {<<i, v[i]>> : i \in {j \in 2 .. Len(p) : At(yystos, p[j]) = TOK_STRING}}
(* yydestruct() of the symbols of states p[2], p[3], ... with the values v,*)
(* and of the look-ahead: the strings it frees.                            *)
Destroyed(p, v) ==
  {<<i, v[i]>> : i \in {j \in 2 .. Len(p) : At(yystos, p[j]) = TOK_STRING}}
    \cup (IF char = TOK_STRING THEN {<<0, lval>>} ELSE {})

(* free() of strings: pairs of the place where one is and the string.      *)
Free(found) ==
  LET strings == {f[2] : f \in found}
  IN /\ heap' = heap \ strings
     /\ freedTwice' = \/ freedTwice
                      \/ \E f \in found : f[2] \notin heap
                      \/ \E f, g \in found : f # g /\ f[2] = g[2]

Keep == UNCHANGED <<heap, freedTwice>>

(* yyreturnlab: the locals go, the strings of p and v are freed.           *)
Return(r, p, v) ==
  /\ result' = r
  /\ states' = <<0>> /\ values' = <<GARBAGE>> /\ size' = InitDepth
  /\ char' = EMPTY /\ lval' = GARBAGE
  /\ pending' = {}
  /\ Free(Destroyed(p, v))

Init ==
  /\ result = Idle /\ nerrs = 0
  /\ states = <<0>> /\ values = <<GARBAGE>> /\ size = InitDepth
  /\ char = EMPTY /\ lval = GARBAGE
  /\ heap = {} /\ freedTwice = FALSE /\ pending = {}

(* Another text: yyparse() is called.                                      *)
Call ==
  /\ result # Running
  /\ result' = Running /\ nerrs' = 0
  /\ UNCHANGED <<states, values, size, char, lval, heap, freedTwice, pending>>

-----------------------------------------------------------------------------
(* yysetstate: the state on top has just been written.                     *)

Min2(a, b) == IF a < b THEN a ELSE b

Grow ==
  /\ result = Running /\ ~Room /\ size < MaxDepth
  /\ LET larger == Min2(2 * size, MaxDepth)
     IN IF Len(states) < larger
        THEN /\ size' = larger
             /\ UNCHANGED <<result, nerrs, states, values, char, lval, pending>>
             /\ Keep
        ELSE Return(1, states, values) /\ UNCHANGED nerrs

(* "memory exhausted"                                                      *)
Exhaust ==
  /\ result = Running /\ ~Room /\ MaxDepth <= size
  /\ Return(2, states, values)
  /\ UNCHANGED nerrs

Accept ==
  /\ result = Running /\ Room /\ Top = FINAL
  /\ Return(0, states, values)
  /\ UNCHANGED nerrs

(* yybackup: a state without default rule needs a token.  The scanner      *)
(* allocates the text of a string.                                         *)
Read ==
  /\ result = Running /\ Room /\ Top # FINAL
  /\ NeedsToken(Top) /\ char = EMPTY
  /\ \E sym \in Symbols :
       /\ char' = sym
       /\ IF sym = TOK_STRING
          THEN \E c \in Cells \ heap : lval' = c /\ heap' = heap \cup {c}
          ELSE lval' = GARBAGE /\ UNCHANGED heap
  /\ UNCHANGED <<result, nerrs, states, values, size, freedTwice, pending>>

(* The rule whose code handles a token: a name or an opening bracket makes *)
(* a setting, a closing one leaves it, a scalar is stored.                 *)
RuleTable == <<
  23, 24, 26, 28, 30, 25, 27, 29, 31, 32, 0, 11, 0, 0, 13, 14, 15, 16, 0, 44,
  45, 0, 0, 0>>
RuleOf(sym) == IF sym = Eof THEN 0 ELSE RuleTable[sym - 2]

Shift ==
  /\ result = Running /\ Room /\ Top # FINAL
  /\ char # EMPTY /\ HasEntry(Top, char) /\ Entry(Top, char) > 0
  /\ states' = Append(states, Entry(Top, char))
  /\ values' = Append(values, lval)
  /\ char' = EMPTY
  /\ pending' = (pending \cup {RuleOf(char)}) \ {0}
  /\ UNCHANGED <<result, nerrs, size, lval>>
  /\ Keep

-----------------------------------------------------------------------------
(* Rules 21 and 22 append the text of a TOK_STRING to the string of the    *)
(* value and free it.                                                      *)
StringRules == {21, 22}

(* A name that is there already (11), an element of another type.          *)
AbortingRules == {11} \cup 23 .. 33

(* The strings the code of a rule frees.                                   *)
FreedBy(rule) == IF rule \in StringRules THEN {<<Len(values), Last(values)>>} ELSE {}

(* The value of the left-hand side is that of the first symbol, or what is *)
(* above the top when there is none.                                       *)
DefaultValue(length) ==
  IF length = 0 THEN GARBAGE ELSE values[Len(values) + 1 - length]

Reduce(rule) ==
  LET length == At(yyr2, rule)
      below == SubSeq(states, 1, Len(states) - length)
      valuesBelow == SubSeq(values, 1, Len(values) - length)
  IN \/ /\ states' = Append(below, GoTo(Last(below), rule))
        /\ values' = Append(valuesBelow, DefaultValue(length))
        /\ pending' = pending \ {rule}
        /\ Free(FreedBy(rule))
        /\ UNCHANGED <<result, nerrs, size, char, lval>>
     \/ \* YYABORT: the symbols of the rule are not destroyed
        /\ rule \in AbortingRules
        /\ Return(1, below, valuesBelow)
        /\ UNCHANGED nerrs

(* There is no entry for the token, or none was needed.                    *)
Default ==
  /\ result = Running /\ Room /\ Top # FINAL
  /\ NeedsToken(Top) => char # EMPTY /\ ~HasEntry(Top, char)

ReduceDefault ==
  /\ Default
  /\ At(yydefact, Top) # 0
  /\ Reduce(At(yydefact, Top))

(* yyerrlab: no rule of the grammar has the token "error", so every symbol *)
(* is popped and destroyed, and then the look-ahead.                       *)
SyntaxError ==
  /\ Default
  /\ At(yydefact, Top) = 0
  /\ \A i \in DOMAIN states : ~HasEntry(states[i], 1)
  /\ nerrs' = nerrs + 1
  /\ Return(1, states, values)

Step ==
  Grow \/ Exhaust \/ Accept \/ Read \/ Shift \/ ReduceDefault \/ SyntaxError

Next == Call \/ Step

(* yyparse() runs in the thread of its caller and waits for nobody.        *)
Spec == Init /\ [][Next]_vars /\ WF_vars(Step)

-----------------------------------------------------------------------------
(* Correctness.                                                            *)

TypeOK ==
  /\ result \in {-2, -1, 0, 1, 2} /\ nerrs \in {0, 1}
  /\ states \in Seq(0 .. 50) /\ values \in Seq(Cells \cup {GARBAGE})
  /\ size \in InitDepth .. MaxDepth
  /\ char \in Symbols \cup {EMPTY} /\ lval \in Cells \cup {GARBAGE}
  /\ heap \subseteq Cells /\ freedTwice \in BOOLEAN
  /\ pending \subseteq 11 .. 45

(* yyssp and yyvsp move together and never leave their arrays, and while a *)
(* rule is reduced its right-hand side is on the stack.                    *)
StackInBounds ==
  /\ Len(values) = Len(states)
  /\ 1 <= Len(states) /\ Len(states) <= size
  /\ \A i \in DOMAIN states : i # 1 => states[i] # 0

(* Every string that the scanner allocated is freed once, by the code of a *)
(* rule or by yydestruct(), wherever the parser gives up.                  *)
StringsFreedOnce ==
  /\ ~freedTwice
  /\ result # Running => heap = {}

(* When the parser asks for a token, the code of the rules has run for all *)
(* tokens before it, but for a string.  The code may rely on the scanner:  *)
(* the name of a setting is a pointer into its buffer, the line is that of *)
(* the token.                                                              *)
CodeRunsBeforeNextToken ==
  [][char = EMPTY /\ char' # EMPTY => pending = {}]_vars

-----------------------------------------------------------------------------
(* The automaton implements the grammar.  The brackets are those on the    *)
(* stack that were not closed; what is expected follows from the symbol on *)
(* top.                                                                    *)
PlainToken(sym) ==
  CASE sym \in 3 .. 12 -> [kind |-> "SCALAR"]
    [] sym = TOK_STRING -> [kind |-> "STRING"]
    [] sym = 14 -> [kind |-> "NAME"]
    [] sym = 15 -> [kind |-> "EQUALS"]
    [] sym = 21 -> [kind |-> "COMMA"]
    [] sym = 24 -> [kind |-> "SEMICOLON"]
    [] sym \in {17, 19, 22} -> [kind |-> "START", of |-> BracketOf(sym)]
    [] sym \in {18, 20, 23} -> [kind |-> "END", of |-> BracketOf(sym)]
    [] sym \in {16, 25, 26} -> [kind |-> "GARBAGE"]
    [] sym = Eof -> [kind |-> "EOF"]
    [] OTHER -> [kind |-> "NONE"]

BracketsAfter(brackets, sym) ==
  IF sym \in {17, 19, 22} THEN <<BracketOf(sym)>> \o brackets
  ELSE IF sym \in {18, 20, 23} THEN SubSeq(brackets, 2, Len(brackets))
  ELSE brackets

(* The brackets that are open behind each of the symbols of a stack.       *)
BracketsOn(stack) ==
  LET brackets[i \in 0 .. Len(stack)] ==
        IF i = 0 THEN <<>> ELSE BracketsAfter(brackets[i - 1], At(yystos, stack[i]))
  IN brackets
OpenBrackets == BracketsOn(states)[Len(states)]

ExpectedAfter(sym, inGroup) ==
  CASE sym \in {14, 33} -> "equals"
    [] sym = 15 -> "value"
    [] sym \in {TOK_STRING, 39} -> "string"
    [] sym \in {17, 19, 35, 37} -> "first"
    [] sym \in {28, 30, 42, 44} -> "end"
    [] sym \in {0, 22, 46, 24, 31, 32, 29} -> "setting"
    [] sym = 21 -> IF inGroup THEN "setting" ELSE "element"
    [] OTHER -> IF inGroup THEN "terminator" ELSE "comma"
Expected ==
  ExpectedAfter(At(yystos, Top), OpenBrackets = <<>> \/ Head(OpenBrackets) = "GROUP")

Phase ==
  IF result = Idle THEN "idle"
  ELSE IF result = 0 \/ Top = FINAL THEN "accepted"
  ELSE IF result = Running THEN "reading"
  ELSE IF nerrs > 0 THEN "refused" ELSE "failed"

Grammatical ==
  INSTANCE Grammar WITH
    phase <- Phase, open <- OpenBrackets, expect <- Expected, look <- PlainToken(char)

(* The texts that are accepted are those of the grammar, a text is refused *)
(* at the first token the rules do not allow, and nothing but the end of a *)
(* string and what may be left out waits for a token to be read.           *)
AcceptsTheGrammar == Grammatical!GrammarSpec
=============================================================================
