------------------------------ MODULE ScanRules ------------------------------
(***************************************************************************)
(* The rules of the scanner as yylex() in lib/scanner.c carries them out:  *)
(* which rule matches a text, and what its code does to the start          *)
(* condition and to the string that is gathered in the scan context.       *)
(*                                                                         *)
(* Texts are sequences of characters 0 .. 255.                             *)
(***************************************************************************)
EXTENDS Integers, SequencesExt

CONSTANTS
  NextState,         \* NextState[s][class]: the state after a character
  Accepts(_),        \* the rule a state accepts, 0 for none
  Ec(_),             \* the class of a character
  ClassOf(_),        \* the same where 0 is a character and not the end
  CanMatchEol(_),    \* the text of the rule is searched for line breaks
  StartState(_, _),  \* the state to begin with, for yy_start and yy_at_bol
  JAM,               \* the last state, from which no rule can match more
  YY_END_OF_BUFFER   \* accepted after the character 0 that ends a buffer

StartConditions ==
  <<"INITIAL", "SINGLE_LINE_COMMENT", "MULTI_LINE_COMMENT", "STRING", "INCLUDE">>
(* yy_start, and whether the text is at the beginning of a line.           *)
StartOf(condition, bol) ==
  StartState((CHOOSE i \in 1 .. 5 : StartConditions[i] = condition) - 1, bol)

Characters == 0 .. 255
States == 1 .. JAM
Starts == {StartOf(c, bol) : c \in ToSet(StartConditions), bol \in BOOLEAN}

(* What flex makes sure of in every table: the way from JAM stays in JAM.  *)
ASSUME TablesAssumption ==
  /\ JAM \in Nat \ {0} /\ Starts \subseteq States
  /\ \A s \in States, c \in Characters :
       NextState[s][Ec(c)] \in States /\ NextState[s][ClassOf(c)] \in States
  /\ \A c \in Characters : NextState[JAM][Ec(c)] = JAM /\ NextState[JAM][ClassOf(c)] = JAM
  /\ Accepts(JAM) = 0
  /\ \A c \in Characters \ {0} : Ec(c) = ClassOf(c)

(* The 0 that ends a buffer leads to one state, wherever it is met; that   *)
(* state is jammed by everything and is not reached by a text.             *)
ASSUME EndAssumption ==
  /\ YY_END_OF_BUFFER # 0
  /\ \E end \in States \ Starts :
       /\ \A s \in States : Accepts(s) = YY_END_OF_BUFFER <=> s = end
       /\ \A s \in States \ {end, JAM} : NextState[s][Ec(0)] = end
       /\ \A c \in Characters : NextState[end][Ec(c)] = JAM
       /\ \A s \in States \ {end}, c \in Characters : NextState[s][ClassOf(c)] # end

(* The default rule: any character is matched by some rule.                *)
ASSUME DefaultAssumption ==
  \A s \in Starts, c \in Characters : Accepts(NextState[s][ClassOf(c)]) # 0

Newline == 10
(* The text of a rule is searched for line breaks if it may have one.      *)
CountsLines(rule) == rule \notin {0, YY_END_OF_BUFFER} /\ CanMatchEol(rule)
(* No match that goes on behind a line break ends where none is counted.   *)
ASSUME LineAssumption ==
  \A s \in States, c \in Characters :
    LET next == NextState[s][ClassOf(c)]
    IN c = Newline \/ CountsLines(Accepts(s)) => next = JAM \/ CountsLines(Accepts(next))

Newlines(text) == Cardinality({i \in DOMAIN text : text[i] = Newline})

(* A text as a C string.                                                   *)
UpToNul(text) ==
  LET nuls == {i \in DOMAIN text : text[i] = 0}
  IN IF nuls = {} THEN text
     ELSE SubSeq(text, 1, (CHOOSE i \in nuls : \A j \in nuls : i <= j) - 1)

-----------------------------------------------------------------------------
(* Matching.                                                               *)

(* The states on the way from state s over the characters of a text from   *)
(* position `first' to position `last'; it may be jammed before.  Where the*)
(* text is a buffer, a character 0 may be its end.                         *)
Way(text, buffer, s, first, last) ==
  LET way[i \in first .. last] ==
        IF i = first THEN s
        ELSE NextState[way[i - 1]][IF buffer THEN Ec(text[i - 1])
                                             ELSE ClassOf(text[i - 1])]
  IN way

(* The last state on a way up to position `last' that accepts, and where.  *)
LastAccepted(way, last, otherwise) ==
  LET ends == {i \in DOMAIN way : i <= last /\ Accepts(way[i]) # 0}
      end == Max(ends)
  IN IF ends = {} THEN otherwise ELSE <<way[end], end>>

(* The last state that accepts behind a part of the text that begins at    *)
(* position i in state s: <<0, i>> when nothing matches.                   *)
LastAccepting(text, s, i) ==
  LET end == Len(text) + 1
  IN LastAccepted(Way(text, FALSE, s, i, end), end, <<0, i>>)

(* The rule and the length of the longest match from position i on.        *)
Longest(text, i, condition, bol) ==
  LET found == LastAccepting(text, StartOf(condition, bol), i)
  IN <<Accepts(found[1]), found[2] - i>>

-----------------------------------------------------------------------------
(* The code of the rules.                                                  *)

ConditionAfter(rule, condition) ==
  CASE rule = 1 -> "SINGLE_LINE_COMMENT"
    [] rule = 4 -> "MULTI_LINE_COMMENT"
    [] rule = 8 -> "STRING"
    [] rule = 22 -> "INCLUDE"
    [] rule \in {2, 5, 21, 26} -> "INITIAL"
    [] OTHER -> condition

HexDigit(c) == IF c >= 97 THEN c - 87 ELSE IF c >= 65 THEN c - 55 ELSE c - 48

(* The character of an escape sequence.                                    *)
Escaped(rule, text) ==
  CASE rule = 10 -> 7 [] rule = 11 -> 8 [] rule = 12 -> 10 [] rule = 13 -> 13
    [] rule = 14 -> 9 [] rule = 15 -> 11 [] rule = 16 -> 12
    [] rule \in {17, 20, 24} -> 92
    [] rule \in {18, 25} -> 34
    [] rule = 19 -> 16 * HexDigit(text[3]) + HexDigit(text[4])

TextRules == {9, 23}
TakingRules == {21, 26}

StringAfter(rule, string, text) ==
  IF rule \in TextRules THEN string \o UpToNul(text)
  ELSE IF rule \in 10 .. 20 \cup {24, 25} THEN Append(string, Escaped(rule, text))
  ELSE IF rule \in TakingRules THEN <<>>
  ELSE string

(* The token a rule returns, or "" when the scanner goes on.               *)
TokenOf(rule) ==
  CASE rule = 21 -> "STRING" [] rule = 29 -> "EQUALS" [] rule = 30 -> "COMMA"
    [] rule = 31 -> "GROUP_START" [] rule = 32 -> "GROUP_END"
    [] rule \in {33, 34} -> "BOOLEAN" [] rule = 35 -> "NAME" [] rule = 36 -> "FLOAT"
    [] rule \in 37 .. 41 -> "INTEGER"
    [] rule = 42 -> "ARRAY_START" [] rule = 43 -> "ARRAY_END"
    [] rule = 44 -> "LIST_START" [] rule = 45 -> "LIST_END"
    [] rule = 46 -> "SEMICOLON" [] rule = 47 -> "GARBAGE"
    [] OTHER -> ""

(* What the parser gets: a token with its text, a string without escapes.  *)
Delivered(rule, string, text) ==
  IF TokenOf(rule) = "" THEN <<>>
  ELSE << <<TokenOf(rule), IF rule = 21 THEN UpToNul(string) ELSE text>> >>

(* Rules 22 to 26 read an @include directive.                              *)
DirectiveRules == 22 .. 26
(* The tokens of a text without directives.                                *)
TokensOf(text) ==
  LET tokens[p \in [at : Nat, condition : ToSet(StartConditions), bol : BOOLEAN,
                    string : Seq(0 .. 255)]] ==
        IF p.at > Len(text) THEN << <<"EOF", <<>> >> >>
        ELSE LET match == Longest(text, p.at, p.condition, p.bol)
                 last == p.at + match[2] - 1
                 token == SubSeq(text, p.at, last)
             IN Delivered(match[1], p.string, token)
                  \o tokens[[at |-> last + 1,
                             condition |-> ConditionAfter(match[1], p.condition),
                             bol |-> text[last] = Newline,
                             string |-> StringAfter(match[1], p.string, token)]]
  IN tokens[[at |-> 1, condition |-> "INITIAL", bol |-> TRUE, string |-> <<>>]]
=============================================================================
