------------------------------ MODULE TokenMatch ------------------------------
(***************************************************************************)
(* The matching of one token: the loop yy_match of yylex() in              *)
(* lib/scanner.c walks through its tables, and beside it goes what is left *)
(* of the patterns of lib/scanner.l.  As the states of both are finitely   *)
(* many, tokens of every length and of all 256 characters are covered.     *)
(***************************************************************************)
EXTENDS Patterns, ScanTables

VARIABLES
  state,    \* yy_current_state
  left,     \* what is left of the patterns: <<rule, expression>>
  newline   \* a line break was matched

vars == <<state, left, newline>>

Init ==
  \E i \in DOMAIN StartConditions, bol \in BOOLEAN :
    /\ state = InitialState(i - 1, bol)
    /\ left = {<<r, Rules[r][2]>> : r \in Tried(StartConditions[i], bol)}
    /\ newline = FALSE

Match(c) ==
  /\ state # JAM_STATE
  /\ state' = Follow[state, CharClass(c)]
  /\ left' = UNION {{<<p[1], e>> : e \in After(p[2], c)} : p \in left}
  /\ newline' = (newline \/ c = Newline)

Next == \E c \in Chars : Match(c)

Spec == Init /\ [][Next]_vars

-----------------------------------------------------------------------------
(* Correctness.                                                            *)

Matched == {p[1] : p \in {q \in left : Nullable(q[2])}}

(* The rule a state accepts is the first of those that match the text so   *)
(* far, and the loop stops exactly when no pattern can match a longer text,*)
(* so that the token it goes back to is the longest: the packed table says *)
(* what the patterns say, whatever the state and the character.            *)
TakesLongestFirstMatch ==
  /\ (state = JAM_STATE) <=> (left = {})
  /\ \/ AcceptOf(state) = 0 /\ (Matched = {} \/ state \in 1 .. 10)
     \/ AcceptOf(state) \in Matched /\ \A r \in Matched : AcceptOf(state) <= r

(* A rule that may match a line break is one whose text is searched for    *)
(* line breaks; the line numbers of settings and errors depend on it.      *)
LineBreaksAreCounted ==
  newline /\ AcceptOf(state) # 0 => RuleCanMatchEol(AcceptOf(state))

(* The tables of the scanner say what its patterns say.                    *)
TablesFollowThePatterns == TakesLongestFirstMatch /\ LineBreaksAreCounted
=============================================================================
