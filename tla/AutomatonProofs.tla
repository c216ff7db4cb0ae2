--------------------------- MODULE AutomatonProofs ---------------------------
(***************************************************************************)
(* The stacks of the generated parser stay in their arrays, its strings    *)
(* are freed once, the code of a rule runs before the next token is read,  *)
(* and the texts it accepts are those of the grammar, however deep a text  *)
(* is nested, however large the stacks may grow and wherever the parser    *)
(* gives up: proofs for module Automaton.                                  *)
(*                                                                         *)
(* They rest on what the tables say of neighbours on the stack: which      *)
(* states may be beneath a state, found from the tables by the provers.    *)
(***************************************************************************)
EXTENDS Automaton, Lemmas, SequenceTheorems, TLAPS

States == 0 .. 50

(* What the automaton may put on top of the state p: after `=', a bracket  *)
(* or a comma a value begins, a scalar only in an array.                   *)
ValueStarts == {8, 30, 46}
ScalarStarts == ValueStarts \cup {29, 44}
MayFollow(p, s) ==
  \/ p \in {0, 3, 31, 42} /\ s = 1
  \/ p = 0 /\ s \in {2, 3, 4}
  \/ p = 31 /\ s \in {4, 42, 43}
  \/ p \in {3, 42} /\ s = 7
  \/ p \in ScalarStarts /\ s \in 9 .. 19 \cup {26}
  \/ p \in ValueStarts /\ s \in {20, 21, 22, 23, 24, 27, 28}
  \/ p = 29 /\ s \in {36, 37, 38}
  \/ p = 30 /\ s \in {39, 40, 41}
  \/ <<p, s>> \in {<<1, 5>>, <<2, 6>>, <<5, 8>>, <<8, 25>>, <<20, 29>>, <<21, 30>>,
                   <<22, 31>>, <<25, 32>>, <<25, 33>>, <<25, 34>>, <<26, 35>>,
                   <<37, 44>>, <<38, 45>>, <<40, 46>>, <<41, 47>>, <<43, 48>>,
                   <<44, 49>>, <<46, 50>>}

(* The stack is a path of the automaton from its first state.              *)
StackIsPath ==
  /\ states[1] = 0
  /\ \A i \in 2 .. Len(states) : MayFollow(states[i - 1], states[i])

(* The strings in use are those of the TOK_STRINGs on the stack and of the *)
(* look-ahead, each its own.                                               *)
StringPlaces == {i \in 2 .. Len(states) : At(yystos, states[i]) = TOK_STRING}
StringsAreOwned ==
  /\ \A i \in StringPlaces : values[i] \in heap
  /\ \A i, j \in StringPlaces : values[i] = values[j] => i = j
  /\ char = TOK_STRING => lval \in heap /\ \A i \in StringPlaces : values[i] # lval
  /\ \A c \in heap : \/ char = TOK_STRING /\ c = lval
                     \/ \E i \in StringPlaces : c = values[i]

(* The code that is due is that of the rule to be reduced without a token. *)
DueRules ==
  pending # {} => pending = {At(yydefact, Top)} /\ ~NeedsToken(Top)

(* Between two calls the parser holds nothing.                             *)
NothingHeld ==
  IF result = Running THEN nerrs = 0 ELSE Len(states) = 1 /\ char = EMPTY

IInv ==
  /\ TypeOK /\ StackInBounds /\ ~freedTwice
  /\ StackIsPath /\ StringsAreOwned /\ DueRules /\ NothingHeld

-----------------------------------------------------------------------------
(* What the tables say.                                                    *)

LEMMA ShiftFollows ==
  ASSUME NEW s \in States, NEW sym \in Symbols, s # FINAL,
         HasEntry(s, sym), Entry(s, sym) > 0
  PROVE  /\ Entry(s, sym) \in 1 .. 50 /\ MayFollow(s, Entry(s, sym))
         /\ At(yystos, Entry(s, sym)) = sym
BY DEF States, Symbols, Eof, FINAL, HasEntry, NeedsToken, Entry, Column, At, NINF, LAST,
       yypact, yytable, yycheck, yystos, MayFollow, ValueStarts, ScalarStarts

(* A token that code is due for leads to a state that reduces its rule and *)
(* does not ask for a token.                                               *)
LEMMA ShiftMakesDue ==
  ASSUME NEW s \in States, NEW sym \in Symbols, s # FINAL,
         HasEntry(s, sym), Entry(s, sym) > 0, RuleOf(sym) # 0
  PROVE  /\ ~NeedsToken(Entry(s, sym)) /\ RuleOf(sym) = At(yydefact, Entry(s, sym))
         /\ RuleOf(sym) \in 11 .. 45
BY DEF States, Symbols, Eof, FINAL, HasEntry, NeedsToken, Entry, Column, At, NINF, LAST,
       yypact, yytable, yycheck, yydefact, RuleOf, RuleTable

(* The states that reduce a rule with so many symbols.                     *)
Reduces(s, length) == At(yydefact, s) # 0 /\ At(yyr2, At(yydefact, s)) = length

LEMMA RuleNumbers ==
  ASSUME NEW s \in States PROVE At(yydefact, s) \in 0 .. 45
BY DEF States, At, yydefact

LEMMA LengthsOfRules ==
  ASSUME NEW r \in 2 .. 45
  PROVE  \/ At(yyr2, r) = 0 /\ r \in {2, 6, 8, 11, 13, 15, 37, 42, 44}
         \/ At(yyr2, r) = 1 /\ r \notin {2, 6, 8, 11, 13, 15, 37, 42, 44, 5, 22, 36, 41,
                                         35, 40, 14, 16, 45, 12}
         \/ At(yyr2, r) = 2 /\ r \in {5, 22, 36, 41}
         \/ At(yyr2, r) = 3 /\ r \in {35, 40}
         \/ At(yyr2, r) = 4 /\ r \in {14, 16, 45}
         \/ At(yyr2, r) = 5 /\ r = 12
BY DEF At, yyr2

LEMMA RulesOfStates ==
  ASSUME NEW s \in States, s # FINAL, At(yydefact, s) # 0
  PROVE  \/ /\ At(yydefact, s) \in {2, 6, 8, 11, 13, 15, 37, 42, 44}
            /\ s \in {0, 1, 20, 21, 22, 25, 29, 30, 31}
         \/ /\ At(yydefact, s) \in {5, 22, 36, 41}
            /\ s \in {7, 35, 44, 46}
         \/ /\ At(yydefact, s) \in {35, 40}
            /\ s \in {49, 50}
         \/ /\ At(yydefact, s) \in {14, 16, 45}
            /\ s \in {45, 47, 48}
         \/ /\ At(yydefact, s) = 12
            /\ s = 34
         \/ /\ At(yydefact, s) \in 2 .. 45
            /\ At(yydefact, s) \notin {2, 6, 8, 11, 13, 15, 37, 42, 44, 5, 22, 36, 41,
                                       35, 40, 14, 16, 45, 12}
            /\ s \in {3, 4, 23, 24, 26, 27, 28, 32, 33, 36, 37, 39, 40, 42} \cup 9 .. 19
BY DEF States, FINAL, At, yydefact

LEMMA RuleLengths ==
  ASSUME NEW s \in States, s # FINAL, At(yydefact, s) # 0
  PROVE  \/ Reduces(s, 0) /\ s \in {0, 1, 20, 21, 22, 25, 29, 30, 31}
         \/ /\ Reduces(s, 1)
            /\ s \in {3, 4, 23, 24, 26, 27, 28, 32, 33, 36, 37, 39, 40, 42} \cup 9 .. 19
         \/ Reduces(s, 2) /\ s \in {7, 35, 44, 46}
         \/ Reduces(s, 3) /\ s \in {49, 50}
         \/ Reduces(s, 4) /\ s \in {45, 47, 48}
         \/ Reduces(s, 5) /\ s = 34
<1> DEFINE r == At(yydefact, s)
<1>1. r \in 2 .. 45
  BY RulesOfStates
<1>2. \/ At(yyr2, r) = 0 /\ r \in {2, 6, 8, 11, 13, 15, 37, 42, 44}
      \/ At(yyr2, r) = 1 /\ r \notin {2, 6, 8, 11, 13, 15, 37, 42, 44, 5, 22, 36, 41,
                                      35, 40, 14, 16, 45, 12}
      \/ At(yyr2, r) = 2 /\ r \in {5, 22, 36, 41}
      \/ At(yyr2, r) = 3 /\ r \in {35, 40}
      \/ At(yyr2, r) = 4 /\ r \in {14, 16, 45}
      \/ At(yyr2, r) = 5 /\ r = 12
  <2> HIDE DEF r
  <2> QED
    BY <1>1, LengthsOfRules
<1> QED
  BY <1>1, <1>2, RulesOfStates DEF Reduces

(* Where the automaton goes when the left-hand side of a rule is on p.     *)
LEMMA GoToIs ==
  ASSUME NEW p \in States, NEW r \in 1 .. 45
  PROVE  /\ At(yyr1, r) = 28 => GoTo(p, r) = 2
         /\ At(yyr1, r) = 29 => GoTo(p, r) = IF p = 31 THEN 42 ELSE 3
         /\ At(yyr1, r) = 30 => GoTo(p, r) = 43
         /\ At(yyr1, r) = 31 => GoTo(p, r) = 34
         /\ At(yyr1, r) = 32 => GoTo(p, r) = IF p \in {3, 42} THEN 7 ELSE 4
         /\ At(yyr1, r) = 33 => GoTo(p, r) = 5
         /\ At(yyr1, r) = 34 => GoTo(p, r) = 23
         /\ At(yyr1, r) = 35 => GoTo(p, r) = 29
         /\ At(yyr1, r) = 36 => GoTo(p, r) = 24
         /\ At(yyr1, r) = 37 => GoTo(p, r) = 30
         /\ At(yyr1, r) = 38 => GoTo(p, r) = IF p = 30 THEN 39 ELSE IF p = 46 THEN 50 ELSE 25
         /\ At(yyr1, r) = 39 => GoTo(p, r) = 26
         /\ At(yyr1, r) = 40 => GoTo(p, r) = IF p = 29 THEN 36 ELSE IF p = 44 THEN 49 ELSE 27
         /\ At(yyr1, r) = 41 => GoTo(p, r) = 40
         /\ At(yyr1, r) = 42 => GoTo(p, r) = 41
         /\ At(yyr1, r) = 43 => GoTo(p, r) = 37
         /\ At(yyr1, r) = 44 => GoTo(p, r) = 38
         /\ At(yyr1, r) = 45 => GoTo(p, r) = 28
         /\ At(yyr1, r) = 46 => GoTo(p, r) = 31
<1> DEFINE l == At(yyr1, r)
<1>1. GoTo(p, r) = LET i == At(yypgoto, l - 27) + p
                   IN IF i \in 0 .. 50 /\ At(yycheck, i) = p
                      THEN At(yytable, i) ELSE At(yydefgoto, l - 27)
  BY DEF GoTo, NTOKENS, LAST
<1>2. /\ \A i \in 0 .. 50 : At(yycheck, i) # i + 19
      /\ \A i \in 0 .. 50 : At(yycheck, i) = i + 5 => i = 26
  BY DEF At, yycheck
<1>3. /\ \A i \in 0 .. 50 : At(yycheck, i) = i + 3 => i \in {0, 39}
      /\ \A i \in 0 .. 50 : At(yycheck, i) = i + 18 => i \in {12, 28}
      /\ \A i \in 0 .. 50 : At(yycheck, i) = i + 15 => i \in {14, 29}
  BY DEF At, yycheck
<1>4. /\ At(yycheck, 26) = 31 /\ At(yycheck, 0) = 3 /\ At(yycheck, 39) = 42
      /\ At(yycheck, 12) = 30 /\ At(yycheck, 28) = 46
      /\ At(yycheck, 14) = 29 /\ At(yycheck, 29) = 44
      /\ At(yytable, 26) = 42 /\ At(yytable, 0) = 7 /\ At(yytable, 39) = 7
      /\ At(yytable, 12) = 39 /\ At(yytable, 28) = 50
      /\ At(yytable, 14) = 36 /\ At(yytable, 29) = 49
  BY DEF At, yycheck, yytable
<1>5. p \in Int /\ p \in 0 .. 50
  BY DEF States
<1> HIDE DEF l
<1>6. l \in {28, 30, 31, 33, 34, 35, 36, 37, 39, 41, 42, 43, 44, 45, 46} =>
        GoTo(p, r) = At(yydefgoto, l - 27)
  <2>1. l \in {28, 30, 31, 33, 34, 35, 36, 37, 39, 41, 42, 43, 44, 45, 46} =>
          At(yypgoto, l - 27) = -19
    BY DEF At, yypgoto
  <2>2. -19 + p \in 0 .. 50 => At(yycheck, -19 + p) # p
    <3>1. -19 + p \in 0 .. 50 => At(yycheck, -19 + p) # (-19 + p) + 19
      BY <1>2
    <3> QED
      BY <1>5, <3>1
  <2> QED
    BY <1>1, <2>1, <2>2
<1>7. l = 29 => GoTo(p, r) = IF p = 31 THEN 42 ELSE 3
  <2>1. l = 29 => At(yypgoto, l - 27) = -5 /\ At(yydefgoto, l - 27) = 3
    BY DEF At, yypgoto, yydefgoto
  <2>2. -5 + p \in 0 .. 50 /\ At(yycheck, -5 + p) = p => -5 + p = 26
    <3>1. -5 + p \in 0 .. 50 /\ At(yycheck, -5 + p) = (-5 + p) + 5 => -5 + p = 26
      BY <1>2
    <3> QED
      BY <1>5, <3>1
  <2>3. CASE p = 31
    BY <1>1, <1>4, <2>1, <2>3
  <2>4. CASE p # 31
    BY <1>1, <1>5, <2>1, <2>2, <2>4
  <2> QED
    BY <2>3, <2>4
<1>8. l = 32 => GoTo(p, r) = IF p \in {3, 42} THEN 7 ELSE 4
  <2>1. l = 32 => At(yypgoto, l - 27) = -3 /\ At(yydefgoto, l - 27) = 4
    BY DEF At, yypgoto, yydefgoto
  <2>2. -3 + p \in 0 .. 50 /\ At(yycheck, -3 + p) = p => -3 + p \in {0, 39}
    <3>1. -3 + p \in 0 .. 50 /\ At(yycheck, -3 + p) = (-3 + p) + 3 => -3 + p \in {0, 39}
      BY <1>3
    <3> QED
      BY <1>5, <3>1
  <2>3. CASE p \in {3, 42}
    BY <1>1, <1>4, <2>1, <2>3
  <2>4. CASE p \notin {3, 42}
    BY <1>1, <1>5, <2>1, <2>2, <2>4
  <2> QED
    BY <2>3, <2>4
<1>9. l = 38 => GoTo(p, r) = IF p = 30 THEN 39 ELSE IF p = 46 THEN 50 ELSE 25
  <2>1. l = 38 => At(yypgoto, l - 27) = -18 /\ At(yydefgoto, l - 27) = 25
    BY DEF At, yypgoto, yydefgoto
  <2>2. -18 + p \in 0 .. 50 /\ At(yycheck, -18 + p) = p => -18 + p \in {12, 28}
    <3>1. -18 + p \in 0 .. 50 /\ At(yycheck, -18 + p) = (-18 + p) + 18 =>
            -18 + p \in {12, 28}
      BY <1>3
    <3> QED
      BY <1>5, <3>1
  <2>3. CASE p \in {30, 46}
    BY <1>1, <1>4, <2>1, <2>3
  <2>4. CASE p \notin {30, 46}
    BY <1>1, <1>5, <2>1, <2>2, <2>4
  <2> QED
    BY <2>3, <2>4
<1>10. l = 40 => GoTo(p, r) = IF p = 29 THEN 36 ELSE IF p = 44 THEN 49 ELSE 27
  <2>1. l = 40 => At(yypgoto, l - 27) = -15 /\ At(yydefgoto, l - 27) = 27
    BY DEF At, yypgoto, yydefgoto
  <2>2. -15 + p \in 0 .. 50 /\ At(yycheck, -15 + p) = p => -15 + p \in {14, 29}
    <3>1. -15 + p \in 0 .. 50 /\ At(yycheck, -15 + p) = (-15 + p) + 15 =>
            -15 + p \in {14, 29}
      BY <1>3
    <3> QED
      BY <1>5, <3>1
  <2>3. CASE p \in {29, 44}
    BY <1>1, <1>4, <2>1, <2>3
  <2>4. CASE p \notin {29, 44}
    BY <1>1, <1>5, <2>1, <2>2, <2>4
  <2> QED
    BY <2>3, <2>4
<1>11. /\ At(yydefgoto, 28 - 27) = 2 /\ At(yydefgoto, 30 - 27) = 43
       /\ At(yydefgoto, 31 - 27) = 34 /\ At(yydefgoto, 33 - 27) = 5
       /\ At(yydefgoto, 34 - 27) = 23 /\ At(yydefgoto, 35 - 27) = 29
       /\ At(yydefgoto, 36 - 27) = 24 /\ At(yydefgoto, 37 - 27) = 30
       /\ At(yydefgoto, 39 - 27) = 26 /\ At(yydefgoto, 41 - 27) = 40
       /\ At(yydefgoto, 42 - 27) = 41 /\ At(yydefgoto, 43 - 27) = 37
       /\ At(yydefgoto, 44 - 27) = 38 /\ At(yydefgoto, 45 - 27) = 28
       /\ At(yydefgoto, 46 - 27) = 31
  BY DEF At, yydefgoto
<1>12. l \in {28, 30, 31, 33, 34, 35, 36, 37, 39, 41, 42, 43, 44, 45, 46} =>
         /\ l = 28 => GoTo(p, r) = 2
         /\ l = 30 => GoTo(p, r) = 43
         /\ l = 31 => GoTo(p, r) = 34
         /\ l = 33 => GoTo(p, r) = 5
         /\ l = 34 => GoTo(p, r) = 23
         /\ l = 35 => GoTo(p, r) = 29
         /\ l = 36 => GoTo(p, r) = 24
         /\ l = 37 => GoTo(p, r) = 30
         /\ l = 39 => GoTo(p, r) = 26
         /\ l = 41 => GoTo(p, r) = 40
         /\ l = 42 => GoTo(p, r) = 41
         /\ l = 43 => GoTo(p, r) = 37
         /\ l = 44 => GoTo(p, r) = 38
         /\ l = 45 => GoTo(p, r) = 28
         /\ l = 46 => GoTo(p, r) = 31
  BY <1>6, <1>11
<1> QED
  BY <1>7, <1>8, <1>9, <1>10, <1>12 DEF l

(* The left-hand side of the rule that a state reduces.                    *)
LEMMA LeftSides ==
  ASSUME NEW s \in States, At(yydefact, s) # 0
  PROVE  /\ s \in {0, 3} => At(yyr1, At(yydefact, s)) = 28
         /\ s \in {4, 7} => At(yyr1, At(yydefact, s)) = 29
         /\ s \in {31, 42} => At(yyr1, At(yydefact, s)) = 30
         /\ s \in {25, 32, 33} => At(yyr1, At(yydefact, s)) = 31
         /\ s = 34 => At(yyr1, At(yydefact, s)) = 32
         /\ s = 1 => At(yyr1, At(yydefact, s)) = 33
         /\ s = 45 => At(yyr1, At(yydefact, s)) = 34
         /\ s = 20 => At(yyr1, At(yydefact, s)) = 35
         /\ s = 47 => At(yyr1, At(yydefact, s)) = 36
         /\ s = 21 => At(yyr1, At(yydefact, s)) = 37
         /\ s \in {23, 24, 27, 28} => At(yyr1, At(yydefact, s)) = 38
         /\ s \in {19, 35} => At(yyr1, At(yydefact, s)) = 39
         /\ s \in 9 .. 18 \cup {26} => At(yyr1, At(yydefact, s)) = 40
         /\ s \in {39, 46, 50} => At(yyr1, At(yydefact, s)) = 41
         /\ s \in {30, 40} => At(yyr1, At(yydefact, s)) = 42
         /\ s \in {36, 44, 49} => At(yyr1, At(yydefact, s)) = 43
         /\ s \in {29, 37} => At(yyr1, At(yydefact, s)) = 44
         /\ s = 48 => At(yyr1, At(yydefact, s)) = 45
         /\ s = 22 => At(yyr1, At(yydefact, s)) = 46
BY DEF States, At, yydefact, yyr1

(* The state p beneath the right-hand side of a rule that s reduces.       *)
MayBeUnder(p, s) ==
  \/ p = 0 /\ s \in {0, 3}
  \/ p \in {0, 31} /\ s \in {4, 7}
  \/ p = 31 /\ s \in {31, 42}
  \/ p = 25 /\ s \in {25, 32, 33}
  \/ p \in {0, 3, 31, 42} /\ s = 34
  \/ p = s /\ s \in {1, 20, 21, 22}
  \/ p \in ValueStarts /\ s \in {23, 24, 27, 28, 45, 47, 48}
  \/ p \in ScalarStarts /\ s \in 9 .. 19 \cup {26, 35}
  \/ p = 29 /\ s \in {29, 36, 37, 44, 49}
  \/ p = 30 /\ s \in {30, 39, 40, 46, 50}

(* The state of the left-hand side of the rule that s reduces.             *)
Replaces(g, s) ==
  /\ s \in {0, 3} => g = 2
  /\ s \in {4, 7} => g \in {3, 42}
  /\ s \in {31, 42} => g = 43
  /\ s \in {25, 32, 33} => g = 34
  /\ s = 34 => g \in {4, 7}
  /\ s = 1 => g = 5
  /\ s \in {20, 21} => g \in {29, 30}
  /\ s = 22 => g = 31
  /\ s \in {45, 47, 48} => g \in {23, 24, 28}
  /\ s \in {23, 24, 27, 28} => g \in {25, 39, 50}
  /\ s \in {19, 35} => g = 26
  /\ s \in 9 .. 18 \cup {26} => g \in {27, 36, 49}
  /\ s \in {39, 46, 50} => g = 40
  /\ s \in {30, 40} => g = 41
  /\ s \in {36, 44, 49} => g = 37
  /\ s \in {29, 37} => g = 38

(* The left-hand side may follow it.                                       *)
Lands(p, s) ==
  LET g == GoTo(p, At(yydefact, s))
  IN g \in 1 .. 50 /\ MayFollow(p, g) /\ g \notin {19, 35} /\ Replaces(g, s)

LEMMA RuleLands ==
  ASSUME NEW p \in States, NEW s \in States, At(yydefact, s) # 0, MayBeUnder(p, s)
  PROVE  Lands(p, s)
<1> DEFINE r == At(yydefact, s)
<1>1. r \in 1 .. 45
  BY RuleNumbers
<1>2. /\ s \in {0, 3} => At(yyr1, r) = 28
      /\ s \in {4, 7} => At(yyr1, r) = 29
      /\ s \in {31, 42} => At(yyr1, r) = 30
      /\ s \in {25, 32, 33} => At(yyr1, r) = 31
      /\ s = 34 => At(yyr1, r) = 32
      /\ s = 1 => At(yyr1, r) = 33
      /\ s = 45 => At(yyr1, r) = 34
      /\ s = 20 => At(yyr1, r) = 35
      /\ s = 47 => At(yyr1, r) = 36
      /\ s = 21 => At(yyr1, r) = 37
      /\ s \in {23, 24, 27, 28} => At(yyr1, r) = 38
      /\ s \in {19, 35} => At(yyr1, r) = 39
      /\ s \in 9 .. 18 \cup {26} => At(yyr1, r) = 40
      /\ s \in {39, 46, 50} => At(yyr1, r) = 41
      /\ s \in {30, 40} => At(yyr1, r) = 42
      /\ s \in {36, 44, 49} => At(yyr1, r) = 43
      /\ s \in {29, 37} => At(yyr1, r) = 44
      /\ s = 48 => At(yyr1, r) = 45
      /\ s = 22 => At(yyr1, r) = 46
  BY LeftSides
<1> HIDE DEF r
<1>3. /\ GoTo(p, r) \in 1 .. 50 /\ MayFollow(p, GoTo(p, r)) /\ GoTo(p, r) \notin {19, 35}
  BY <1>1, <1>2, GoToIs DEF MayBeUnder, MayFollow, ValueStarts, ScalarStarts
<1>4. Replaces(GoTo(p, r), s)
  BY <1>1, <1>2, GoToIs DEF MayBeUnder, Replaces, ValueStarts, ScalarStarts
<1> QED
  BY <1>3, <1>4 DEF r, Lands

(* It is found on the stack at the length of the rule.                     *)
LEMMA UnderEmptyRule ==
  ASSUME NEW s \in States, s \in {0, 1, 20, 21, 22, 25, 29, 30, 31}
  PROVE  MayBeUnder(s, s)
BY DEF MayBeUnder

LEMMA UnderShortRule ==
  ASSUME NEW s \in {3, 4, 23, 24, 26, 27, 28, 32, 33, 36, 37, 39, 40, 42} \cup 9 .. 19,
         NEW a, MayFollow(a, s)
  PROVE  MayBeUnder(a, s)
BY DEF MayBeUnder, MayFollow, ValueStarts, ScalarStarts

LEMMA UnderRuleOfTwo ==
  ASSUME NEW s \in {7, 35, 44, 46}, NEW a, NEW b, MayFollow(a, s)
  PROVE  /\ a \in {3, 42, 26, 37, 40}
         /\ MayFollow(b, a) => MayBeUnder(b, s)
BY DEF MayBeUnder, MayFollow, ValueStarts, ScalarStarts

LEMMA InsideLongRules ==
  ASSUME NEW s, NEW a, MayFollow(a, s)
  PROVE  /\ s \in {49, 50} => a \in {44, 46}
         /\ s \in {44, 46} => a \in {37, 40}
         /\ s \in {45, 47, 48} => a \in {38, 41, 43}
         /\ s \in {38, 41, 43} => a \in {29, 30, 31}
         /\ s \in {29, 30, 31} => a \in {20, 21, 22}
         /\ s = 34 => a = 25
         /\ s = 25 => a = 8
         /\ s = 8 => a = 5
         /\ s = 5 => a = 1
         /\ s = 1 => MayBeUnder(a, 34)
BY DEF MayBeUnder, MayFollow, ValueStarts, ScalarStarts

LEMMA UnderRuleOfThree ==
  ASSUME NEW s \in {49, 50}, NEW a, NEW b, NEW c,
         MayFollow(a, s), MayFollow(b, a), MayFollow(c, b)
  PROVE  MayBeUnder(c, s)
BY DEF MayBeUnder, MayFollow, ValueStarts, ScalarStarts

LEMMA UnderRuleOfFour ==
  ASSUME NEW s \in {45, 47, 48}, NEW a, NEW b, NEW c, NEW d,
         MayFollow(a, s), MayFollow(b, a), MayFollow(c, b), MayFollow(d, c)
  PROVE  MayBeUnder(d, s)
BY DEF MayBeUnder, MayFollow, ValueStarts, ScalarStarts

LEMMA StatesFollow ==
  ASSUME NEW p, NEW s, MayFollow(p, s) PROVE p \in States /\ s \in States \ {0}
BY DEF MayFollow, ValueStarts, ScalarStarts, States

(* Strings are the symbols of two states, which reduce the string rules.   *)
LEMMA StringStates ==
  ASSUME NEW s \in States
  PROVE  /\ At(yystos, s) = TOK_STRING <=> s \in {19, 35}
         /\ At(yydefact, s) \in StringRules <=> s \in {19, 35}
<1>1. At(yystos, s) = TOK_STRING <=> s \in {19, 35}
  BY DEF States, At, yystos, TOK_STRING
<1>2. At(yydefact, s) \in StringRules <=> s \in {19, 35}
  BY DEF States, At, yydefact, StringRules
<1> QED
  BY <1>1, <1>2

LEMMA AbortsWithoutString == StringRules \cap AbortingRules = {}
BY DEF StringRules, AbortingRules

-----------------------------------------------------------------------------
(* The stack.                                                              *)

LEMMA StackStates ==
  ASSUME TypeOK, StackInBounds, StackIsPath
  PROVE  /\ Len(states) \in Nat \ {0} /\ Len(values) = Len(states)
         /\ \A i \in 1 .. Len(states) : states[i] \in States
         /\ \A i \in 1 .. Len(states) : states[i] # 0 =>
              i - 1 \in 1 .. Len(states) /\ MayFollow(states[i - 1], states[i])
         /\ Top = states[Len(states)] /\ Top \in States
<1>1. Len(states) \in Nat /\ 1 <= Len(states) /\ Len(values) = Len(states)
  BY LenProperties DEF TypeOK, StackInBounds
<1>2. \A i \in 1 .. Len(states) : states[i] \in States
  BY ElementOfSeq DEF TypeOK, States
<1>3. \A i \in 1 .. Len(states) : states[i] # 0 => i # 1
  BY DEF StackIsPath
<1>4. Top = states[Len(states)]
  BY DEF Top, Last
<1> QED
  BY <1>1, <1>2, <1>3, <1>4 DEF StackIsPath

LEMMA PlacesOfStrings ==
  ASSUME TypeOK, StackInBounds, StackIsPath
  PROVE  StringPlaces = {i \in 2 .. Len(states) : states[i] \in {19, 35}}
BY StackStates, StringStates DEF StringPlaces

(* Rules of four symbols are those of brackets, which enclose two others.  *)
BracketStates == {20, 21, 22, 45, 47, 48}
Bracketed(n) ==
  /\ states[n] \in {45, 47, 48} /\ states[n - 3] \in {20, 21, 22}
  /\ states[n - 1] \notin BracketStates /\ states[n - 2] \notin BracketStates
Unbracketed(n, length) ==
  \A i \in n - length + 1 .. n : states[i] \notin BracketStates

(* The right-hand side of the rule that is reduced is on the stack, above  *)
(* a state that its left-hand side may follow; a string is only the last   *)
(* symbol of a string rule.                                                *)
RuleIsOnStack(length) ==
  /\ length = At(yyr2, At(yydefact, Top)) /\ length \in 0 .. 5
  /\ length < Len(states)
  /\ Lands(states[Len(states) - length], Top)
  /\ \A i \in Len(states) - length + 1 .. Len(states) - 1 : states[i] \notin {19, 35}
  /\ Top \in {19, 35} => length >= 1
  /\ IF length = 4 THEN Bracketed(Len(states)) ELSE Unbracketed(Len(states), length)

LEMMA RuleOnStack ==
  ASSUME TypeOK, StackInBounds, StackIsPath, Top # FINAL, At(yydefact, Top) # 0
  PROVE  \E k \in 0 .. 5 : RuleIsOnStack(k)
<1> DEFINE n == Len(states)
           Found(k) == /\ k = At(yyr2, At(yydefact, Top)) /\ n - k \in 1 .. n
                       /\ MayBeUnder(states[n - k], Top)
                       /\ \A i \in n - k + 1 .. n - 1 : states[i] \notin {19, 35}
                       /\ Top \in {19, 35} => k >= 1
                       /\ IF k = 4 THEN Bracketed(n) ELSE Unbracketed(n, k)
<1>1. /\ n \in Nat \ {0} /\ n \in 1 .. n /\ Top = states[n] /\ Top \in States
      /\ \A i \in 1 .. n : states[i] \in States
      /\ \A i \in 1 .. n : states[i] # 0 =>
           i - 1 \in 1 .. n /\ MayFollow(states[i - 1], states[i])
  BY StackStates
<1>2. ASSUME NEW k \in 0 .. 5, Found(k) PROVE RuleIsOnStack(k)
  BY <1>1, <1>2, RuleLands DEF RuleIsOnStack
<1> HIDE DEF n
<1>3. CASE Reduces(Top, 0) /\ Top \in {0, 1, 20, 21, 22, 25, 29, 30, 31}
  <2>1. Found(0)
    BY <1>1, <1>3, UnderEmptyRule DEF Reduces, Unbracketed
  <2> QED
    BY <1>2, <2>1
<1>4. CASE /\ Reduces(Top, 1)
           /\ Top \in {3, 4, 23, 24, 26, 27, 28, 32, 33, 36, 37, 39, 40, 42} \cup 9 .. 19
  <2>1. Unbracketed(n, 1)
    BY <1>1, <1>4 DEF Unbracketed, BracketStates
  <2>2. Found(1)
    BY <1>1, <1>4, <2>1, UnderShortRule DEF Reduces
  <2> QED
    BY <1>2, <2>2
<1>5. CASE Reduces(Top, 2) /\ Top \in {7, 35, 44, 46}
  <2>1. n - 1 \in 1 .. n /\ MayFollow(states[n - 1], Top) /\ states[n - 1] \in {3, 42, 26, 37, 40}
    BY <1>1, <1>5, UnderRuleOfTwo
  <2>2. n - 2 \in 1 .. n /\ MayFollow(states[n - 2], states[n - 1])
    BY <1>1, <2>1
  <2>3. Unbracketed(n, 2)
    <3>1. \A i \in n - 2 + 1 .. n : i \in {n, n - 1}
      BY <1>1
    <3> QED
      BY <1>1, <1>5, <2>1, <3>1 DEF Unbracketed, BracketStates
  <2>4. Found(2)
    BY <1>1, <1>5, <2>1, <2>2, <2>3, UnderRuleOfTwo DEF Reduces
  <2> QED
    BY <1>2, <2>4
<1>6. CASE Reduces(Top, 3) /\ Top \in {49, 50}
  <2>1. n - 1 \in 1 .. n /\ MayFollow(states[n - 1], Top) /\ states[n - 1] \in {44, 46}
    BY <1>1, <1>6, InsideLongRules
  <2>2. n - 2 \in 1 .. n /\ MayFollow(states[n - 2], states[n - 1])
    BY <1>1, <2>1
  <2>3. states[n - 2] \in {37, 40}
    BY <2>1, <2>2, InsideLongRules
  <2>4. n - 3 \in 1 .. n /\ MayFollow(states[n - 3], states[n - 2])
    BY <1>1, <2>2, <2>3
  <2>5. MayBeUnder(states[n - 3], Top)
    BY <1>6, <2>1, <2>2, <2>4, UnderRuleOfThree
  <2>6. Found(3)
    <3>1. \A i \in n - 3 + 1 .. n - 1 : i \in {n - 1, n - 2}
      BY <1>1
    <3>2. \A i \in n - 3 + 1 .. n - 1 : states[i] \notin {19, 35}
      BY <2>1, <2>3, <3>1
    <3>3. Unbracketed(n, 3)
      <4>1. \A i \in n - 3 + 1 .. n : i \in {n, n - 1, n - 2}
        BY <1>1
      <4> QED
        BY <1>1, <1>6, <2>1, <2>3, <4>1 DEF Unbracketed, BracketStates
    <3> QED
      BY <1>6, <2>4, <2>5, <3>2, <3>3 DEF Reduces
  <2> QED
    BY <1>2, <2>6
<1>7. CASE Reduces(Top, 4) /\ Top \in {45, 47, 48}
  <2>1. n - 1 \in 1 .. n /\ MayFollow(states[n - 1], Top) /\ states[n - 1] \in {38, 41, 43}
    BY <1>1, <1>7, InsideLongRules
  <2>2. n - 2 \in 1 .. n /\ MayFollow(states[n - 2], states[n - 1])
    BY <1>1, <2>1
  <2>3. states[n - 2] \in {29, 30, 31}
    BY <2>1, <2>2, InsideLongRules
  <2>4. n - 3 \in 1 .. n /\ MayFollow(states[n - 3], states[n - 2])
    BY <1>1, <2>2, <2>3
  <2>5. states[n - 3] \in {20, 21, 22}
    BY <2>3, <2>4, InsideLongRules
  <2>6. n - 4 \in 1 .. n /\ MayFollow(states[n - 4], states[n - 3])
    BY <1>1, <2>4, <2>5
  <2>7. MayBeUnder(states[n - 4], Top)
    BY <1>7, <2>1, <2>2, <2>4, <2>6, UnderRuleOfFour
  <2>8. Found(4)
    <3>1. \A i \in n - 4 + 1 .. n - 1 : i \in {n - 1, n - 2, n - 3}
      BY <1>1
    <3>2. \A i \in n - 4 + 1 .. n - 1 : states[i] \notin {19, 35}
      BY <2>1, <2>3, <2>5, <3>1
    <3>3. Bracketed(n)
      BY <1>1, <1>7, <2>1, <2>3, <2>5 DEF Bracketed, BracketStates
    <3> QED
      BY <1>7, <2>6, <2>7, <3>2, <3>3 DEF Reduces
  <2> QED
    BY <1>2, <2>8
<1>8. CASE Reduces(Top, 5) /\ Top = 34
  <2>1. n - 1 \in 1 .. n /\ states[n - 1] = 25
    <3>1. states[n] # 0
      BY <1>1, <1>8
    <3>2. n - 1 \in 1 .. n /\ MayFollow(states[n - 1], states[n])
      BY <1>1, <3>1
    <3> QED
      BY <1>1, <1>8, <3>2, InsideLongRules
  <2>2. n - 2 \in 1 .. n /\ states[n - 2] = 8
    BY <1>1, <2>1, InsideLongRules
  <2>3. n - 3 \in 1 .. n /\ states[n - 3] = 5
    BY <1>1, <2>2, InsideLongRules
  <2>4. n - 4 \in 1 .. n /\ states[n - 4] = 1
    BY <1>1, <2>3, InsideLongRules
  <2>5. n - 5 \in 1 .. n /\ MayBeUnder(states[n - 5], Top)
    BY <1>1, <1>8, <2>4, InsideLongRules
  <2>6. Found(5)
    <3>1. \A i \in n - 5 + 1 .. n - 1 : i \in {n - 1, n - 2, n - 3, n - 4}
      BY <1>1
    <3>2. \A i \in n - 5 + 1 .. n - 1 : states[i] \notin {19, 35}
      BY <2>1, <2>2, <2>3, <2>4, <3>1
    <3>3. Unbracketed(n, 5)
      <4>1. \A i \in n - 5 + 1 .. n : i \in {n, n - 1, n - 2, n - 3, n - 4}
        BY <1>1
      <4>2. states[n] = 34
        BY <1>1, <1>8
      <4> QED
        BY <2>1, <2>2, <2>3, <2>4, <4>1, <4>2 DEF Unbracketed, BracketStates
    <3> QED
      BY <1>8, <2>5, <3>2, <3>3 DEF Reduces
  <2> QED
    BY <1>2, <2>6
<1> QED
  BY <1>1, <1>3, <1>4, <1>5, <1>6, <1>7, <1>8, RuleLengths

(* What is pushed on a part of a stack.                                    *)
LEMMA PushedOnPart ==
  ASSUME NEW T, NEW s \in Seq(T), NEW m \in 0 .. Len(s), NEW x \in T
  PROVE  /\ SubSeq(s, 1, m) \in Seq(T) /\ Len(SubSeq(s, 1, m)) = m
         /\ \A i \in 1 .. m : SubSeq(s, 1, m)[i] = s[i]
         /\ Append(SubSeq(s, 1, m), x) \in Seq(T)
         /\ Len(Append(SubSeq(s, 1, m), x)) = m + 1
         /\ Append(SubSeq(s, 1, m), x)[m + 1] = x
         /\ \A i \in 1 .. m : Append(SubSeq(s, 1, m), x)[i] = s[i]
<1> DEFINE p == SubSeq(s, 1, m)
<1>1. m \in Nat /\ Len(s) \in Nat
  BY LenProperties
<1>2. /\ p \in Seq(T) /\ Len(p) = m
      /\ \A i \in 1 .. m : p[i] = s[i]
  <2>1. \A i \in 1 .. m : s[i] \in T
    BY <1>1, ElementOfSeq
  <2> QED
    BY <1>1, <2>1, SubSeqProperties
<1> HIDE DEF p
<1>3. /\ Append(p, x) \in Seq(T) /\ Len(Append(p, x)) = m + 1
      /\ Append(p, x)[m + 1] = x
      /\ \A i \in 1 .. m : Append(p, x)[i] = p[i]
  BY <1>2, AppendProperties
<1> QED
  BY <1>2, <1>3 DEF p

-----------------------------------------------------------------------------
(* The end of yyparse(): what is on the stack and the look-ahead are all   *)
(* the strings there are.                                                  *)

Held ==
  {<<i, values[i]>> : i \in StringPlaces}
    \cup (IF char = TOK_STRING THEN {<<0, lval>>} ELSE {})

LEMMA HeldIsHeap ==
  ASSUME StringsAreOwned
  PROVE  /\ {f[2] : f \in Held} = heap
         /\ \A f, g \in Held : f[2] = g[2] => f = g
<1>1. \A f \in Held : \/ \E i \in StringPlaces : f = <<i, values[i]>>
                      \/ char = TOK_STRING /\ f = <<0, lval>>
  BY DEF Held
<1>2. \A f \in Held : f[2] \in heap
  BY <1>1 DEF StringsAreOwned
<1>3. \A c \in heap : \E f \in Held : f[2] = c
  <2> SUFFICES ASSUME NEW c \in heap PROVE \E f \in Held : f[2] = c
    OBVIOUS
  <2>1. CASE char = TOK_STRING /\ c = lval
    <3>1. <<0, lval>> \in Held /\ <<0, lval>>[2] = c
      BY <2>1 DEF Held
    <3> QED
      BY <3>1
  <2>2. ASSUME NEW i \in StringPlaces, c = values[i]
        PROVE  \E f \in Held : f[2] = c
    <3>1. <<i, values[i]>> \in Held /\ <<i, values[i]>>[2] = c
      BY <2>2 DEF Held
    <3> QED
      BY <3>1
  <2> QED
    BY <2>1, <2>2 DEF StringsAreOwned
<1>4. ASSUME NEW f \in Held, NEW g \in Held, f[2] = g[2] PROVE f = g
  BY <1>1, <1>4 DEF StringsAreOwned
<1> QED
  BY <1>2, <1>3, <1>4

LEMMA ReturnKeeps ==
  ASSUME IInv, NEW r \in {0, 1, 2}, NEW m \in 1 .. Len(states), NEW p, NEW v,
         Len(p) = m, \A i \in 1 .. m : p[i] = states[i] /\ v[i] = values[i],
         StringPlaces \subseteq 1 .. m, Return(r, p, v), nerrs' \in {0, 1}
  PROVE  IInv' /\ heap' = {}
<1>1. Destroyed(p, v) = Held
  <2>1. {j \in 2 .. Len(p) : At(yystos, p[j]) = TOK_STRING} = StringPlaces
    BY StackStates DEF StringPlaces, IInv
  <2>2. {<<i, v[i]>> : i \in StringPlaces} = {<<i, values[i]>> : i \in StringPlaces}
    OBVIOUS
  <2> QED
    BY <2>1, <2>2 DEF Destroyed, Held
<1>2. heap' = {} /\ freedTwice' = FALSE
  <2>1. Free(Held)
    BY <1>1 DEF Return
  <2>2. heap' = heap \ {f[2] : f \in Held}
    BY <2>1 DEF Free
  <2>3. \A f \in Held : f[2] \in heap
    BY HeldIsHeap DEF IInv
  <2>4. \A f, g \in Held : f[2] = g[2] => f = g
    BY HeldIsHeap DEF IInv
  <2>5. freedTwice' = \/ freedTwice
                      \/ \E f \in Held : f[2] \notin heap
                      \/ \E f, g \in Held : f # g /\ f[2] = g[2]
    BY <2>1 DEF Free
  <2>6. freedTwice = FALSE
    BY DEF IInv, TypeOK
  <2>7. heap' = {}
    BY <2>2, HeldIsHeap DEF IInv
  <2> QED
    BY <2>3, <2>4, <2>5, <2>6, <2>7
<1>3. /\ result' = r /\ states' = <<0>> /\ values' = <<GARBAGE>> /\ size' = InitDepth
      /\ char' = EMPTY /\ lval' = GARBAGE /\ pending' = {}
  BY DEF Return
<1>4. /\ states' \in Seq(0 .. 50) /\ Len(states') = 1 /\ states'[1] = 0
      /\ values' \in Seq(Cells \cup {GARBAGE}) /\ Len(values') = 1
  BY <1>3
<1>5. TypeOK'
  <2>1. result' \in {-2, -1, 0, 1, 2} /\ char' \in Symbols \cup {EMPTY}
    BY <1>3
  <2>2. size' \in InitDepth .. MaxDepth
    BY <1>3, DepthAssumption
  <2>3. lval' \in Cells \cup {GARBAGE} /\ heap' \subseteq Cells /\ pending' \subseteq 11 .. 45
    BY <1>2, <1>3
  <2>4. freedTwice' \in BOOLEAN
    BY <1>2
  <2> QED
    BY <1>4, <2>1, <2>2, <2>3, <2>4 DEF TypeOK
<1>6. StackInBounds'
  <2>1. DOMAIN states' = 1 .. 1
    BY <1>4, LenProperties
  <2> QED
    BY <1>3, <1>4, <2>1, DepthAssumption DEF StackInBounds
<1>7. StackIsPath'
  BY <1>4 DEF StackIsPath
<1>8. StringsAreOwned'
  BY <1>2, <1>3, <1>4 DEF StringsAreOwned, StringPlaces, EMPTY, TOK_STRING
<1>9. DueRules' /\ NothingHeld'
  BY <1>3, <1>4 DEF DueRules, NothingHeld, Running
<1> QED
  BY <1>2, <1>5, <1>6, <1>7, <1>8, <1>9 DEF IInv

(* The stacks as they are.                                                 *)
LEMMA ReturnOfStacks ==
  ASSUME IInv, NEW r \in {0, 1, 2}, Return(r, states, values), nerrs' \in {0, 1}
  PROVE  IInv' /\ heap' = {}
<1>1. /\ Len(states) \in 1 .. Len(states)
      /\ StringPlaces \subseteq 1 .. Len(states)
  BY StackStates DEF IInv, StringPlaces
<1> QED
  BY <1>1, ReturnKeeps

-----------------------------------------------------------------------------
(* Every step keeps the invariant.                                         *)

LEMMA CallKeeps ==
  ASSUME IInv, Call PROVE IInv'
<1>1. /\ result' = Running /\ nerrs' = 0
      /\ UNCHANGED <<states, values, size, char, lval, heap, freedTwice, pending>>
  BY DEF Call
<1>2. TypeOK'
  BY <1>1 DEF IInv, TypeOK, Running
<1>3. StackInBounds' /\ StackIsPath'
  BY <1>1 DEF IInv, StackInBounds, StackIsPath
<1>4. StringsAreOwned'
  BY <1>1 DEF IInv, StringsAreOwned, StringPlaces
<1>5. DueRules' /\ NothingHeld' /\ ~freedTwice'
  BY <1>1 DEF IInv, DueRules, NothingHeld, Top
<1> QED
  BY <1>2, <1>3, <1>4, <1>5 DEF IInv

LEMMA GrowKeeps ==
  ASSUME IInv, Grow PROVE IInv'
<1> DEFINE larger == Min2(2 * size, MaxDepth)
<1>1. /\ result = Running /\ size < MaxDepth
      /\ \/ /\ size' = larger
            /\ UNCHANGED <<result, nerrs, states, values, char, lval, heap, freedTwice, pending>>
         \/ Return(1, states, values) /\ UNCHANGED nerrs
  BY DEF Grow, Keep
<1>2. size \in Nat /\ MaxDepth \in Nat /\ InitDepth \in Nat /\ InitDepth <= size
  BY DepthAssumption DEF IInv, TypeOK
<1>3. larger \in size .. MaxDepth
  BY <1>1, <1>2 DEF Min2
<1>4. CASE Return(1, states, values) /\ UNCHANGED nerrs
  BY <1>4, ReturnOfStacks DEF IInv, TypeOK
<1>5. CASE /\ size' = larger
           /\ UNCHANGED <<result, nerrs, states, values, char, lval, heap, freedTwice, pending>>
  <2> HIDE DEF larger
  <2>1. size' \in InitDepth .. MaxDepth /\ size <= size'
    BY <1>2, <1>3, <1>5
  <2>2. TypeOK'
    BY <1>5, <2>1 DEF IInv, TypeOK
  <2>3. Len(states) \in Nat /\ Len(states) <= size
    BY LenProperties DEF IInv, TypeOK, StackInBounds
  <2>4. Len(states) <= size'
    BY <1>2, <2>1, <2>3
  <2>5. StackInBounds' /\ StackIsPath'
    BY <1>5, <2>4 DEF IInv, StackInBounds, StackIsPath
  <2>6. StringsAreOwned'
    BY <1>5 DEF IInv, StringsAreOwned, StringPlaces
  <2>7. DueRules' /\ NothingHeld' /\ ~freedTwice'
    BY <1>5 DEF IInv, DueRules, NothingHeld, Top
  <2> QED
    BY <2>2, <2>5, <2>6, <2>7 DEF IInv
<1> QED
  BY <1>1, <1>4, <1>5

(* The token is read into memory that no other string is in.               *)
LEMMA ReadKeeps ==
  ASSUME IInv, Read PROVE IInv' /\ pending = {}
<1>1. pending = {}
  BY DEF Read, IInv, DueRules
<1>2. PICK sym \in Symbols :
        /\ char' = sym
        /\ IF sym = TOK_STRING
           THEN \E c \in Cells \ heap : lval' = c /\ heap' = heap \cup {c}
           ELSE lval' = GARBAGE /\ UNCHANGED heap
  BY DEF Read
<1>3. /\ UNCHANGED <<result, nerrs, states, values, size, freedTwice, pending>>
      /\ result = Running /\ char = EMPTY
  BY DEF Read
<1>4. StringPlaces' = StringPlaces
  BY <1>3 DEF StringPlaces
<1>5. StackInBounds' /\ StackIsPath' /\ ~freedTwice'
  BY <1>3 DEF IInv, StackInBounds, StackIsPath
<1>6. DueRules' /\ NothingHeld'
  BY <1>1, <1>3 DEF IInv, DueRules, NothingHeld
<1>7. char # TOK_STRING
  BY <1>3 DEF EMPTY, TOK_STRING
<1>8. CASE sym = TOK_STRING
  <2>1. PICK c \in Cells \ heap : lval' = c /\ heap' = heap \cup {c}
    BY <1>2, <1>8
  <2>2. TypeOK'
    BY <1>2, <1>3, <2>1 DEF IInv, TypeOK
  <2>3. StringsAreOwned'
    BY <1>2, <1>3, <1>4, <1>7, <1>8, <2>1 DEF IInv, StringsAreOwned
  <2> QED
    BY <1>1, <1>5, <1>6, <2>2, <2>3 DEF IInv
<1>9. CASE sym # TOK_STRING
  <2>1. lval' = GARBAGE /\ heap' = heap
    BY <1>2, <1>9
  <2>2. TypeOK'
    BY <1>2, <1>3, <2>1 DEF IInv, TypeOK
  <2>3. StringsAreOwned'
    BY <1>2, <1>3, <1>4, <1>7, <1>9, <2>1 DEF IInv, StringsAreOwned
  <2> QED
    BY <1>1, <1>5, <1>6, <2>2, <2>3 DEF IInv
<1> QED
  BY <1>8, <1>9

(* The string of the look-ahead goes on the stack with it, and the rule    *)
(* whose code is due is the one that the new state reduces.                *)
LEMMA ShiftKeeps ==
  ASSUME IInv, Shift PROVE IInv'
<1> DEFINE n == Len(states)
           s == Entry(Top, char)
<1>1. /\ result = Running /\ Room /\ Top # FINAL /\ char # EMPTY
      /\ HasEntry(Top, char) /\ s > 0
      /\ states' = Append(states, s) /\ values' = Append(values, lval)
      /\ char' = EMPTY /\ pending' = (pending \cup {RuleOf(char)}) \ {0}
      /\ UNCHANGED <<result, nerrs, size, lval, heap, freedTwice>>
  BY DEF Shift, Keep
<1>2. /\ n \in Nat \ {0} /\ Len(values) = n /\ Top = states[n] /\ Top \in States
      /\ states \in Seq(0 .. 50) /\ values \in Seq(Cells \cup {GARBAGE})
      /\ \A i \in 1 .. n : states[i] \in States
  BY StackStates DEF IInv, TypeOK
<1>3. char \in Symbols
  BY <1>1 DEF IInv, TypeOK
<1>4. s \in 1 .. 50 /\ MayFollow(Top, s) /\ At(yystos, s) = char
  BY <1>1, <1>2, <1>3, ShiftFollows
<1>5. pending = {}
  BY <1>1 DEF IInv, DueRules, HasEntry
<1>6. RuleOf(char) # 0 =>
        ~NeedsToken(s) /\ RuleOf(char) = At(yydefact, s) /\ RuleOf(char) \in 11 .. 45
  BY <1>1, <1>2, <1>3, ShiftMakesDue
<1> HIDE DEF s
<1>7. /\ states' \in Seq(0 .. 50) /\ Len(states') = n + 1 /\ states'[n + 1] = s
      /\ \A i \in 1 .. n : states'[i] = states[i]
  BY <1>1, <1>2, <1>4, AppendProperties
<1>8. lval \in Cells \cup {GARBAGE}
  BY DEF IInv, TypeOK
<1>9. /\ values' \in Seq(Cells \cup {GARBAGE}) /\ Len(values') = n + 1
      /\ values'[n + 1] = lval
      /\ \A i \in 1 .. n : values'[i] = values[i]
  BY <1>1, <1>2, <1>8, AppendProperties
<1> HIDE DEF n
<1>10. pending' = IF RuleOf(char) = 0 THEN {} ELSE {RuleOf(char)}
  BY <1>1, <1>5
<1>11. TypeOK'
  <2>1. pending' \subseteq 11 .. 45
    BY <1>6, <1>10
  <2>2. result' \in {-2, -1, 0, 1, 2} /\ nerrs' \in {0, 1} /\ size' \in InitDepth .. MaxDepth
    BY <1>1 DEF IInv, TypeOK
  <2>3. /\ char' \in Symbols \cup {EMPTY} /\ lval' \in Cells \cup {GARBAGE}
        /\ heap' \subseteq Cells /\ freedTwice' \in BOOLEAN
    BY <1>1 DEF IInv, TypeOK
  <2> QED
    BY <1>7, <1>9, <2>1, <2>2, <2>3 DEF TypeOK
<1>12. StackInBounds'
  <2>1. size \in Nat /\ n < size
    BY <1>1, DepthAssumption DEF IInv, TypeOK, Room, n
  <2>2. \A i \in 1 .. n : i # 1 => states'[i] # 0
    BY <1>2, <1>7, LenProperties DEF IInv, StackInBounds, n
  <2>3. DOMAIN states' = 1 .. n + 1
    BY <1>7, LenProperties
  <2>4. \A i \in DOMAIN states' : i # 1 => states'[i] # 0
    BY <1>2, <1>4, <1>7, <2>2, <2>3
  <2> QED
    BY <1>1, <1>2, <1>7, <1>9, <2>1, <2>4 DEF StackInBounds
<1>13. StackIsPath'
  <2>1. states'[1] = 0
    BY <1>2, <1>7 DEF IInv, StackIsPath
  <2>2. ASSUME NEW i \in 2 .. n + 1 PROVE MayFollow(states'[i - 1], states'[i])
    <3>1. CASE i = n + 1
      BY <1>2, <1>4, <1>7, <3>1
    <3>2. CASE i \in 2 .. n
      <4>1. MayFollow(states[i - 1], states[i])
        BY <3>2 DEF IInv, StackIsPath, n
      <4> QED
        BY <1>2, <1>7, <3>2, <4>1
    <3> QED
      BY <1>2, <3>1, <3>2
  <2> QED
    BY <1>7, <2>1, <2>2 DEF StackIsPath
<1>14. StringPlaces' = IF char = TOK_STRING THEN StringPlaces \cup {n + 1} ELSE StringPlaces
  <2>1. \A i \in 2 .. n : states'[i] = states[i]
    BY <1>2, <1>7
  <2>2. \A i \in 2 .. n + 1 : i \in 2 .. n \/ i = n + 1
    BY <1>2
  <2>3. n + 1 \in 2 .. n + 1 /\ \A i \in 2 .. n : i \in 2 .. n + 1
    BY <1>2
  <2> QED
    BY <1>4, <1>7, <2>1, <2>2, <2>3 DEF StringPlaces, n
<1>15. StringsAreOwned'
  <2>1. \A i \in StringPlaces : values'[i] = values[i] /\ i # n + 1
    BY <1>2, <1>9 DEF StringPlaces, n
  <2>2. char' # TOK_STRING
    BY <1>1 DEF EMPTY, TOK_STRING
  <2>3. heap' = heap /\ values'[n + 1] = lval
    BY <1>1, <1>9
  <2>4. StringsAreOwned
    BY DEF IInv
  <2>5. CASE char = TOK_STRING
    <3>1. /\ \A i \in StringPlaces' : i \in StringPlaces \/ i = n + 1
          /\ \A i \in StringPlaces : i \in StringPlaces'
          /\ n + 1 \in StringPlaces'
      BY <1>14, <2>5
    <3>2. \A i \in StringPlaces' : values'[i] \in heap'
      BY <2>1, <2>3, <2>4, <2>5, <3>1 DEF StringsAreOwned
    <3>3. ASSUME NEW i \in StringPlaces', NEW j \in StringPlaces', values'[i] = values'[j]
          PROVE  i = j
      BY <2>1, <2>3, <2>4, <2>5, <3>1, <3>3 DEF StringsAreOwned
    <3>4. \A c \in heap' : \E i \in StringPlaces' : c = values'[i]
      BY <2>1, <2>3, <2>4, <2>5, <3>1 DEF StringsAreOwned
    <3> QED
      BY <2>2, <3>2, <3>3, <3>4 DEF StringsAreOwned
  <2>6. CASE char # TOK_STRING
    <3>1. StringPlaces' = StringPlaces
      BY <1>14, <2>6
    <3> QED
      BY <2>1, <2>2, <2>3, <2>4, <2>6, <3>1 DEF StringsAreOwned
  <2> QED
    BY <2>5, <2>6
<1>16. DueRules' /\ NothingHeld' /\ ~freedTwice'
  <2>1. Top' = s
    BY <1>7 DEF Top, Last
  <2>2. DueRules'
    BY <1>6, <1>10, <2>1 DEF DueRules
  <2> QED
    BY <1>1, <2>2 DEF IInv, NothingHeld
<1> QED
  BY <1>11, <1>12, <1>13, <1>15, <1>16 DEF IInv

(* The strings that a reduction frees: that of the top, if it has one.     *)
LEMMA ReductionFreesOnce ==
  ASSUME IInv, At(yydefact, Top) # 0, Free(FreedBy(At(yydefact, Top)))
  PROVE  /\ freedTwice' = FALSE
         /\ heap' = {c \in heap : Len(states) \in StringPlaces => c # values[Len(states)]}
<1> DEFINE n == Len(states)
           D == FreedBy(At(yydefact, Top))
<1>1. /\ n \in Nat \ {0} /\ Len(values) = n /\ Top = states[n] /\ Top \in States
      /\ states[1] = 0
  BY StackStates DEF IInv, StackIsPath
<1>2. At(yydefact, Top) \in StringRules <=> n \in StringPlaces
  <2>1. At(yydefact, Top) \in StringRules <=> At(yystos, Top) = TOK_STRING
    BY <1>1, StringStates
  <2>2. At(yystos, 0) # TOK_STRING
    BY DEF At, yystos, TOK_STRING
  <2> QED
    BY <1>1, <2>1, <2>2 DEF StringPlaces
<1>3. D = IF n \in StringPlaces THEN {<<n, values[n]>>} ELSE {}
  BY <1>1, <1>2 DEF FreedBy, Last
<1>4. heap' = heap \ {f[2] : f \in D}
  BY DEF Free
<1>5. freedTwice' = \/ freedTwice
                    \/ \E f \in D : f[2] \notin heap
                    \/ \E f, g \in D : f # g /\ f[2] = g[2]
  BY DEF Free
<1>6. n \in StringPlaces => values[n] \in heap
  BY DEF IInv, StringsAreOwned
<1>7. freedTwice = FALSE
  BY DEF IInv, TypeOK
<1> HIDE DEF D, n
<1>8. CASE n \in StringPlaces
  <2>1. D = {<<n, values[n]>>}
    BY <1>3, <1>8
  <2>2. {f[2] : f \in D} = {values[n]}
    BY <2>1
  <2>3. \A f, g \in D : f = g /\ f[2] \in heap
    BY <1>6, <1>8, <2>1
  <2> QED
    BY <1>4, <1>5, <1>7, <1>8, <2>2, <2>3 DEF n
<1>9. CASE n \notin StringPlaces
  BY <1>3, <1>4, <1>5, <1>7, <1>9 DEF n
<1> QED
  BY <1>8, <1>9

(* A reduction puts the left-hand side of its rule in place of the right.  *)
LEMMA ReduceKeeps ==
  ASSUME IInv, ReduceDefault PROVE IInv'
<1> DEFINE rule == At(yydefact, Top)
           n == Len(states)
           length == At(yyr2, rule)
           below == SubSeq(states, 1, n - length)
           valuesBelow == SubSeq(values, 1, Len(values) - length)
           g == GoTo(Last(below), rule)
<1>1. /\ result = Running /\ Room /\ Top # FINAL /\ rule # 0
      /\ \/ /\ states' = Append(below, g)
            /\ values' = Append(valuesBelow, DefaultValue(length))
            /\ pending' = pending \ {rule}
            /\ Free(FreedBy(rule))
            /\ UNCHANGED <<result, nerrs, size, char, lval>>
         \/ /\ rule \in AbortingRules
            /\ Return(1, below, valuesBelow)
            /\ UNCHANGED nerrs
  BY DEF ReduceDefault, Default, Reduce
<1>2. /\ n \in Nat \ {0} /\ Len(values) = n /\ Top = states[n] /\ Top \in States
      /\ states \in Seq(0 .. 50) /\ values \in Seq(Cells \cup {GARBAGE})
      /\ \A i \in 1 .. n : states[i] \in States
      /\ states[1] = 0
  BY StackStates DEF IInv, TypeOK, StackIsPath
<1>3. PICK k \in 0 .. 5 : RuleIsOnStack(k)
  BY <1>1, RuleOnStack DEF IInv
<1> DEFINE m == n - k
<1>4. /\ length = k /\ m \in 1 .. n /\ Lands(states[m], Top)
      /\ \A i \in m + 1 .. n - 1 : states[i] \notin {19, 35}
      /\ Top \in {19, 35} => k >= 1
  BY <1>2, <1>3 DEF RuleIsOnStack
<1>5. /\ below = SubSeq(states, 1, m) /\ valuesBelow = SubSeq(values, 1, m)
  BY <1>2, <1>4
<1>6. \A i \in StringPlaces : i \in 1 .. m \/ (i = n /\ k >= 1 /\ Top \in {19, 35})
  <2>1. StringPlaces = {i \in 2 .. n : states[i] \in {19, 35}}
    BY PlacesOfStrings DEF IInv
  <2> QED
    BY <1>2, <1>4, <2>1
<1> HIDE DEF rule, n, length, below, valuesBelow, g
<1>7. m \in 0 .. Len(states) /\ m \in 0 .. Len(values) /\ m \in 1 .. n /\ m \in Nat
  BY <1>2, <1>4 DEF n
<1>8. /\ Len(below) = m /\ \A i \in 1 .. m : below[i] = states[i]
  <2>1. 0 \in 0 .. 50
    OBVIOUS
  <2> QED
    BY <1>2, <1>5, <1>7, <2>1, PushedOnPart
<1>9. \A i \in 1 .. m : valuesBelow[i] = values[i]
  BY <1>2, <1>5, <1>7, PushedOnPart
<1>10. CASE /\ rule \in AbortingRules
            /\ Return(1, below, valuesBelow)
            /\ UNCHANGED nerrs
  <2>1. Top \notin {19, 35}
    BY <1>2, <1>10, StringStates, AbortsWithoutString DEF rule
  <2>2. StringPlaces \subseteq 1 .. m
    BY <1>6, <2>1
  <2>3. m \in 1 .. Len(states)
    BY <1>7 DEF n
  <2>4. nerrs' \in {0, 1}
    BY <1>10 DEF IInv, TypeOK
  <2>5. \A i \in 1 .. m : below[i] = states[i] /\ valuesBelow[i] = values[i]
    BY <1>8, <1>9
  <2> HIDE DEF m
  <2> QED
    BY <1>8, <1>10, <2>2, <2>3, <2>4, <2>5, ReturnKeeps
<1>11. CASE /\ states' = Append(below, g)
            /\ values' = Append(valuesBelow, DefaultValue(length))
            /\ pending' = pending \ {rule}
            /\ Free(FreedBy(rule))
            /\ UNCHANGED <<result, nerrs, size, char, lval>>
  <2>1. g \in 1 .. 50 /\ MayFollow(states[m], g) /\ g \notin {19, 35}
    <3>1. Last(below) = states[m]
      BY <1>7, <1>8 DEF Last
    <3> QED
      BY <1>4, <3>1 DEF Lands, g, rule
  <2>2. /\ states' \in Seq(0 .. 50) /\ Len(states') = m + 1 /\ states'[m + 1] = g
        /\ \A i \in 1 .. m : states'[i] = states[i]
    <3>1. g \in 0 .. 50
      BY <2>1
    <3>2. states' = Append(SubSeq(states, 1, m), g)
      BY <1>5, <1>11
    <3>3. states \in Seq(0 .. 50) /\ m \in 0 .. Len(states)
      BY <1>2, <1>7
    <3> HIDE DEF m
    <3>4. /\ Append(SubSeq(states, 1, m), g) \in Seq(0 .. 50)
          /\ Len(Append(SubSeq(states, 1, m), g)) = m + 1
          /\ Append(SubSeq(states, 1, m), g)[m + 1] = g
          /\ \A i \in 1 .. m : Append(SubSeq(states, 1, m), g)[i] = states[i]
      <4> DEFINE T == 0 .. 50
      <4>1. g \in T /\ states \in Seq(T) /\ m \in 0 .. Len(states)
        BY <3>1, <3>3
      <4> HIDE DEF T
      <4>2. /\ Append(SubSeq(states, 1, m), g) \in Seq(T)
            /\ Len(Append(SubSeq(states, 1, m), g)) = m + 1
            /\ Append(SubSeq(states, 1, m), g)[m + 1] = g
            /\ \A i \in 1 .. m : Append(SubSeq(states, 1, m), g)[i] = states[i]
        BY <4>1, PushedOnPart
      <4> QED
        BY <4>2 DEF T
    <3> QED
      BY <3>2, <3>4
  <2>3. DefaultValue(length) \in Cells \cup {GARBAGE}
    <3>1. CASE k = 0
      BY <1>4, <3>1 DEF DefaultValue
    <3>2. CASE k # 0
      <4>1. n + 1 - k \in 1 .. Len(values)
        BY <1>2, <1>4, <3>2
      <4>2. values[n + 1 - k] \in Cells \cup {GARBAGE}
        BY <1>2, <4>1, ElementOfSeq
      <4> QED
        BY <1>2, <1>4, <3>2, <4>2 DEF DefaultValue
    <3> QED
      BY <3>1, <3>2
  <2>4. /\ values' \in Seq(Cells \cup {GARBAGE}) /\ Len(values') = m + 1
        /\ \A i \in 1 .. m : values'[i] = values[i]
    BY <1>2, <1>5, <1>7, <1>11, <2>3, PushedOnPart, SMTT(30)
  <2>5. /\ freedTwice' = FALSE
        /\ heap' = {c \in heap : n \in StringPlaces => c # values[n]}
    BY <1>1, <1>11, ReductionFreesOnce DEF rule, n
  <2>6. pending' = {}
    BY <1>11 DEF IInv, DueRules, rule
  <2>7. TypeOK'
    <3>1. result' \in {-2, -1, 0, 1, 2} /\ nerrs' \in {0, 1} /\ size' \in InitDepth .. MaxDepth
      BY <1>11 DEF IInv, TypeOK
    <3>2. char' \in Symbols \cup {EMPTY} /\ lval' \in Cells \cup {GARBAGE}
      BY <1>11 DEF IInv, TypeOK
    <3>3. heap' \subseteq Cells /\ freedTwice' \in BOOLEAN /\ pending' \subseteq 11 .. 45
      BY <2>5, <2>6 DEF IInv, TypeOK
    <3> QED
      BY <2>2, <2>4, <3>1, <3>2, <3>3 DEF TypeOK
  <2>8. StackInBounds'
    <3>1. size \in Nat /\ n < size
      BY <1>1, DepthAssumption DEF IInv, TypeOK, Room, n
    <3>2. DOMAIN states' = 1 .. m + 1
      BY <2>2, LenProperties
    <3>3. \A i \in 1 .. n : i # 1 => states[i] # 0
      BY <1>2, LenProperties DEF IInv, StackInBounds, n
    <3>4. \A i \in DOMAIN states' : i # 1 => states'[i] # 0
      <4>1. \A i \in 1 .. m + 1 : i \in 1 .. m \/ i = m + 1
        BY <1>7
      <4>2. \A i \in 1 .. m : i \in 1 .. n
        BY <1>2, <1>7
      <4> HIDE DEF m
      <4> QED
        BY <2>1, <2>2, <3>2, <3>3, <4>1, <4>2
    <3> QED
      BY <1>2, <1>7, <1>11, <2>2, <2>4, <3>1, <3>4 DEF StackInBounds
  <2>9. StackIsPath'
    <3>1. states'[1] = 0
      BY <1>2, <1>7, <2>2
    <3>2. ASSUME NEW i \in 2 .. m + 1 PROVE MayFollow(states'[i - 1], states'[i])
      <4>1. CASE i = m + 1
        BY <1>7, <2>1, <2>2, <4>1
      <4>2. CASE i \in 2 .. m
        <5>1. i \in 2 .. n
          BY <1>2, <1>7, <4>2
        <5>2. MayFollow(states[i - 1], states[i])
          BY <5>1 DEF IInv, StackIsPath, n
        <5>3. i - 1 \in 1 .. m /\ i \in 1 .. m
          BY <1>7, <4>2
        <5> QED
          BY <2>2, <5>2, <5>3
      <4> QED
        BY <1>7, <4>1, <4>2
    <3> QED
      BY <2>2, <3>1, <3>2 DEF StackIsPath
  <2>10. StringPlaces' = {i \in StringPlaces : i # n \/ k = 0}
    <3>1. \A i \in 2 .. m + 1 : i \in 2 .. m \/ i = m + 1
      BY <1>7
    <3>2. \A i \in 2 .. m : i \in 2 .. n /\ i \in 2 .. m + 1 /\ i \in 1 .. m
      BY <1>2, <1>7
    <3>3. StringPlaces = {i \in 2 .. n : states[i] \in {19, 35}}
      BY PlacesOfStrings DEF IInv, n
    <3>4. \A i \in 2 .. m + 1 : states'[i] \in States
      <4>1. \A i \in 1 .. m + 1 : states'[i] \in 0 .. 50
        BY <2>2, ElementOfSeq
      <4>2. \A i \in 2 .. m + 1 : i \in 1 .. m + 1
        BY <1>7
      <4> QED
        BY <4>1, <4>2 DEF States
    <3>5. StringPlaces' = {i \in 2 .. m + 1 : states'[i] \in {19, 35}}
      BY <2>2, <3>4, StringStates DEF StringPlaces
    <3>6. StringPlaces' = {i \in 2 .. m : states[i] \in {19, 35}}
      BY <2>1, <2>2, <3>1, <3>2, <3>5
    <3>7. {i \in 2 .. m : states[i] \in {19, 35}} = {i \in StringPlaces : i # n \/ k = 0}
      <4>1. \A i \in StringPlaces : i # n \/ k = 0 => i \in 2 .. m
        BY <1>2, <1>4, <1>6, <3>3
      <4>2. k = 0 \/ n \notin 2 .. m
        BY <1>2, <1>4
      <4> QED
        BY <3>2, <3>3, <4>1, <4>2
    <3> QED
      BY <3>6, <3>7
  <2>11. n \in StringPlaces => k # 0
    <3>1. n \in StringPlaces => Top \in {19, 35}
      BY <1>2, PlacesOfStrings DEF IInv
    <3> QED
      BY <1>4, <3>1
  <2>12. StringPlaces' = {i \in StringPlaces : i # n}
    BY <2>10, <2>11
  <2>13. StringsAreOwned'
    <3>1. \A i \in StringPlaces' : i \in StringPlaces /\ i # n /\ values'[i] = values[i]
      BY <1>6, <2>4, <2>12
    <3>2. char' = char /\ lval' = lval
      BY <1>11
    <3>3. \A c \in heap' : c \in heap
      BY <2>5
    <3>4. StringsAreOwned
      BY DEF IInv
    <3>5. \A i \in StringPlaces' : values'[i] \in heap'
      BY <2>5, <3>1, <3>4 DEF StringsAreOwned
    <3>6. \A i, j \in StringPlaces' : values'[i] = values'[j] => i = j
      BY <3>1, <3>4 DEF StringsAreOwned
    <3>7. char' = TOK_STRING => lval' \in heap' /\ \A i \in StringPlaces' : values'[i] # lval'
      BY <2>5, <3>1, <3>2, <3>4 DEF StringsAreOwned
    <3>8. \A c \in heap' : \/ char' = TOK_STRING /\ c = lval'
                           \/ \E i \in StringPlaces' : c = values'[i]
      <4>1. ASSUME NEW c \in heap', NEW i \in StringPlaces, c = values[i]
            PROVE  i \in StringPlaces' /\ c = values'[i]
        BY <2>5, <2>12, <3>1, <4>1
      <4> QED
        BY <3>2, <3>3, <3>4, <4>1 DEF StringsAreOwned
    <3> QED
      BY <3>5, <3>6, <3>7, <3>8 DEF StringsAreOwned
  <2>14. DueRules' /\ NothingHeld' /\ ~freedTwice'
    BY <1>1, <1>11, <2>5, <2>6 DEF IInv, DueRules, NothingHeld
  <2> QED
    BY <2>7, <2>8, <2>9, <2>13, <2>14 DEF IInv
<1> QED
  BY <1>1, <1>10, <1>11

-----------------------------------------------------------------------------
(* The invariant.                                                          *)

LEMMA InitEstablishes == Init => IInv
<1> SUFFICES ASSUME Init PROVE IInv
  OBVIOUS
<1>1. /\ result = Idle /\ nerrs = 0 /\ states = <<0>> /\ values = <<GARBAGE>>
      /\ size = InitDepth /\ char = EMPTY /\ lval = GARBAGE
      /\ heap = {} /\ freedTwice = FALSE /\ pending = {}
  BY DEF Init
<1>2. /\ states \in Seq(0 .. 50) /\ Len(states) = 1 /\ states[1] = 0
      /\ values \in Seq(Cells \cup {GARBAGE}) /\ Len(values) = 1
  BY <1>1
<1>3. TypeOK
  <2>1. result \in {-2, -1, 0, 1, 2} /\ nerrs \in {0, 1} /\ char \in Symbols \cup {EMPTY}
    BY <1>1 DEF Idle
  <2>2. size \in InitDepth .. MaxDepth
    BY <1>1, DepthAssumption
  <2>3. /\ lval \in Cells \cup {GARBAGE} /\ heap \subseteq Cells /\ pending \subseteq 11 .. 45
        /\ freedTwice \in BOOLEAN
    BY <1>1
  <2> QED
    BY <1>2, <2>1, <2>2, <2>3 DEF TypeOK
<1>4. StackInBounds
  <2>1. DOMAIN states = 1 .. 1
    BY <1>2, LenProperties
  <2> QED
    BY <1>1, <1>2, <2>1, DepthAssumption DEF StackInBounds
<1>5. StackIsPath
  BY <1>2 DEF StackIsPath
<1>6. StringsAreOwned
  BY <1>1, <1>2 DEF StringsAreOwned, StringPlaces, EMPTY, TOK_STRING
<1>7. DueRules /\ NothingHeld /\ ~freedTwice
  BY <1>1, <1>2 DEF DueRules, NothingHeld, Idle, Running
<1> QED
  BY <1>3, <1>4, <1>5, <1>6, <1>7 DEF IInv

LEMMA NextKeeps ==
  ASSUME IInv, [Next]_vars
  PROVE  IInv' /\ (char = EMPTY /\ char' # EMPTY => pending = {})
<1> DEFINE Timely == char = EMPTY /\ char' # EMPTY => pending = {}
<1>1. CASE Call
  BY <1>1, CallKeeps DEF Call
<1>2. CASE Grow
  <2>1. char' = char \/ char' = EMPTY
    BY <1>2 DEF Grow, Return
  <2> QED
    BY <1>2, <2>1, GrowKeeps
<1>3. CASE Exhaust
  <2>1. Return(2, states, values) /\ nerrs' \in {0, 1} /\ char' = EMPTY
    BY <1>3 DEF Exhaust, Return, IInv, TypeOK
  <2> QED
    BY <2>1, ReturnOfStacks
<1>4. CASE Accept
  <2>1. Return(0, states, values) /\ nerrs' \in {0, 1} /\ char' = EMPTY
    BY <1>4 DEF Accept, Return, IInv, TypeOK
  <2> QED
    BY <2>1, ReturnOfStacks
<1>5. CASE Read
  BY <1>5, ReadKeeps
<1>6. CASE Shift
  BY <1>6, ShiftKeeps DEF Shift
<1>7. CASE ReduceDefault
  <2>1. char' = char \/ char' = EMPTY
    BY <1>7 DEF ReduceDefault, Reduce, Return
  <2> QED
    BY <1>7, <2>1, ReduceKeeps
<1>8. CASE SyntaxError
  <2>1. nerrs = 0
    BY <1>8 DEF SyntaxError, Default, IInv, NothingHeld
  <2>2. Return(1, states, values) /\ nerrs' \in {0, 1} /\ char' = EMPTY
    BY <1>8, <2>1 DEF SyntaxError, Return
  <2> QED
    BY <2>2, ReturnOfStacks
<1>9. CASE UNCHANGED vars
  <2>1. UNCHANGED <<result, nerrs, states, values, size, char, lval, heap, freedTwice, pending>>
    BY <1>9 DEF vars, parse
  <2>2. TypeOK' /\ StackInBounds' /\ StackIsPath'
    BY <2>1 DEF IInv, TypeOK, StackInBounds, StackIsPath
  <2>3. StringsAreOwned' /\ DueRules' /\ NothingHeld' /\ ~freedTwice'
    BY <2>1 DEF IInv, StringsAreOwned, StringPlaces, DueRules, NothingHeld, Top
  <2> QED
    BY <2>1, <2>2, <2>3 DEF IInv
<1> QED
  BY <1>1, <1>2, <1>3, <1>4, <1>5, <1>6, <1>7, <1>8, <1>9 DEF Next, Step

(* The inductive invariant of the parser's loop holds of every parse.      *)
THEOREM LoopInvariant == Spec => []IInv
<1>1. Init => IInv
  BY InitEstablishes
<1>2. IInv /\ [Next]_vars => IInv'
  BY NextKeeps
<1> QED
  BY <1>1, <1>2, PTL DEF Spec

(* yyparse(): the state, the stacks and the look-ahead are what their      *)
(* types say.                                                              *)
THEOREM ParseIsTyped == Spec => []TypeOK
<1>1. IInv => TypeOK
  BY DEF IInv
<1> QED
  BY <1>1, LoopInvariant, PTL

(* However deep a text is nested, yyssp and yyvsp never leave their arrays *)
(* and a reduction finds the whole right-hand side of its rule on them.    *)
THEOREM StacksStayInBounds == Spec => []StackInBounds
<1>1. IInv => StackInBounds
  BY DEF IInv
<1> QED
  BY <1>1, LoopInvariant, PTL

(* Every string of the scanner is freed once, whether its rule is reduced, *)
(* the code of a rule aborts, the text is refused or the stacks are full.  *)
THEOREM StringsAreFreedOnce == Spec => []StringsFreedOnce
<1>1. IInv => StringsFreedOnce
  <2> SUFFICES ASSUME IInv PROVE StringsFreedOnce
    OBVIOUS
  <2>1. ASSUME result # Running PROVE heap = {}
    <3>1. Len(states) = 1 /\ char # TOK_STRING
      BY <2>1 DEF IInv, NothingHeld, EMPTY, TOK_STRING
    <3>2. StringPlaces = {}
      BY <3>1 DEF StringPlaces
    <3> QED
      BY <3>1, <3>2 DEF IInv, StringsAreOwned
  <2> QED
    BY <2>1 DEF IInv, StringsFreedOnce
<1> QED
  BY <1>1, LoopInvariant, PTL

(* No token is read while the code of a rule is due that handles an        *)
(* earlier one, as its name and its line are read from the scanner.        *)
THEOREM CodeRunsInTime == Spec => CodeRunsBeforeNextToken
<1>1. IInv /\ [Next]_vars => [char = EMPTY /\ char' # EMPTY => pending = {}]_vars
  BY NextKeeps
<1> QED
  BY <1>1, LoopInvariant, PTL DEF Spec, CodeRunsBeforeNextToken

-----------------------------------------------------------------------------
(***************************************************************************)
(* The automaton implements the grammar.  The state on top of the stack    *)
(* and the brackets that are open behind it say what is expected; they say *)
(* the same before and after every step that the grammar does not see.     *)
(***************************************************************************)

Types == {"GROUP", "ARRAY", "LIST"}

LEMMA BracketsAreTyped ==
  ASSUME NEW b \in Seq(Types), NEW sym PROVE BracketsAfter(b, sym) \in Seq(Types)
<1>1. ASSUME sym \in {17, 19, 22} PROVE BracketsAfter(b, sym) \in Seq(Types)
  <2>1. BracketOf(sym) \in Types
    BY DEF BracketOf, Types
  <2>2. <<BracketOf(sym)>> \in Seq(Types)
    BY <2>1
  <2>3. <<BracketOf(sym)>> \o b \in Seq(Types)
    BY <2>2, ConcatProperties
  <2> QED
    BY <1>1, <2>3 DEF BracketsAfter
<1>2. SubSeq(b, 2, Len(b)) \in Seq(Types)
  <2>1. Len(b) \in Nat /\ \A i \in 2 .. Len(b) : b[i] \in Types
    BY LenProperties, ElementOfSeq
  <2> QED
    BY <2>1, SubSeqProperties
<1> QED
  BY <1>1, <1>2 DEF BracketsAfter

BracketsBody(s, w) ==
  [i \in 0 .. Len(s) |-> IF i = 0 THEN <<>> ELSE BracketsAfter(w[i - 1], At(yystos, s[i]))]
BracketsFun(s) == CHOOSE w : w = BracketsBody(s, w)

LEMMA BracketsUnfold ==
  ASSUME NEW s \in Seq(States)
  PROVE  /\ BracketsOn(s) \in [0 .. Len(s) -> Seq(Types)]
         /\ BracketsOn(s)[0] = <<>>
         /\ \A i \in 1 .. Len(s) :
              BracketsOn(s)[i] = BracketsAfter(BracketsOn(s)[i - 1], At(yystos, s[i]))
<1> DEFINE N == Len(s)
           V == Seq(Types)
           a == <<>>
           comb == [p \in (1 .. N) \X V |-> BracketsAfter(p[2], At(yystos, s[p[1]]))]
<1>1. N \in Nat /\ a \in V
  BY LenProperties
<1>2. \A k \in 1 .. N, v \in V : comb[<<k, v>>] = BracketsAfter(v, At(yystos, s[k]))
  BY Zenon
<1>3. \A k \in 1 .. N, v \in V : comb[<<k, v>>] \in V
  <2> HIDE DEF comb
  <2> QED
    BY <1>2, BracketsAreTyped
<1> HIDE DEF comb, N, V, a
<1>4. PICK w \in [0 .. N -> V] : Counts(w, N, a, comb)
  BY <1>1, <1>3, CountedExists, Zenon
<1>5. /\ w[0] = <<>>
      /\ \A k \in 1 .. N : w[k] = BracketsAfter(w[k - 1], At(yystos, s[k]))
  <2>1. \A k \in 1 .. N : k - 1 \in 0 .. N
    BY <1>1
  <2>2. \A k \in 1 .. N : w[k - 1] \in V
    BY <2>1
  <2> QED
    BY <1>2, <1>4, <2>2 DEF Counts, a
<1>6. w = BracketsBody(s, w)
  <2>1. \A k \in 0 .. N : w[k] = IF k = 0 THEN <<>> ELSE BracketsAfter(w[k - 1], At(yystos, s[k]))
    <3>1. \A k \in 0 .. N : k = 0 \/ k \in 1 .. N
      BY <1>1
    <3>2. \A k \in 1 .. N : k # 0
      BY <1>1
    <3> QED
      BY <1>5, <3>1, <3>2, Zenon
  <2>2. w = [k \in 0 .. N |-> w[k]]
    OBVIOUS
  <2> QED
    BY <2>1, <2>2, Zenon DEF BracketsBody, N
<1>7. BracketsFun(s) = BracketsBody(s, BracketsFun(s))
  BY <1>6, Zenon DEF BracketsFun
<1>8. BracketsOn(s) = BracketsFun(s)
  BY Zenon DEF BracketsOn, BracketsFun, BracketsBody
<1> DEFINE e == BracketsOn(s)
<1>9. e = [i \in 0 .. N |-> IF i = 0 THEN <<>> ELSE BracketsAfter(e[i - 1], At(yystos, s[i]))]
  BY <1>7, <1>8, Zenon DEF BracketsBody, N
<1> HIDE DEF e
<1>10. /\ e[0] = <<>>
       /\ \A i \in 1 .. N : e[i] = BracketsAfter(e[i - 1], At(yystos, s[i]))
  BY <1>1, <1>9
<1>11. \A i \in 0 .. N : e[i] \in V
  <2> DEFINE T == {i \in 0 .. N : e[i] \in V}
  <2>1. 0 \in T /\ T \in SUBSET (0 .. N)
    BY <1>1, <1>10 DEF a
  <2>2. ASSUME NEW i \in 1 .. N, i - 1 \in T PROVE i \in T
    <3>1. i \in 0 .. N /\ e[i - 1] \in Seq(Types)
      BY <1>1, <2>2 DEF V
    <3> QED
      BY <1>10, <3>1, BracketsAreTyped DEF V
  <2> HIDE DEF T
  <2>3. T = 0 .. N
    BY <1>1, <2>1, <2>2, CountedSet
  <2> QED
    BY <2>3 DEF T
<1>12. e \in [0 .. N -> V]
  BY <1>9, <1>11
<1> QED
  BY <1>10, <1>12 DEF e, N, V

(* A stack with the same states below has the same brackets.               *)
LEMMA BracketsBelow ==
  ASSUME NEW s \in Seq(States), NEW t \in Seq(States), NEW m \in 0 .. Len(s), m <= Len(t),
         \A i \in 1 .. m : t[i] = s[i]
  PROVE  \A i \in 0 .. m : BracketsOn(t)[i] = BracketsOn(s)[i]
<1> DEFINE T == {i \in 0 .. m : BracketsOn(t)[i] = BracketsOn(s)[i]}
<1>1. Len(s) \in Nat /\ Len(t) \in Nat /\ m \in Nat
  BY LenProperties
<1>2. 0 \in T /\ T \in SUBSET (0 .. m)
  BY <1>1, BracketsUnfold
<1>3. ASSUME NEW i \in 1 .. m, i - 1 \in T PROVE i \in T
  <2>1. i \in 0 .. m /\ i \in 1 .. Len(s) /\ i \in 1 .. Len(t)
    BY <1>1
  <2>2. BracketsOn(s)[i] = BracketsAfter(BracketsOn(s)[i - 1], At(yystos, s[i]))
    BY <2>1, BracketsUnfold
  <2>3. BracketsOn(t)[i] = BracketsAfter(BracketsOn(t)[i - 1], At(yystos, t[i]))
    BY <2>1, BracketsUnfold
  <2> QED
    BY <1>3, <2>1, <2>2, <2>3
<1> HIDE DEF T
<1>4. T = 0 .. m
  BY <1>1, <1>2, <1>3, CountedSet
<1> QED
  BY <1>4 DEF T

(* The innermost bracket.                                                  *)
Innermost(b) == IF b = <<>> THEN "GROUP" ELSE Head(b)

(* In which bracket the parser is in a state, where the state alone says   *)
(* so; the states of values are in any.                                    *)
ContextOf(b, s) ==
  /\ s \in {0, 2, 3, 6} => b = <<>>
  /\ s \in {22, 31, 42, 43} => b # <<>>
  /\ s \in 0 .. 8 \cup {22, 25, 31, 32, 33, 34, 42, 43} => Innermost(b) = "GROUP"
  /\ s \in {20, 29, 36, 37, 38, 44, 49} => b # <<>> /\ Innermost(b) = "ARRAY"
  /\ s \in {21, 30, 39, 40, 41, 46, 50} => b # <<>> /\ Innermost(b) = "LIST"

LEMMA BracketsOfState ==
  ASSUME NEW b, NEW s \in States
  PROVE  /\ s \notin BracketStates => BracketsAfter(b, At(yystos, s)) = b
         /\ s \in {45, 47, 48} =>
              BracketsAfter(b, At(yystos, s)) = SubSeq(b, 2, Len(b))
         /\ s = 20 => BracketsAfter(b, At(yystos, s)) = <<"ARRAY">> \o b
         /\ s = 21 => BracketsAfter(b, At(yystos, s)) = <<"LIST">> \o b
         /\ s = 22 => BracketsAfter(b, At(yystos, s)) = <<"GROUP">> \o b
<1>1. /\ s \notin BracketStates => At(yystos, s) \notin 17 .. 20 \cup {22, 23}
      /\ s \in {45, 47, 48} => At(yystos, s) \in {18, 20, 23}
      /\ s = 20 => At(yystos, s) = 17
      /\ s = 21 => At(yystos, s) = 19
      /\ s = 22 => At(yystos, s) = 22
  BY DEF BracketStates, States, At, yystos
<1>2. BracketOf(17) = "ARRAY" /\ BracketOf(19) = "LIST" /\ BracketOf(22) = "GROUP"
  BY DEF BracketOf
<1> QED
  BY <1>1, <1>2 DEF BracketsAfter

LEMMA Pushed ==
  ASSUME NEW b \in Seq(Types), NEW t \in Types
  PROVE  /\ <<t>> \o b # <<>> /\ Head(<<t>> \o b) = t /\ Innermost(<<t>> \o b) = t
         /\ SubSeq(<<t>> \o b, 2, Len(<<t>> \o b)) = b
<1> DEFINE c == <<t>> \o b
<1>1. <<t>> \in Seq(Types) /\ Len(<<t>>) = 1 /\ <<t>>[1] = t /\ Len(b) \in Nat
  BY LenProperties
<1>2. /\ c \in Seq(Types) /\ Len(c) = Len(b) + 1 /\ c[1] = t
      /\ \A i \in 1 .. Len(b) : c[i + 1] = b[i]
  <2>1. /\ c \in Seq(Types) /\ Len(c) = 1 + Len(b)
        /\ \A i \in 1 .. 1 + Len(b) : c[i] = IF i <= 1 THEN <<t>>[i] ELSE b[i - 1]
    BY <1>1, ConcatProperties
  <2>2. c[1] = t
    BY <1>1, <2>1
  <2>3. \A i \in 1 .. Len(b) : c[i + 1] = b[i]
    BY <1>1, <2>1
  <2> QED
    BY <1>1, <2>1, <2>2, <2>3
<1> HIDE DEF c
<1>3. c # <<>> /\ Head(c) = t
  BY <1>1, <1>2, EmptySeq
<1>4. SubSeq(c, 2, Len(c)) = b
  <2> DEFINE d == SubSeq(c, 2, Len(c))
  <2>1. \A i \in 2 .. Len(c) : c[i] \in Types
    BY <1>1, <1>2, ElementOfSeq
  <2>2. /\ d \in Seq(Types) /\ Len(d) = Len(b)
        /\ \A i \in 1 .. Len(b) : d[i] = c[i + 1]
    <3>1. /\ d \in Seq(Types) /\ Len(d) = IF 2 <= Len(c) THEN Len(c) - 2 + 1 ELSE 0
          /\ \A i \in 1 .. Len(c) - 2 + 1 : d[i] = c[2 + i - 1]
      <4>1. Len(c) \in Int /\ 2 \in Int
        BY <1>1, <1>2
      <4> QED
        BY <2>1, <4>1, SubSeqProperties
    <3> HIDE DEF d
    <3>2. \A i \in 1 .. Len(b) : i \in 1 .. Len(c) - 2 + 1 /\ 2 + i - 1 = i + 1
      BY <1>1, <1>2
    <3> QED
      BY <1>1, <1>2, <3>1, <3>2
  <2> HIDE DEF d
  <2>3. \A i \in 1 .. Len(b) : d[i] = b[i]
    BY <1>2, <2>2
  <2>4. d = b
    BY <2>2, <2>3, SeqEqual
  <2> QED
    BY <2>4 DEF d
<1> QED
  BY <1>3, <1>4 DEF c, Innermost

(* States that are in the same bracket follow each other.                  *)
LEMMA ContextsBefore ==
  ASSUME NEW p \in Int, NEW s \in Int, MayFollow(p, s)
  PROVE  /\ s \in {0, 2, 3, 6} => p \in {0, 2}
         /\ s \in {31, 42, 43} => p \in {22, 31}
         /\ s \in 0 .. 8 \cup {25, 31, 32, 33, 34, 42, 43} =>
              p \in 0 .. 8 \cup {22, 25, 31, 32, 33, 34, 42, 43}
         /\ s \in {29, 36, 37, 38, 44, 49} => p \in {20, 29, 37, 44}
         /\ s \in {30, 39, 40, 41, 46, 50} => p \in {21, 30, 40, 46}
<1>1. s \in {0, 2, 3, 6} => p \in {0, 2}
  BY DEF MayFollow, ValueStarts, ScalarStarts
<1>2. s \in {31, 42, 43} => p \in {22, 31}
  BY DEF MayFollow, ValueStarts, ScalarStarts
<1>3. s \in 0 .. 8 \cup {25, 31, 32, 33, 34, 42, 43} =>
        p \in 0 .. 8 \cup {22, 25, 31, 32, 33, 34, 42, 43}
  BY DEF MayFollow, ValueStarts, ScalarStarts
<1>4. s \in {29, 36, 37, 38, 44, 49} => p \in {20, 29, 37, 44}
  BY DEF MayFollow, ValueStarts, ScalarStarts
<1>5. s \in {30, 39, 40, 41, 46, 50} => p \in {21, 30, 40, 46}
  BY DEF MayFollow, ValueStarts, ScalarStarts
<1> QED
  BY <1>1, <1>2, <1>3, <1>4, <1>5

LEMMA ContextStep ==
  ASSUME NEW p \in States, NEW s \in States, MayFollow(p, s),
         NEW b \in Seq(Types), ContextOf(b, p)
  PROVE  ContextOf(BracketsAfter(b, At(yystos, s)), s)
<1> DEFINE c == BracketsAfter(b, At(yystos, s))
<1>1. CASE s \in {20, 21, 22}
  <2>1. PICK t \in Types :
          c = <<t>> \o b /\ (s = 20 => t = "ARRAY") /\ (s = 21 => t = "LIST")
            /\ (s = 22 => t = "GROUP")
    <3>1. "ARRAY" \in Types /\ "LIST" \in Types /\ "GROUP" \in Types
      BY DEF Types
    <3> QED
      BY <1>1, <3>1, BracketsOfState
  <2>2. c # <<>> /\ Innermost(c) = t
    BY <2>1, Pushed
  <2> HIDE DEF c
  <2>3. ContextOf(c, s)
    BY <1>1, <2>1, <2>2 DEF ContextOf
  <2> QED
    BY <2>3 DEF c
<1>2. CASE s \in {45, 47, 48}
  BY <1>2 DEF ContextOf
<1>3. CASE s \notin BracketStates
  <2>1. c = b
    BY <1>3, BracketsOfState
  <2> HIDE DEF c
  <2>2. /\ s \in {0, 2, 3, 6} => p \in {0, 2}
        /\ s \in {31, 42, 43} => p \in {22, 31}
        /\ s \in 0 .. 8 \cup {25, 31, 32, 33, 34, 42, 43} =>
             p \in 0 .. 8 \cup {22, 25, 31, 32, 33, 34, 42, 43}
        /\ s \in {29, 36, 37, 38, 44, 49} => p \in {20, 29, 37, 44}
        /\ s \in {30, 39, 40, 41, 46, 50} => p \in {21, 30, 40, 46}
    <3>1. p \in Int /\ s \in Int
      BY DEF States
    <3> QED
      BY <3>1, ContextsBefore
  <2>3. ContextOf(b, s)
    BY <1>3, <2>2, SMTT(30) DEF ContextOf, BracketStates
  <2> QED
    BY <2>1, <2>3 DEF c
<1> QED
  BY <1>1, <1>2, <1>3 DEF BracketStates

(* A stack is a path of the automaton from its first state.                *)
IsPath(s) ==
  /\ s \in Seq(States) /\ Len(s) \in Nat \ {0}
  /\ s[1] = 0 /\ \A i \in 2 .. Len(s) : MayFollow(s[i - 1], s[i])

LEMMA ContextsOnPath ==
  ASSUME NEW s, IsPath(s)
  PROVE  \A i \in 1 .. Len(s) : ContextOf(BracketsOn(s)[i], s[i])
<1> DEFINE n == Len(s)
           T == {i \in 0 .. n : i # 0 => ContextOf(BracketsOn(s)[i], s[i])}
<1>1. n \in Nat \ {0} /\ s \in Seq(States) /\ \A i \in 1 .. n : s[i] \in States
  BY ElementOfSeq DEF IsPath
<1>2. 0 \in T /\ T \in SUBSET (0 .. n)
  BY <1>1
<1>3. ASSUME NEW i \in 1 .. n, i - 1 \in T PROVE i \in T
  <2>1. /\ BracketsOn(s)[i] = BracketsAfter(BracketsOn(s)[i - 1], At(yystos, s[i]))
        /\ BracketsOn(s)[i - 1] \in Seq(Types) /\ i \in 0 .. n
    <3>1. i - 1 \in 0 .. n /\ i \in 0 .. n
      BY <1>1
    <3> QED
      BY <1>1, <3>1, BracketsUnfold
  <2>2. CASE i = 1
    <3>1. s[i] = 0
      BY <2>2 DEF IsPath
    <3>2. BracketsOn(s)[i] = <<>>
      <4>1. BracketsOn(s)[i - 1] = <<>>
        BY <1>1, <2>2, BracketsUnfold
      <4>2. 0 \in States /\ 0 \notin BracketStates
        BY DEF States, BracketStates
      <4>3. BracketsAfter(<<>>, At(yystos, 0)) = <<>>
        BY <4>2, BracketsOfState
      <4> QED
        BY <2>1, <3>1, <4>1, <4>3
    <3>3. ContextOf(<<>>, 0)
      BY DEF ContextOf, Innermost
    <3> QED
      BY <2>1, <3>1, <3>2, <3>3
  <2>3. CASE i # 1
    <3>1. i \in 2 .. n /\ i - 1 \in 1 .. n /\ i - 1 # 0
      BY <1>1, <2>3
    <3>2. ContextOf(BracketsOn(s)[i - 1], s[i - 1]) /\ MayFollow(s[i - 1], s[i])
      BY <1>3, <3>1 DEF IsPath
    <3>3. s[i - 1] \in States /\ s[i] \in States
      BY <1>1, <3>1
    <3>4. ContextOf(BracketsAfter(BracketsOn(s)[i - 1], At(yystos, s[i])), s[i])
      BY <2>1, <3>2, <3>3, ContextStep
    <3> QED
      BY <2>1, <3>4
  <2> QED
    BY <2>2, <2>3
<1> HIDE DEF T
<1>4. T = 0 .. n
  BY <1>1, <1>2, <1>3, CountedSet
<1>5. \A i \in 1 .. n : i \in T /\ i # 0
  BY <1>1, <1>4
<1> QED
  BY <1>5 DEF T

(* What is expected in a state within the brackets b.                      *)
Expects(s, b) == ExpectedAfter(At(yystos, s), b = <<>> \/ Head(b) = "GROUP")

(* The states of a value that is complete.                                 *)
Complete == 9 .. 18 \cup {23, 24, 25, 27, 28, 36, 37, 39, 40, 45, 47, 48, 49, 50}

ExpectedIn(s, b, e) ==
  /\ s \in {0, 3, 4, 7, 22, 31, 32, 33, 34, 42} => e = "setting"
  /\ s \in {1, 5} => e = "equals"
  /\ s = 8 => e = "value"
  /\ s \in {2, 38, 41, 43} => e = "end"
  /\ s \in {20, 21, 29, 30} => e = "first"
  /\ s \in {19, 26, 35} => e = "string"
  /\ s \in {44, 46} => e = "element"
  /\ s = 25 => e = "terminator"
  /\ s \in {36, 37, 39, 40, 49, 50} => e = "comma"
  /\ s \in Complete => e = Grammatical!AfterValue(Innermost(b))

LEMMA ExpectedInState ==
  ASSUME NEW s \in States, NEW b, ContextOf(b, s)
  PROVE  ExpectedIn(s, b, Expects(s, b))
<1> DEFINE sym == At(yystos, s)
           inGroup == b = <<>> \/ Head(b) = "GROUP"
<1>1. /\ s \in {0, 3, 4, 7, 22, 31, 33, 34, 42} => sym \in {0, 22, 46, 24, 31, 32, 29}
      /\ s = 32 => sym = 21
      /\ s \in {1, 5} => sym \in {14, 33}
      /\ s = 8 => sym = 15
      /\ s \in {2, 38, 41, 43} => sym \in {28, 30, 42, 44}
      /\ s \in {20, 21, 29, 30} => sym \in {17, 19, 35, 37}
      /\ s \in {19, 26, 35} => sym \in {13, 39}
      /\ s \in {44, 46} => sym = 21
      /\ s \in Complete => sym \in 3 .. 12 \cup {18, 20, 23, 34, 36, 38, 40, 41, 43, 45}
  BY DEF States, Complete, At, yystos
<1>2. inGroup <=> Innermost(b) = "GROUP"
  BY DEF Innermost
<1>3. /\ s = 32 => inGroup
      /\ s \in {44, 46} => ~inGroup
      /\ s = 25 => inGroup
      /\ s \in {36, 37, 39, 40, 49, 50} => ~inGroup
  BY <1>2 DEF ContextOf
<1>4. Expects(s, b) = ExpectedAfter(sym, inGroup)
  BY DEF Expects
<1>5. inGroup \in BOOLEAN
  OBVIOUS
<1> DEFINE e == ExpectedAfter(sym, inGroup)
<1> HIDE DEF sym, inGroup
<1>6. /\ sym \in {0, 22, 46, 24, 31, 32, 29} => e = "setting"
      /\ sym \in {14, 33} => e = "equals"
      /\ sym = 15 => e = "value"
  BY DEF ExpectedAfter, TOK_STRING
<1>7. /\ sym \in {28, 30, 42, 44} => e = "end"
      /\ sym \in {17, 19, 35, 37} => e = "first"
      /\ sym \in {13, 39} => e = "string"
  BY DEF ExpectedAfter, TOK_STRING
<1>8. sym = 21 => e = IF inGroup THEN "setting" ELSE "element"
  BY DEF ExpectedAfter, TOK_STRING
<1>9. sym \in 3 .. 12 \cup {18, 20, 23, 34, 36, 38, 40, 41, 43, 45} =>
        e = IF inGroup THEN "terminator" ELSE "comma"
  BY DEF ExpectedAfter, TOK_STRING
<1> HIDE DEF e
<1>10. Expects(s, b) = e
  BY <1>4 DEF e
<1>11. /\ s \in {25, 36, 37, 39, 40, 49, 50} => s \in Complete
  BY DEF Complete
<1>12. Grammatical!AfterValue(Innermost(b)) = IF inGroup THEN "terminator" ELSE "comma"
  BY <1>2 DEF Grammatical!AfterValue
<1>13. /\ s \in {0, 3, 4, 7, 22, 31, 32, 33, 34, 42} => e = "setting"
       /\ s \in {1, 5} => e = "equals"
       /\ s = 8 => e = "value"
  BY <1>1, <1>3, <1>6, <1>8
<1>14. /\ s \in {2, 38, 41, 43} => e = "end"
       /\ s \in {20, 21, 29, 30} => e = "first"
       /\ s \in {19, 26, 35} => e = "string"
       /\ s \in {44, 46} => e = "element"
  BY <1>1, <1>3, <1>7, <1>8
<1>15. /\ s = 25 => e = "terminator"
       /\ s \in {36, 37, 39, 40, 49, 50} => e = "comma"
       /\ s \in Complete => e = Grammatical!AfterValue(Innermost(b))
  BY <1>1, <1>3, <1>9, <1>11, <1>12
<1> QED
  BY <1>10, <1>13, <1>14, <1>15 DEF ExpectedIn

(* What the tables have an entry for.                                      *)
Shifts(s, sym) ==
  \/ s \in {0, 3, 31, 42} /\ sym = 14
  \/ s = 2 /\ sym = Eof
  \/ s = 5 /\ sym = 15
  \/ s \in {8, 30, 46} /\ sym \in 3 .. 13 \cup {17, 19, 22}
  \/ s \in {29, 44} /\ sym \in 3 .. 13
  \/ s = 25 /\ sym \in {21, 24}
  \/ s = 26 /\ sym = 13
  \/ s \in {37, 40} /\ sym = 21
  \/ s = 38 /\ sym = 18
  \/ s = 41 /\ sym = 20
  \/ s = 43 /\ sym = 23

LEMMA WhatIsShifted ==
  ASSUME NEW s \in States, NEW sym \in Symbols, s # FINAL
  PROVE  HasEntry(s, sym) <=> Shifts(s, sym)
<1>1. HasEntry(s, sym) => Shifts(s, sym)
  BY DEF States, Symbols, Eof, FINAL, HasEntry, NeedsToken, Column, At, NINF, LAST,
         yypact, yycheck, Shifts
<1>2. Shifts(s, sym) => HasEntry(s, sym)
  BY DEF States, Symbols, Eof, FINAL, HasEntry, NeedsToken, Column, At, NINF, LAST,
         yypact, yycheck, Shifts
<1> QED
  BY <1>1, <1>2

(* The states in which a token is refused, and those that need one.        *)
LEMMA DefaultsOfStates ==
  ASSUME NEW s \in States
  PROVE  /\ At(yydefact, s) = 0 => s \in {2, 5, 8, 38, 41, 43}
         /\ NeedsToken(s) <=>
              s \in {0, 2, 3, 5, 8, 25, 26, 29, 30, 31, 37, 38, 40, 41, 42, 43, 44, 46}
<1>1. At(yydefact, s) = 0 => s \in {2, 5, 8, 38, 41, 43}
  BY DEF States, At, yydefact
<1>2. NeedsToken(s) <=>
        s \in {0, 2, 3, 5, 8, 25, 26, 29, 30, 31, 37, 38, 40, 41, 42, 43, 44, 46}
  BY DEF States, At, yypact, NeedsToken, NINF
<1> QED
  BY <1>1, <1>2

LEMMA TokensOfSymbols ==
  ASSUME NEW sym \in Symbols
  PROVE  /\ PlainToken(sym) \in Grammatical!PlainTokens
         /\ PlainToken(sym) # Grammatical!NoToken
         /\ sym \in 3 .. 12 => PlainToken(sym).kind = "SCALAR"
         /\ sym = 13 => PlainToken(sym).kind = "STRING"
         /\ sym = 14 => PlainToken(sym).kind = "NAME"
         /\ sym = 15 => PlainToken(sym).kind = "EQUALS"
         /\ sym = 21 => PlainToken(sym).kind = "COMMA"
         /\ sym = 24 => PlainToken(sym).kind = "SEMICOLON"
         /\ sym \in {17, 19, 22} =>
              PlainToken(sym).kind = "START" /\ PlainToken(sym).of = BracketOf(sym)
         /\ sym \in {18, 20, 23} =>
              PlainToken(sym).kind = "END" /\ PlainToken(sym).of = BracketOf(sym)
         /\ sym \in {16, 25, 26} => PlainToken(sym).kind = "GARBAGE"
         /\ sym = Eof => PlainToken(sym).kind = "EOF"
<1> DEFINE t == PlainToken(sym)
<1>1. CASE sym \in 3 .. 12
  <2>1. t = [kind |-> "SCALAR"]
    BY <1>1 DEF PlainToken, TOK_STRING, Eof
  <2> QED
    BY <1>1, <2>1 DEF Grammatical!PlainTokens, Grammatical!Sign, Grammatical!NoToken, Eof
<1>2. CASE sym = 13
  <2>1. t = [kind |-> "STRING"]
    BY <1>2 DEF PlainToken, TOK_STRING, Eof
  <2> QED
    BY <1>2, <2>1 DEF Grammatical!PlainTokens, Grammatical!Sign, Grammatical!NoToken, Eof
<1>3. CASE sym = 14
  <2>1. t = [kind |-> "NAME"]
    BY <1>3 DEF PlainToken, TOK_STRING, Eof
  <2> QED
    BY <1>3, <2>1 DEF Grammatical!PlainTokens, Grammatical!Sign, Grammatical!NoToken, Eof
<1>4. CASE sym = 15
  <2>1. t = [kind |-> "EQUALS"]
    BY <1>4 DEF PlainToken, TOK_STRING, Eof
  <2> QED
    BY <1>4, <2>1 DEF Grammatical!PlainTokens, Grammatical!Sign, Grammatical!NoToken, Eof
<1>5. CASE sym = 21
  <2>1. t = [kind |-> "COMMA"]
    BY <1>5 DEF PlainToken, TOK_STRING, Eof
  <2> QED
    BY <1>5, <2>1 DEF Grammatical!PlainTokens, Grammatical!Sign, Grammatical!NoToken, Eof
<1>6. CASE sym = 24
  <2>1. t = [kind |-> "SEMICOLON"]
    BY <1>6 DEF PlainToken, TOK_STRING, Eof
  <2> QED
    BY <1>6, <2>1 DEF Grammatical!PlainTokens, Grammatical!Sign, Grammatical!NoToken, Eof
<1>7. CASE sym \in {17, 19, 22}
  <2>1. t = [kind |-> "START", of |-> BracketOf(sym)]
    BY <1>7 DEF PlainToken, TOK_STRING, Eof
  <2>2. BracketOf(sym) \in Grammatical!Brackets
    BY DEF BracketOf, Grammatical!Brackets
  <2> QED
    BY <1>7, <2>1, <2>2 DEF Grammatical!PlainTokens, Grammatical!Start, Grammatical!Sign,
                            Grammatical!NoToken, Eof
<1>8. CASE sym \in {18, 20, 23}
  <2>1. t = [kind |-> "END", of |-> BracketOf(sym)]
    BY <1>8 DEF PlainToken, TOK_STRING, Eof
  <2>2. BracketOf(sym) \in Grammatical!Brackets
    BY DEF BracketOf, Grammatical!Brackets
  <2> QED
    BY <1>8, <2>1, <2>2 DEF Grammatical!PlainTokens, Grammatical!End, Grammatical!Sign,
                            Grammatical!NoToken, Eof
<1>9. CASE sym \in {16, 25, 26}
  <2>1. t = [kind |-> "GARBAGE"]
    BY <1>9 DEF PlainToken, TOK_STRING, Eof
  <2> QED
    BY <1>9, <2>1 DEF Grammatical!PlainTokens, Grammatical!Sign, Grammatical!NoToken, Eof
<1>10. CASE sym = Eof
  <2>1. t = [kind |-> "EOF"]
    BY <1>10 DEF PlainToken, TOK_STRING, Eof
  <2> QED
    BY <1>10, <2>1 DEF Grammatical!PlainTokens, Grammatical!Sign, Grammatical!NoToken, Eof
<1> QED
  BY <1>1, <1>2, <1>3, <1>4, <1>5, <1>6, <1>7, <1>8, <1>9, <1>10 DEF Symbols

LEMMA TokenOfNone == PlainToken(EMPTY) = Grammatical!NoToken
BY DEF PlainToken, EMPTY, TOK_STRING, Eof, Grammatical!NoToken, Grammatical!Sign

(* What the grammar sees of a stack.                                       *)
View(s, b, e) ==
  s \in States /\ b \in Seq(Types) /\ ContextOf(b, s) /\ ExpectedIn(s, b, e)

LEMMA ViewOfPath ==
  ASSUME NEW s, IsPath(s)
  PROVE  View(s[Len(s)], BracketsOn(s)[Len(s)], Expects(s[Len(s)], BracketsOn(s)[Len(s)]))
<1>1. Len(s) \in 1 .. Len(s) /\ Len(s) \in 0 .. Len(s) /\ s \in Seq(States)
  BY DEF IsPath
<1>2. s[Len(s)] \in States
  BY <1>1, ElementOfSeq
<1>3. BracketsOn(s)[Len(s)] \in Seq(Types)
  BY <1>1, BracketsUnfold
<1>4. ContextOf(BracketsOn(s)[Len(s)], s[Len(s)])
  BY <1>1, ContextsOnPath
<1> QED
  BY <1>2, <1>3, <1>4, ExpectedInState DEF View

LEMMA ViewOfStack ==
  ASSUME IInv
  PROVE  IsPath(states) /\ View(Top, OpenBrackets, Expected)
<1>1. IsPath(states)
  BY StackStates DEF IsPath, IInv, TypeOK, StackIsPath, States
<1>2. Top = states[Len(states)] /\ OpenBrackets = BracketsOn(states)[Len(states)]
  BY DEF Top, Last, OpenBrackets
<1>3. Expected = Expects(Top, OpenBrackets)
  BY DEF Expected, Expects
<1> QED
  BY <1>1, <1>2, <1>3, ViewOfPath

LEMMA ViewOfNextStack ==
  ASSUME IInv'
  PROVE  IsPath(states') /\ View(Top', OpenBrackets', Expected')
<1>1. IsPath(states')
  <2>1. states' \in Seq(States) /\ 1 <= Len(states')
    BY DEF IInv, TypeOK, StackInBounds, States
  <2>2. Len(states') \in Nat \ {0}
    BY <2>1, LenProperties
  <2> QED
    BY <2>1, <2>2 DEF IsPath, IInv, StackIsPath
<1>2. Top' = states'[Len(states')] /\ OpenBrackets' = BracketsOn(states')[Len(states')]
  BY DEF Top, Last, OpenBrackets
<1>3. Expected' = Expects(Top', OpenBrackets')
  BY DEF Expected, Expects
<1> QED
  BY <1>1, <1>2, <1>3, ViewOfPath

-----------------------------------------------------------------------------
(* Reductions.  The brackets of a rule are closed within it.               *)

LEMMA BracketsOverRule ==
  ASSUME IInv, NEW k \in 0 .. 5, RuleIsOnStack(k)
  PROVE  BracketsOn(states)[Len(states) - k] = BracketsOn(states)[Len(states)]
<1> DEFINE n == Len(states)
           b(i) == BracketsOn(states)[i]
<1>1. states \in Seq(States) /\ n \in Nat \ {0} /\ k < n
  BY ViewOfStack DEF IsPath, RuleIsOnStack
<1>2. \A i \in 1 .. n : states[i] \in States
  BY <1>1, ElementOfSeq
<1>3. \A i \in 1 .. n : b(i) = BracketsAfter(b(i - 1), At(yystos, states[i]))
  BY <1>1, BracketsUnfold
<1>4. \A i \in 0 .. n : b(i) \in Seq(Types)
  BY <1>1, BracketsUnfold
<1> HIDE DEF b, n
<1>5. \A i \in 1 .. n : states[i] \notin BracketStates => b(i) = b(i - 1)
  BY <1>2, <1>3, BracketsOfState
<1>6. CASE k # 4
  <2>1. \A i \in n - k + 1 .. n : b(i) = b(i - 1)
    BY <1>1, <1>5, <1>6 DEF RuleIsOnStack, Unbracketed, n
  <2>2. /\ k >= 1 => b(n) = b(n - 1)
        /\ k >= 2 => b(n - 1) = b(n - 2)
        /\ k >= 3 => b(n - 2) = b(n - 3)
        /\ k >= 5 => b(n - 3) = b(n - 4) /\ b(n - 4) = b(n - 5)
    <3>1. k >= 1 => b(n) = b(n - 1)
      BY <1>1, <2>1
    <3>2. k >= 2 => b(n - 1) = b(n - 1 - 1) /\ n - 1 - 1 = n - 2
      BY <1>1, <2>1
    <3>3. k >= 3 => b(n - 2) = b(n - 2 - 1) /\ n - 2 - 1 = n - 3
      BY <1>1, <2>1
    <3>4. k >= 5 => b(n - 3) = b(n - 3 - 1) /\ n - 3 - 1 = n - 4
      BY <1>1, <2>1
    <3>5. k >= 5 => b(n - 4) = b(n - 4 - 1) /\ n - 4 - 1 = n - 5
      BY <1>1, <2>1
    <3> QED
      BY <3>1, <3>2, <3>3, <3>4, <3>5
  <2>3. k = 0 \/ k = 1 \/ k = 2 \/ k = 3 \/ k = 5
    BY <1>6
  <2>4. n - 0 = n
    BY <1>1
  <2>5. b(n - k) = b(n)
    BY <2>2, <2>3, <2>4
  <2> QED
    BY <2>5 DEF b, n
<1>7. CASE k = 4
  <2>1. /\ states[n] \in {45, 47, 48} /\ states[n - 3] \in {20, 21, 22}
        /\ states[n - 1] \notin BracketStates /\ states[n - 2] \notin BracketStates
    BY <1>7 DEF RuleIsOnStack, Bracketed, n
  <2>2. /\ n \in 1 .. n /\ n - 1 \in 1 .. n /\ n - 2 \in 1 .. n /\ n - 3 \in 1 .. n
        /\ n - 4 \in 0 .. n
        /\ n - 1 - 1 = n - 2 /\ n - 2 - 1 = n - 3 /\ n - 3 - 1 = n - 4
    BY <1>1, <1>7
  <2>3. b(n - 1) = b(n - 2) /\ b(n - 2) = b(n - 3)
    BY <1>5, <2>1, <2>2
  <2>4. b(n) = SubSeq(b(n - 1), 2, Len(b(n - 1)))
    <3>1. states[n] \in States
      BY <1>2, <2>2
    <3>2. \A c : BracketsAfter(c, At(yystos, states[n])) = SubSeq(c, 2, Len(c))
      BY <2>1, <3>1, BracketsOfState
    <3>3. b(n) = BracketsAfter(b(n - 1), At(yystos, states[n]))
      BY <1>3, <2>2
    <3> QED
      BY <3>2, <3>3
  <2>5. \E t \in Types : b(n - 3) = <<t>> \o b(n - 4)
    <3>1. "ARRAY" \in Types /\ "LIST" \in Types /\ "GROUP" \in Types
      BY DEF Types
    <3>2. b(n - 3) = BracketsAfter(b(n - 4), At(yystos, states[n - 3]))
      BY <1>3, <2>2
    <3>3. states[n - 3] \in States
      BY <1>2, <2>2
    <3>4. \E t \in Types : \A c : BracketsAfter(c, At(yystos, states[n - 3])) = <<t>> \o c
      BY <2>1, <3>1, <3>3, BracketsOfState, SMTT(30)
    <3> QED
      BY <3>2, <3>4
  <2>6. SubSeq(b(n - 3), 2, Len(b(n - 3))) = b(n - 4)
    <3>1. b(n - 4) \in Seq(Types)
      BY <1>4, <2>2
    <3> QED
      BY <2>5, <3>1, Pushed
  <2>7. b(n - k) = b(n)
    BY <1>7, <2>3, <2>4, <2>6
  <2> QED
    BY <2>7 DEF b, n
<1> QED
  BY <1>6, <1>7

(* What is expected changes only in these states.                          *)
Lapses(s, b, e, f) ==
  \/ s \in {0, 3, 31, 42} /\ e = "setting" /\ f = "end"
  \/ s = 25 /\ e = "terminator" /\ f = "setting"
  \/ s \in {29, 30} /\ e = "first" /\ f = "end"
  \/ s \in {44, 46} /\ e = "element" /\ f = "comma"
  \/ s \in {37, 40} /\ e = "comma" /\ f = "end"
  \/ s = 26 /\ e = "string" /\ f = Grammatical!AfterValue(Innermost(b))

LEMMA ReductionsLapse ==
  ASSUME NEW s \in States, NEW g, NEW b, NEW e, NEW f,
         s # FINAL, At(yydefact, s) # 0,
         ExpectedIn(s, b, e), ExpectedIn(g, b, f), Replaces(g, s)
  PROVE  f = e \/ Lapses(s, b, e, f)
<1>1. s \notin {2, 5, 6, 8, 38, 41, 43}
  BY DEF States, FINAL, At, yydefact
<1>2. s \in {0, 3, 4, 7, 31, 42, 25, 32, 33, 34, 1, 20, 21, 22} =>
        f = e \/ Lapses(s, b, e, f)
  BY DEF ExpectedIn, Replaces, Lapses
<1>3. s \in {45, 47, 48, 23, 24, 27, 28, 19, 35, 26} \cup 9 .. 18 =>
        f = e \/ Lapses(s, b, e, f)
  BY DEF ExpectedIn, Replaces, Lapses, Complete
<1>4. s \in {39, 46, 50, 30, 40, 36, 44, 49, 29, 37} =>
        f = e \/ Lapses(s, b, e, f)
  BY DEF ExpectedIn, Replaces, Lapses
<1> QED
  BY <1>1, <1>2, <1>3, <1>4 DEF States

(* The brackets of a stack with a state pushed on a part of it.            *)
LEMMA BracketsOfPush ==
  ASSUME NEW s \in Seq(States), NEW t \in Seq(States), NEW m \in 0 .. Len(s), NEW g,
         Len(t) = m + 1, t[m + 1] = g, \A i \in 1 .. m : t[i] = s[i]
  PROVE  BracketsOn(t)[Len(t)] = BracketsAfter(BracketsOn(s)[m], At(yystos, g))
<1>1. Len(s) \in Nat /\ m \in Nat /\ m <= Len(t)
  BY LenProperties
<1>2. BracketsOn(t)[m] = BracketsOn(s)[m]
  <2>1. \A i \in 0 .. m : BracketsOn(t)[i] = BracketsOn(s)[i]
    BY <1>1, BracketsBelow
  <2> QED
    BY <1>1, <2>1
<1>3. BracketsOn(t)[m + 1] = BracketsAfter(BracketsOn(t)[m + 1 - 1], At(yystos, t[m + 1]))
  <2>1. m + 1 \in 1 .. Len(t)
    BY <1>1
  <2> QED
    BY <2>1, BracketsUnfold
<1>4. m + 1 - 1 = m
  BY <1>1
<1> QED
  BY <1>2, <1>3, <1>4

(* The state that a reduction pushes is no bracket and not the last one.   *)
LEMMA StatesOfRules ==
  ASSUME NEW s \in States, NEW g, s # FINAL, At(yydefact, s) # 0, Replaces(g, s)
  PROVE  g \notin BracketStates /\ g # FINAL
<1>1. s \notin {2, 5, 6, 8, 38, 41, 43}
  BY DEF States, FINAL, At, yydefact
<1> QED
  BY <1>1 DEF States, FINAL, Replaces, BracketStates

(* What the grammar sees of a reduction: at most that something ends or is *)
(* left out; it does not see the stack.                                    *)
LEMMA ReductionIsSeen ==
  ASSUME IInv, IInv', ReduceDefault, result' = Running
  PROVE  /\ OpenBrackets' = OpenBrackets /\ Top' # FINAL /\ char' = char
         /\ Expected' = Expected \/ Lapses(Top, OpenBrackets, Expected, Expected')
<1> DEFINE n == Len(states)
           rule == At(yydefact, Top)
           length == At(yyr2, rule)
           below == SubSeq(states, 1, n - length)
           g == GoTo(Last(below), rule)
<1>1. /\ result = Running /\ Top # FINAL /\ rule # 0
      /\ states' = Append(below, g) /\ char' = char
  <2>1. /\ result = Running /\ Top # FINAL /\ rule # 0
        /\ \/ states' = Append(below, g) /\ UNCHANGED <<result, nerrs, size, char, lval>>
           \/ result' = 1
    BY DEF ReduceDefault, Default, Reduce, Return
  <2> HIDE DEF n, rule, length, below, g
  <2> QED
    BY <2>1 DEF Running
<1>2. /\ n \in Nat \ {0} /\ Top = states[n] /\ Top \in States /\ states \in Seq(States)
      /\ states' \in Seq(States)
  BY StackStates DEF IInv, TypeOK, States
<1>3. PICK k \in 0 .. 5 : RuleIsOnStack(k)
  BY <1>1, RuleOnStack DEF IInv
<1> DEFINE m == n - k
<1>4. /\ length = k /\ m \in 0 .. n /\ m \in 1 .. n /\ Lands(states[m], Top)
  BY <1>2, <1>3 DEF RuleIsOnStack
<1>5. below = SubSeq(states, 1, m)
  BY <1>4
<1>6. Len(below) = m /\ below[m] = states[m]
  <2> HIDE DEF below
  <2>1. /\ Len(SubSeq(states, 1, m)) = m
        /\ \A i \in 1 .. m : SubSeq(states, 1, m)[i] = states[i]
    BY <1>2, <1>4, PushedOnPart
  <2> QED
    BY <1>4, <1>5, <2>1
<1>7. g = GoTo(states[m], rule)
  BY <1>6 DEF Last
<1>8. g \in States /\ Replaces(g, Top)
  BY <1>4, <1>7 DEF Lands, States
<1> HIDE DEF rule, n, length, below, g, m
<1>9. /\ Len(states') = m + 1 /\ states'[m + 1] = g
      /\ \A i \in 1 .. m : states'[i] = states[i]
  BY <1>1, <1>2, <1>4, <1>5, <1>8, PushedOnPart DEF n
<1>10. Top' = g
  BY <1>9 DEF Top, Last
<1>11. g \notin BracketStates /\ g # FINAL
  BY <1>1, <1>2, <1>8, StatesOfRules DEF rule
<1>12. OpenBrackets' = OpenBrackets
  <2>1. BracketsOn(states')[Len(states')] = BracketsAfter(BracketsOn(states)[m], At(yystos, g))
    BY <1>2, <1>4, <1>9, BracketsOfPush DEF n
  <2>2. BracketsOn(states)[m] = OpenBrackets
    BY <1>3, BracketsOverRule DEF OpenBrackets, m, n
  <2>3. BracketsAfter(OpenBrackets, At(yystos, g)) = OpenBrackets
    BY <1>8, <1>11, BracketsOfState
  <2> QED
    BY <2>1, <2>2, <2>3 DEF OpenBrackets
<1>13. ExpectedIn(Top, OpenBrackets, Expected)
  BY ViewOfStack DEF View
<1>14. ExpectedIn(g, OpenBrackets, Expected')
  BY <1>10, <1>12, ViewOfNextStack DEF View
<1>15. Expected' = Expected \/ Lapses(Top, OpenBrackets, Expected, Expected')
  BY <1>1, <1>2, <1>8, <1>13, <1>14, ReductionsLapse DEF rule
<1> QED
  BY <1>1, <1>10, <1>11, <1>12, <1>15

(* A lapse is one that the grammar allows at the token that is next.       *)
LEMMA LapseAllowed ==
  ASSUME NEW s \in States, NEW b, NEW e, NEW f, NEW sym \in Symbols,
         Lapses(s, b, e, f), ContextOf(b, s), ~Shifts(s, sym)
  PROVE  \/ /\ e = "terminator" /\ f = "setting"
            /\ PlainToken(sym).kind \notin {"COMMA", "SEMICOLON"}
         \/ e = "setting" /\ f = "end" /\ PlainToken(sym).kind # "NAME"
         \/ /\ e = "first" /\ f = "end"
            /\ PlainToken(sym).kind \notin {"SCALAR", "STRING"}
            /\ PlainToken(sym).kind = "START" => Innermost(b) = "ARRAY"
         \/ /\ e = "element" /\ f = "comma"
            /\ PlainToken(sym).kind \notin {"SCALAR", "STRING"}
            /\ PlainToken(sym).kind = "START" => Innermost(b) = "ARRAY"
         \/ e = "comma" /\ f = "end" /\ PlainToken(sym).kind # "COMMA"
         \/ /\ e = "string" /\ f = Grammatical!AfterValue(Innermost(b))
            /\ PlainToken(sym).kind # "STRING"
<1> DEFINE k == PlainToken(sym).kind
<1>1. /\ k = "NAME" => sym = 14
      /\ k \in {"COMMA", "SEMICOLON"} => sym \in {21, 24}
      /\ k = "COMMA" => sym = 21
      /\ k \in {"SCALAR", "STRING"} => sym \in 3 .. 13
      /\ k = "START" => sym \in {17, 19, 22}
      /\ k = "STRING" => sym = 13
  BY TokensOfSymbols DEF Symbols, Eof
<1> HIDE DEF k
<1>2. /\ s \in {0, 3, 31, 42} => sym # 14
      /\ s = 25 => sym \notin {21, 24}
      /\ s \in {29, 30, 44, 46} => sym \notin 3 .. 13
      /\ s \in {30, 46} => sym \notin {17, 19, 22}
      /\ s \in {37, 40} => sym # 21
      /\ s = 26 => sym # 13
  BY DEF Shifts
<1>3. s \in {29, 44} => Innermost(b) = "ARRAY"
  BY DEF ContextOf
<1>4. /\ s \in {0, 3, 31, 42} => k # "NAME"
      /\ s = 25 => k \notin {"COMMA", "SEMICOLON"}
      /\ s \in {37, 40} => k # "COMMA"
      /\ s = 26 => k # "STRING"
  BY <1>1, <1>2
<1>5. /\ s \in {29, 30, 44, 46} => k \notin {"SCALAR", "STRING"}
      /\ s \in {29, 30, 44, 46} => (k = "START" => Innermost(b) = "ARRAY")
  BY <1>1, <1>2, <1>3
<1> QED
  BY <1>4, <1>5 DEF Lapses, k

-----------------------------------------------------------------------------
(* The steps of the automaton are steps of the grammar, or not seen by it. *)

Seen == [Grammatical!GrammarNext]_(Grammatical!grammarVars)

LEMMA PhasesAre ==
  /\ result = Running /\ Top # FINAL => Phase = "reading"
  /\ result = Idle => Phase = "idle"
  /\ result # Idle /\ Top = FINAL => Phase = "accepted"
  /\ result = 0 => Phase = "accepted"
  /\ result \in {1, 2} /\ Top # FINAL => Phase = IF nerrs > 0 THEN "refused" ELSE "failed"
BY DEF Phase, Running, Idle

LEMMA NextPhasesAre ==
  /\ result' = Running /\ Top' # FINAL => Phase' = "reading"
  /\ result' # Idle /\ Top' = FINAL => Phase' = "accepted"
  /\ result' = 0 => Phase' = "accepted"
  /\ result' \in {1, 2} /\ Top' # FINAL =>
       Phase' = IF nerrs' > 0 THEN "refused" ELSE "failed"
BY DEF Phase, Running, Idle

(* The stack is empty after yyparse().                                     *)
LEMMA TopAfterReturn ==
  ASSUME NEW r, NEW p, NEW v, Return(r, p, v) PROVE Top' = 0 /\ Top' # FINAL /\ result' = r
<1>1. states' = <<0>> /\ result' = r
  BY DEF Return
<1>2. Len(<<0>>) = 1 /\ <<0>>[1] = 0
  OBVIOUS
<1> QED
  BY <1>1, <1>2 DEF Top, Last, FINAL

(* yyparse() gives up without having met a token that is not allowed.      *)
LEMMA GiveUpIsSeen ==
  ASSUME IInv, result = Running, Top # FINAL,
         NEW r \in {1, 2}, NEW p, NEW v, Return(r, p, v), nerrs' = nerrs
  PROVE  Seen
<1>1. Phase = "reading"
  BY PhasesAre
<1>2. nerrs' = 0
  BY DEF IInv, NothingHeld
<1>3. Phase' = "failed"
  BY <1>2, TopAfterReturn, NextPhasesAre
<1>4. Grammatical!GiveUp
  BY <1>1, <1>3 DEF Grammatical!GiveUp
<1> QED
  BY <1>4 DEF Seen, Grammatical!GrammarNext

LEMMA ReduceIsSeen ==
  ASSUME IInv, IInv', ReduceDefault PROVE Seen
<1>1. result = Running /\ Top # FINAL /\ At(yydefact, Top) # 0
  BY DEF ReduceDefault, Default
<1>2. Phase = "reading"
  BY <1>1, PhasesAre
<1>3. CASE result' # Running
  <2>1. \E p, v : Return(1, p, v) /\ nerrs' = nerrs
    BY <1>1, <1>3 DEF ReduceDefault, Reduce
  <2> QED
    BY <1>1, <2>1, GiveUpIsSeen
<1>4. CASE result' = Running
  <2>1. /\ OpenBrackets' = OpenBrackets /\ Top' # FINAL /\ char' = char
        /\ Expected' = Expected \/ Lapses(Top, OpenBrackets, Expected, Expected')
    BY <1>4, ReductionIsSeen
  <2>2. Phase' = "reading"
    BY <1>4, <2>1, NextPhasesAre
  <2>3. PlainToken(char)' = PlainToken(char)
    BY <2>1
  <2>4. CASE Expected' = Expected
    BY <1>2, <2>1, <2>2, <2>3, <2>4 DEF Seen, Grammatical!grammarVars
  <2>5. CASE Lapses(Top, OpenBrackets, Expected, Expected')
    <3>1. Top \in States /\ ContextOf(OpenBrackets, Top)
      BY ViewOfStack DEF View
    <3>2. NeedsToken(Top)
      BY <2>5, <3>1, DefaultsOfStates DEF Lapses
    <3>3. char # EMPTY /\ ~HasEntry(Top, char)
      BY <3>2 DEF ReduceDefault, Default
    <3>4. char \in Symbols
      BY <3>3 DEF IInv, TypeOK
    <3>5. ~Shifts(Top, char)
      BY <1>1, <3>1, <3>3, <3>4, WhatIsShifted
    <3> DEFINE k == PlainToken(char).kind
    <3>6. \/ Expected = "terminator" /\ Expected' = "setting" /\ k \notin {"COMMA", "SEMICOLON"}
          \/ Expected = "setting" /\ Expected' = "end" /\ k # "NAME"
          \/ /\ Expected = "first" /\ Expected' = "end" /\ k \notin {"SCALAR", "STRING"}
             /\ k = "START" => Innermost(OpenBrackets) = "ARRAY"
          \/ /\ Expected = "element" /\ Expected' = "comma" /\ k \notin {"SCALAR", "STRING"}
             /\ k = "START" => Innermost(OpenBrackets) = "ARRAY"
          \/ Expected = "comma" /\ Expected' = "end" /\ k # "COMMA"
          \/ /\ Expected = "string" /\ k # "STRING"
             /\ Expected' = Grammatical!AfterValue(Innermost(OpenBrackets))
      BY <2>5, <3>1, <3>4, <3>5, LapseAllowed
    <3>7. PlainToken(char) \in Grammatical!PlainTokens /\ PlainToken(char) # Grammatical!NoToken
      BY <3>4, TokensOfSymbols
    <3>8. Innermost(OpenBrackets) = Grammatical!Enclosing
      BY DEF Innermost, Grammatical!Enclosing
    <3>9. Grammatical!StartsValue(PlainToken(char)) =>
            \/ k \in {"SCALAR", "STRING"}
            \/ k = "START" /\ Innermost(OpenBrackets) # "ARRAY"
      BY <3>8 DEF Grammatical!StartsValue
    <3>10. Grammatical!LeaveOut \/ Grammatical!EndString(PlainToken(char))
      BY <1>2, <2>1, <2>2, <2>3, <3>6, <3>7, <3>8, <3>9
      DEF Grammatical!LeaveOut, Grammatical!EndString
    <3> QED
      BY <3>7, <3>10 DEF Seen, Grammatical!GrammarNext
  <2> QED
    BY <2>1, <2>4, <2>5
<1> QED
  BY <1>3, <1>4

LEMMA ReadIsSeen ==
  ASSUME IInv, Read PROVE Seen
<1>1. /\ result = Running /\ Top # FINAL /\ char = EMPTY /\ char' \in Symbols
      /\ UNCHANGED <<result, states>>
  BY DEF Read
<1>2. Phase = "reading" /\ Phase' = "reading"
  <2>1. Top' = Top
    BY <1>1 DEF Top
  <2> QED
    BY <1>1, <2>1, PhasesAre, NextPhasesAre
<1>3. OpenBrackets' = OpenBrackets /\ Expected' = Expected
  BY <1>1 DEF OpenBrackets, Expected, Top
<1>4. PlainToken(char) = Grammatical!NoToken
  BY <1>1, TokenOfNone
<1>5. PlainToken(char') \in Grammatical!PlainTokens
  BY <1>1, TokensOfSymbols
<1>6. Grammatical!ReadAhead(PlainToken(char'))
  BY <1>2, <1>3, <1>4 DEF Grammatical!ReadAhead
<1> QED
  BY <1>5, <1>6 DEF Seen, Grammatical!GrammarNext

(* Tokens that are shifted are allowed.                                    *)
LEMMA ShiftIsAllowed ==
  ASSUME View(Top, OpenBrackets, Expected), NEW sym \in Symbols, Shifts(Top, sym)
  PROVE  Grammatical!Allowed(PlainToken(sym))
<1> DEFINE k == PlainToken(sym).kind
           of == PlainToken(sym).of
<1>1. /\ sym \in 3 .. 12 => k = "SCALAR"
      /\ sym = 13 => k = "STRING"
      /\ sym = 14 => k = "NAME"
      /\ sym = 15 => k = "EQUALS"
      /\ sym = 21 => k = "COMMA"
      /\ sym = 24 => k = "SEMICOLON"
      /\ sym \in {17, 19, 22} => k = "START"
      /\ sym \in {18, 20, 23} => k = "END" /\ of = BracketOf(sym)
      /\ sym = Eof => k = "EOF"
  BY TokensOfSymbols
<1>2. BracketOf(18) = "ARRAY" /\ BracketOf(20) = "LIST" /\ BracketOf(23) = "GROUP"
  BY DEF BracketOf
<1>3. Innermost(OpenBrackets) = Grammatical!Enclosing
  BY DEF Innermost, Grammatical!Enclosing
<1>4. ContextOf(OpenBrackets, Top) /\ ExpectedIn(Top, OpenBrackets, Expected)
  BY DEF View
<1> HIDE DEF k, of
<1> USE DEF Grammatical!Allowed, Grammatical!SettingExpected, Grammatical!ValueExpected
<1>5. CASE Top \in {0, 3, 31, 42} /\ sym = 14
  BY <1>1, <1>4, <1>5 DEF ExpectedIn, k
<1>6. CASE Top = 2 /\ sym = Eof
  BY <1>1, <1>4, <1>6 DEF ExpectedIn, ContextOf, k
<1>7. CASE Top = 5 /\ sym = 15
  BY <1>1, <1>4, <1>7 DEF ExpectedIn, k
<1>8. CASE Top \in {8, 30, 46} /\ sym \in 3 .. 13 \cup {17, 19, 22}
  <2>1. k \in {"SCALAR", "STRING", "START"}
    BY <1>1, <1>8
  <2>2. Innermost(OpenBrackets) # "ARRAY"
    BY <1>4, <1>8 DEF ContextOf
  <2>3. Expected \in {"value", "first", "element"}
    BY <1>4, <1>8 DEF ExpectedIn
  <2>4. Grammatical!StartsValue(PlainToken(sym))
    BY <1>3, <2>1, <2>2 DEF Grammatical!StartsValue, k
  <2> QED
    BY <2>3, <2>4
<1>9. CASE Top \in {29, 44} /\ sym \in 3 .. 13
  <2>1. k \in {"SCALAR", "STRING"}
    BY <1>1, <1>9
  <2>2. Expected \in {"value", "first", "element"}
    BY <1>4, <1>9 DEF ExpectedIn
  <2>3. Grammatical!StartsValue(PlainToken(sym))
    BY <2>1 DEF Grammatical!StartsValue, k
  <2> QED
    BY <2>2, <2>3
<1>10. CASE Top = 25 /\ sym \in {21, 24}
  BY <1>1, <1>4, <1>10 DEF ExpectedIn, k
<1>11. CASE Top = 26 /\ sym = 13
  BY <1>1, <1>4, <1>11 DEF ExpectedIn, k
<1>12. CASE Top \in {37, 40} /\ sym = 21
  BY <1>1, <1>4, <1>12 DEF ExpectedIn, k
<1>13. CASE \/ Top = 38 /\ sym = 18
            \/ Top = 41 /\ sym = 20
            \/ Top = 43 /\ sym = 23
  <2>1. k = "END" /\ of = Innermost(OpenBrackets) /\ OpenBrackets # <<>>
    BY <1>1, <1>2, <1>4, <1>13 DEF ContextOf
  <2>2. Expected = "end"
    BY <1>4, <1>13 DEF ExpectedIn
  <2> QED
    BY <1>3, <2>1, <2>2 DEF k, of
<1> QED
  BY <1>5, <1>6, <1>7, <1>8, <1>9, <1>10, <1>11, <1>12, <1>13 DEF Shifts

(* The bracket behind one that was closed.                                 *)
LEMMA BracketBehind ==
  ASSUME NEW b \in Seq(Types), b # <<>>
  PROVE  /\ Tail(b) = SubSeq(b, 2, Len(b))
         /\ Innermost(Tail(b)) = IF Len(b) = 1 THEN "GROUP" ELSE b[2]
<1>1. Len(b) \in Nat \ {0} /\ DOMAIN b = 1 .. Len(b)
  BY EmptySeq, LenProperties
<1>2. /\ Tail(b) \in Seq(Types) /\ Len(Tail(b)) = Len(b) - 1
      /\ \A i \in 1 .. Len(b) - 1 : Tail(b)[i] = b[i + 1]
  BY <1>1
<1>3. Tail(b) = SubSeq(b, 2, Len(b))
  <2> DEFINE d == SubSeq(b, 2, Len(b))
             t == Tail(b)
  <2>1. /\ \A i \in 2 .. Len(b) : b[i] \in Types
        /\ Len(b) \in Int /\ 2 \in Int
    BY <1>1, ElementOfSeq
  <2>2. /\ d \in Seq(Types) /\ Len(d) = IF 2 <= Len(b) THEN Len(b) - 2 + 1 ELSE 0
        /\ \A i \in 1 .. Len(b) - 2 + 1 : d[i] = b[2 + i - 1]
    BY <2>1, SubSeqProperties
  <2>3. t \in Seq(Types) /\ Len(t) = Len(b) - 1 /\ \A i \in 1 .. Len(b) - 1 : t[i] = b[i + 1]
    BY <1>2
  <2> HIDE DEF d, t
  <2>4. Len(d) = Len(t)
    <3>1. \A l \in Nat \ {0} : (IF 2 <= l THEN l - 2 + 1 ELSE 0) = l - 1
      OBVIOUS
    <3>2. (IF 2 <= Len(b) THEN Len(b) - 2 + 1 ELSE 0) = Len(b) - 1
      BY <1>1, <3>1
    <3> QED
      BY <2>2, <2>3, <3>2
  <2>5. \A i \in 1 .. Len(t) : d[i] = t[i]
    <3>1. \A i \in 1 .. Len(b) - 1 : i \in 1 .. Len(b) - 2 + 1 /\ 2 + i - 1 = i + 1
      BY <1>1
    <3> QED
      BY <2>2, <2>3, <3>1
  <2>6. d = t
    BY <2>2, <2>3, <2>4, <2>5, SeqEqual
  <2> QED
    BY <2>6 DEF d, t
<1> DEFINE t == Tail(b)
<1>4. t \in Seq(Types) /\ Len(t) = Len(b) - 1 /\ \A i \in 1 .. Len(b) - 1 : t[i] = b[i + 1]
  BY <1>2
<1> HIDE DEF t
<1>5. t = <<>> <=> Len(b) = 1
  <2>1. t = <<>> <=> Len(t) = 0
    BY <1>4, EmptySeq
  <2> QED
    BY <1>1, <1>4, <2>1
<1>6. Len(b) # 1 => t[1] = b[2]
  BY <1>1, <1>4
<1>7. Innermost(t) = IF Len(b) = 1 THEN "GROUP" ELSE b[2]
  BY <1>5, <1>6 DEF Innermost
<1> QED
  BY <1>3, <1>7 DEF t

(* The states that a token leads to.                                       *)
LEMMA StatesOfTokens ==
  ASSUME NEW p, NEW s \in States, MayFollow(p, s), NEW sym \in Symbols, At(yystos, s) = sym
  PROVE  /\ sym = Eof => s \in {0, FINAL}
         /\ sym \in 3 .. 12 => s \in 9 .. 18
         /\ sym = 13 => s \in {19, 35}
         /\ sym = 14 => s = 1
         /\ sym = 15 => s = 8
         /\ sym = 17 => s = 20
         /\ sym = 19 => s = 21
         /\ sym = 22 => s = 22
         /\ sym \in {18, 20, 23} => s \in {45, 47, 48}
         /\ sym = 21 => (p = 25 /\ s = 32) \/ (p \in {37, 40} /\ s \in {44, 46})
         /\ sym = 24 => s = 33
<1>1. /\ sym = Eof => s \in {0, FINAL}
      /\ sym \in 3 .. 12 => s \in 9 .. 18
      /\ sym = 13 => s \in {19, 35}
      /\ sym = 14 => s = 1
      /\ sym = 15 => s = 8
      /\ sym = 17 => s = 20
      /\ sym = 19 => s = 21
      /\ sym = 22 => s = 22
      /\ sym \in {18, 20, 23} => s \in {45, 47, 48}
      /\ sym = 21 => s \in {32, 44, 46}
      /\ sym = 24 => s = 33
  BY DEF States, At, yystos, Eof, FINAL
<1>2. /\ s = 32 => p = 25
      /\ s \in {44, 46} => p \in {37, 40}
  BY DEF MayFollow, ValueStarts, ScalarStarts
<1> QED
  BY <1>1, <1>2

LEMMA ShiftIsSeen ==
  ASSUME IInv, IInv', Shift PROVE Seen
<1> DEFINE n == Len(states)
           s == Entry(Top, char)
<1>1. /\ result = Running /\ result' = Running /\ Top # FINAL /\ char # EMPTY
      /\ HasEntry(Top, char) /\ s > 0 /\ states' = Append(states, s) /\ char' = EMPTY
  BY DEF Shift
<1>2. /\ n \in Nat \ {0} /\ Top = states[n] /\ Top \in States /\ states \in Seq(States)
      /\ states' \in Seq(States)
  BY StackStates DEF IInv, TypeOK, States
<1>3. char \in Symbols
  BY <1>1 DEF IInv, TypeOK
<1>4. s \in States /\ MayFollow(Top, s) /\ At(yystos, s) = char /\ s # 0
  <2>1. s \in 1 .. 50 /\ MayFollow(Top, s) /\ At(yystos, s) = char
    BY <1>1, <1>2, <1>3, ShiftFollows
  <2> HIDE DEF s
  <2> QED
    BY <2>1 DEF States
<1>5. Shifts(Top, char)
  BY <1>1, <1>2, <1>3, WhatIsShifted
<1> HIDE DEF n, s
<1>6. /\ Len(states') = n + 1 /\ states'[n + 1] = s
      /\ \A i \in 1 .. n : states'[i] = states[i]
  BY <1>1, <1>2, <1>4, AppendProperties DEF n
<1>7. Top' = s
  BY <1>6 DEF Top, Last
<1>8. OpenBrackets' = BracketsAfter(OpenBrackets, char)
  <2>1. n \in 0 .. Len(states)
    BY <1>2 DEF n
  <2>2. BracketsOn(states')[Len(states')] = BracketsAfter(BracketsOn(states)[n], At(yystos, s))
    BY <1>2, <1>6, <2>1, BracketsOfPush
  <2> QED
    BY <1>4, <2>2 DEF OpenBrackets, n
<1>9. View(Top, OpenBrackets, Expected)
  BY ViewOfStack
<1>10. ContextOf(OpenBrackets, Top) /\ OpenBrackets \in Seq(Types)
       /\ ExpectedIn(Top, OpenBrackets, Expected)
  BY <1>9 DEF View
<1>11. ExpectedIn(s, OpenBrackets', Expected')
  BY <1>7, ViewOfNextStack DEF View
<1>12. Grammatical!Allowed(PlainToken(char))
  BY <1>3, <1>5, <1>9, ShiftIsAllowed
<1>13. PlainToken(char)' = Grammatical!NoToken
  BY <1>1, TokenOfNone
<1>14. PlainToken(char) \in Grammatical!PlainTokens
  BY <1>3, TokensOfSymbols
<1>15. Phase = "reading"
  BY <1>1, PhasesAre
<1>16. /\ char = Eof => s = FINAL
       /\ char \in 3 .. 12 => s \in 9 .. 18
       /\ char = 13 => s \in {19, 35}
       /\ char = 14 => s = 1
       /\ char = 15 => s = 8
       /\ char = 17 => s = 20
       /\ char = 19 => s = 21
       /\ char = 22 => s = 22
       /\ char \in {18, 20, 23} => s \in {45, 47, 48}
       /\ char = 21 => (Top = 25 /\ s = 32) \/ (Top \in {37, 40} /\ s \in {44, 46})
       /\ char = 24 => s = 33
  BY <1>3, <1>4, StatesOfTokens
<1>17. CASE char = Eof
  <2>1. PlainToken(char).kind = "EOF"
    BY <1>17, TokensOfSymbols DEF Symbols
  <2>2. Phase' = "accepted"
    <3>1. Top' = FINAL /\ result' # Idle
      BY <1>1, <1>7, <1>16, <1>17 DEF Running, Idle
    <3> QED
      BY <3>1, NextPhasesAre
  <2>3. Grammatical!Take(PlainToken(char))
    BY <1>12, <1>15, <2>1, <2>2 DEF Grammatical!Take
  <2> QED
    BY <1>14, <2>3 DEF Seen, Grammatical!GrammarNext
<1>18. CASE char # Eof
  <2> DEFINE t == PlainToken(char)
  <2>1. /\ char \in 3 .. 12 => t.kind = "SCALAR"
        /\ char = 13 => t.kind = "STRING"
        /\ char = 14 => t.kind = "NAME"
        /\ char = 15 => t.kind = "EQUALS"
        /\ char = 21 => t.kind = "COMMA"
        /\ char = 24 => t.kind = "SEMICOLON"
        /\ char \in {17, 19, 22} => t.kind = "START" /\ t.of = BracketOf(char)
        /\ char \in {18, 20, 23} => t.kind = "END" /\ t.of = BracketOf(char)
    BY <1>3, TokensOfSymbols
  <2>2. char \in 3 .. 15 \cup {17, 18, 19, 20, 21, 22, 23, 24}
    BY <1>3, <1>5, <1>18 DEF Shifts
  <2>3. s # FINAL
    BY <1>16, <2>2 DEF FINAL
  <2>4. Phase' = "reading"
    BY <1>1, <1>7, <2>3, NextPhasesAre
  <2>5. Innermost(OpenBrackets) = Grammatical!Enclosing
    BY DEF Innermost, Grammatical!Enclosing
  <2> HIDE DEF t
  <2>6. OpenBrackets' = Grammatical!OpenAfter(t) /\ Expected' = Grammatical!ExpectAfter(t)
    <3>1. CASE char \in 3 .. 12
      <4>1. OpenBrackets' = OpenBrackets
        BY <1>8, <3>1 DEF BracketsAfter
      <4>2. Expected' = Grammatical!AfterValue(Innermost(OpenBrackets))
        BY <1>11, <1>16, <3>1, <4>1 DEF ExpectedIn, Complete
      <4>3. t.kind = "SCALAR"
        BY <2>1, <3>1
      <4> QED
        BY <2>5, <4>1, <4>2, <4>3 DEF Grammatical!OpenAfter, Grammatical!ExpectAfter
    <3>2. CASE char = 13
      <4>1. OpenBrackets' = OpenBrackets
        BY <1>8, <3>2 DEF BracketsAfter
      <4>2. Expected' = "string"
        BY <1>11, <1>16, <3>2 DEF ExpectedIn
      <4>3. t.kind = "STRING"
        BY <2>1, <3>2
      <4> QED
        BY <4>1, <4>2, <4>3 DEF Grammatical!OpenAfter, Grammatical!ExpectAfter
    <3>3. CASE char = 14
      <4>1. OpenBrackets' = OpenBrackets
        BY <1>8, <3>3 DEF BracketsAfter
      <4>2. Expected' = "equals"
        BY <1>11, <1>16, <3>3 DEF ExpectedIn
      <4>3. t.kind = "NAME"
        BY <2>1, <3>3
      <4> QED
        BY <4>1, <4>2, <4>3 DEF Grammatical!OpenAfter, Grammatical!ExpectAfter
    <3>4. CASE char = 15
      <4>1. OpenBrackets' = OpenBrackets
        BY <1>8, <3>4 DEF BracketsAfter
      <4>2. Expected' = "value"
        BY <1>11, <1>16, <3>4 DEF ExpectedIn
      <4>3. t.kind = "EQUALS"
        BY <2>1, <3>4
      <4> QED
        BY <4>1, <4>2, <4>3 DEF Grammatical!OpenAfter, Grammatical!ExpectAfter
    <3>5. CASE char \in {17, 19, 22}
      <4>1. OpenBrackets' = <<t.of>> \o OpenBrackets /\ t.kind = "START"
        BY <1>8, <2>1, <3>5 DEF BracketsAfter
      <4>2. t.of = "GROUP" <=> char = 22
        BY <2>1, <3>5 DEF BracketOf
      <4>3. Expected' = IF char = 22 THEN "setting" ELSE "first"
        BY <1>11, <1>16, <3>5 DEF ExpectedIn
      <4> QED
        BY <4>1, <4>2, <4>3 DEF Grammatical!OpenAfter, Grammatical!ExpectAfter
    <3>6. CASE char \in {18, 20, 23}
      <4>1. OpenBrackets # <<>>
        BY <1>5, <1>10, <3>6, SMTT(30) DEF Shifts, ContextOf, Eof
      <4>2. OpenBrackets' = Tail(OpenBrackets)
        <5>1. OpenBrackets' = SubSeq(OpenBrackets, 2, Len(OpenBrackets))
          BY <1>8, <3>6 DEF BracketsAfter
        <5> QED
          BY <1>10, <4>1, <5>1, BracketBehind
      <4>3. Expected' = Grammatical!AfterValue(Innermost(OpenBrackets'))
        BY <1>11, <1>16, <3>6 DEF ExpectedIn, Complete
      <4>4. Innermost(OpenBrackets') = IF Len(OpenBrackets) = 1 THEN "GROUP" ELSE OpenBrackets[2]
        BY <1>10, <4>1, <4>2, BracketBehind
      <4>5. t.kind = "END"
        BY <2>1, <3>6
      <4> QED
        BY <4>2, <4>3, <4>4, <4>5 DEF Grammatical!OpenAfter, Grammatical!ExpectAfter
    <3>7. CASE char \in {21, 24}
      <4>1. OpenBrackets' = OpenBrackets
        BY <1>8, <3>7 DEF BracketsAfter
      <4>2. t.kind \in {"COMMA", "SEMICOLON"}
        BY <2>1, <3>7
      <4>3. CASE Top = 25
        <5>1. Expected' = "setting"
          <6>1. s \in {32, 33}
            BY <1>16, <3>7, <4>3
          <6> QED
            BY <1>11, <6>1 DEF ExpectedIn
        <5>2. Expected = "terminator"
          BY <1>10, <4>3 DEF ExpectedIn
        <5> QED
          BY <4>1, <4>2, <5>1, <5>2 DEF Grammatical!OpenAfter, Grammatical!ExpectAfter
      <4>4. CASE Top \in {37, 40}
        <5>1. Expected' = "element"
          <6>1. char = 21
            BY <1>5, <4>4 DEF Shifts
          <6>2. s \in {44, 46}
            BY <1>16, <4>4, <6>1
          <6> QED
            BY <1>11, <6>2 DEF ExpectedIn
        <5>2. Expected = "comma"
          BY <1>10, <4>4 DEF ExpectedIn
        <5>3. Innermost(OpenBrackets) # "GROUP"
          BY <1>10, <4>4 DEF ContextOf
        <5> QED
          BY <2>5, <4>1, <4>2, <5>1, <5>2, <5>3
          DEF Grammatical!OpenAfter, Grammatical!ExpectAfter
      <4>5. Top = 25 \/ Top \in {37, 40}
        BY <1>5, <3>7 DEF Shifts, Eof
      <4> QED
        BY <4>3, <4>4, <4>5
    <3> QED
      BY <2>2, <3>1, <3>2, <3>3, <3>4, <3>5, <3>6, <3>7
  <2>7. t.kind # "EOF"
    BY <2>1, <2>2
  <2>8. Grammatical!Take(t)
    BY <1>12, <1>13, <1>15, <2>4, <2>6, <2>7 DEF Grammatical!Take, t
  <2> QED
    BY <1>14, <2>8 DEF Seen, Grammatical!GrammarNext, t
<1> QED
  BY <1>17, <1>18

(* Where the tables refuse a token, so does the grammar.                   *)
LEMMA RefusedTokens ==
  ASSUME View(Top, OpenBrackets, Expected), Top \in {2, 5, 8, 38, 41, 43},
         NEW sym \in Symbols, ~Shifts(Top, sym)
  PROVE  ~Grammatical!Allowed(PlainToken(sym)) /\ Expected # "string"
<1> DEFINE k == PlainToken(sym).kind
           of == PlainToken(sym).of
<1>1. /\ k = "EOF" => sym = Eof
      /\ k = "EQUALS" => sym = 15
      /\ k \in {"SCALAR", "STRING"} => sym \in 3 .. 13
      /\ k = "START" => sym \in {17, 19, 22}
      /\ k = "END" => sym \in {18, 20, 23} /\ of = BracketOf(sym)
  BY TokensOfSymbols DEF Symbols
<1>2. BracketOf(18) = "ARRAY" /\ BracketOf(20) = "LIST" /\ BracketOf(23) = "GROUP"
  BY DEF BracketOf
<1>3. Innermost(OpenBrackets) = Grammatical!Enclosing
  BY DEF Innermost, Grammatical!Enclosing
<1>4. ContextOf(OpenBrackets, Top) /\ ExpectedIn(Top, OpenBrackets, Expected)
  BY DEF View
<1>5. /\ Top \in {2, 38, 41, 43} => Expected = "end"
      /\ Top = 5 => Expected = "equals"
      /\ Top = 8 => Expected = "value"
  BY <1>4 DEF ExpectedIn
<1>6. /\ Top = 2 => OpenBrackets = <<>>
      /\ Top = 38 => OpenBrackets # <<>> /\ Innermost(OpenBrackets) = "ARRAY"
      /\ Top = 41 => OpenBrackets # <<>> /\ Innermost(OpenBrackets) = "LIST"
      /\ Top = 43 => OpenBrackets # <<>> /\ Innermost(OpenBrackets) = "GROUP"
  BY <1>4 DEF ContextOf
<1>7. /\ Top = 2 => sym # Eof
      /\ Top = 5 => sym # 15
      /\ Top = 8 => sym \notin 3 .. 13 \cup {17, 19, 22}
      /\ Top = 38 => sym # 18
      /\ Top = 41 => sym # 20
      /\ Top = 43 => sym # 23
  BY DEF Shifts
<1> HIDE DEF k, of
<1>8. Grammatical!Allowed(PlainToken(sym)) =>
        \/ k = "EQUALS" /\ Expected = "equals"
        \/ k \in {"SCALAR", "STRING", "START"} /\ Expected \in {"value", "first", "element"}
        \/ k = "END" /\ OpenBrackets # <<>> /\ Innermost(OpenBrackets) = of
        \/ k = "EOF" /\ OpenBrackets = <<>>
        \/ Expected \in {"setting", "terminator", "string", "comma", "element"}
  BY <1>3 DEF Grammatical!Allowed, Grammatical!StartsValue, Grammatical!ValueExpected,
              Grammatical!SettingExpected, k, of
<1>9. CASE Top = 2
  BY <1>1, <1>5, <1>6, <1>7, <1>8, <1>9
<1>10. CASE Top = 5
  <2>1. Innermost(OpenBrackets) = "GROUP" /\ Expected = "equals" /\ sym # 15
    BY <1>4, <1>5, <1>7, <1>10 DEF ContextOf
  <2>2. Grammatical!Allowed(PlainToken(sym)) => k = "EQUALS"
    BY <2>1 DEF Grammatical!Allowed, Grammatical!StartsValue, Grammatical!ValueExpected,
                Grammatical!SettingExpected, k
  <2> QED
    BY <1>1, <2>1, <2>2
<1>11. CASE Top = 8
  <2>1. Expected = "value" /\ sym \notin 3 .. 13 \cup {17, 19, 22}
    BY <1>5, <1>7, <1>11
  <2>2. Grammatical!Allowed(PlainToken(sym)) => k \in {"SCALAR", "STRING", "START"}
    BY <2>1 DEF Grammatical!Allowed, Grammatical!StartsValue, Grammatical!ValueExpected,
                Grammatical!SettingExpected, k
  <2> QED
    BY <1>1, <2>1, <2>2
<1>12. CASE Top \in {38, 41, 43}
  BY <1>1, <1>2, <1>5, <1>6, <1>7, <1>8, <1>12
<1> QED
  BY <1>9, <1>10, <1>11, <1>12

LEMMA ErrorIsSeen ==
  ASSUME IInv, SyntaxError PROVE Seen
<1>1. /\ result = Running /\ Top # FINAL /\ At(yydefact, Top) = 0
      /\ NeedsToken(Top) => char # EMPTY /\ ~HasEntry(Top, char)
      /\ nerrs' = nerrs + 1 /\ Return(1, states, values)
  BY DEF SyntaxError, Default
<1>2. View(Top, OpenBrackets, Expected) /\ Top \in States
  BY ViewOfStack DEF View
<1>3. Top \in {2, 5, 8, 38, 41, 43} /\ NeedsToken(Top)
  BY <1>1, <1>2, DefaultsOfStates
<1>4. char \in Symbols /\ ~HasEntry(Top, char)
  BY <1>1, <1>3 DEF IInv, TypeOK
<1>5. ~Shifts(Top, char)
  BY <1>1, <1>2, <1>4, WhatIsShifted
<1>6. ~Grammatical!Allowed(PlainToken(char)) /\ Expected # "string"
  BY <1>2, <1>3, <1>4, <1>5, RefusedTokens
<1>7. Phase = "reading"
  BY <1>1, PhasesAre
<1>8. Phase' = "refused"
  <2>1. nerrs' = 1
    BY <1>1 DEF IInv, NothingHeld
  <2>2. Top' # FINAL /\ result' = 1
    BY <1>1, TopAfterReturn
  <2> QED
    BY <2>1, <2>2, NextPhasesAre
<1>9. PlainToken(char) \in Grammatical!PlainTokens
  BY <1>4, TokensOfSymbols
<1>10. Grammatical!RefuseText(PlainToken(char))
  BY <1>6, <1>7, <1>8 DEF Grammatical!RefuseText
<1> QED
  BY <1>9, <1>10 DEF Seen, Grammatical!GrammarNext

LEMMA CallIsSeen ==
  ASSUME IInv, Call PROVE Seen
<1>1. /\ result # Running /\ result' = Running
      /\ UNCHANGED <<states, char>>
      /\ Len(states) = 1 /\ char = EMPTY /\ states[1] = 0
  BY DEF Call, IInv, NothingHeld, StackIsPath
<1>2. Top = 0 /\ Top' = 0 /\ Top # FINAL /\ Top' # FINAL
  BY <1>1 DEF Top, Last, FINAL
<1>3. Phase # "reading" /\ Phase' = "reading"
  <2>1. Phase' = "reading"
    BY <1>1, <1>2, NextPhasesAre
  <2>2. Phase # "reading"
    BY <1>1, <1>2 DEF Phase
  <2> QED
    BY <2>1, <2>2
<1>4. OpenBrackets = <<>> /\ Expected = "setting"
  BY <1>2, ViewOfStack DEF View, ContextOf, ExpectedIn
<1>5. OpenBrackets' = OpenBrackets /\ Expected' = Expected
  BY <1>1 DEF OpenBrackets, Expected, Top
<1>6. PlainToken(char)' = Grammatical!NoToken
  BY <1>1, TokenOfNone
<1>7. Grammatical!Begin
  BY <1>3, <1>4, <1>5, <1>6 DEF Grammatical!Begin
<1> QED
  BY <1>7 DEF Seen, Grammatical!GrammarNext

LEMMA AcceptIsSeen ==
  ASSUME Accept PROVE Seen
<1>1. result = Running /\ Top = FINAL /\ Return(0, states, values)
  BY DEF Accept
<1>2. Phase = "accepted"
  <2>1. result # Idle
    BY <1>1 DEF Running, Idle
  <2> QED
    BY <1>1, <2>1, PhasesAre
<1>3. Phase' = "accepted"
  BY <1>1, TopAfterReturn, NextPhasesAre
<1>4. Grammatical!Aside
  BY <1>2, <1>3 DEF Grammatical!Aside
<1> QED
  BY <1>4 DEF Seen, Grammatical!GrammarNext

(* The whole text is three symbols, for which there is always room.        *)
LEMMA RoomAtTheEnd ==
  ASSUME IInv, Top = FINAL PROVE Room
<1> DEFINE n == Len(states)
<1>1. /\ n \in Nat \ {0} /\ Top = states[n] /\ n \in 1 .. n
      /\ \A i \in 1 .. n : states[i] # 0 =>
           i - 1 \in 1 .. n /\ MayFollow(states[i - 1], states[i])
  BY StackStates DEF IInv
<1> HIDE DEF n
<1>2. \A p : MayFollow(p, 6) => p = 2
  BY DEF MayFollow, ValueStarts, ScalarStarts
<1>3. \A p : MayFollow(p, 2) => p = 0
  BY DEF MayFollow, ValueStarts, ScalarStarts
<1>4. \A p : ~MayFollow(p, 0)
  BY DEF MayFollow, ValueStarts, ScalarStarts
<1>5. states[n] = 6
  BY <1>1 DEF FINAL
<1>6. n - 1 \in 1 .. n /\ states[n - 1] = 2
  BY <1>1, <1>2, <1>5
<1>7. n - 1 - 1 \in 1 .. n /\ states[n - 1 - 1] = 0
  BY <1>1, <1>3, <1>6
<1>8. n - 1 - 1 = 1
  <2>1. ASSUME n - 1 - 1 # 1 PROVE FALSE
    <3>1. n - 1 - 1 \in 2 .. n
      BY <1>1, <1>7, <2>1
    <3>2. MayFollow(states[n - 1 - 1 - 1], states[n - 1 - 1])
      BY <3>1 DEF IInv, StackIsPath, n
    <3> QED
      BY <1>4, <1>7, <3>2
  <2> QED
    BY <2>1
<1>9. n = 3
  BY <1>1, <1>8
<1>10. size \in Nat /\ 4 <= size
  BY DepthAssumption DEF IInv, TypeOK
<1> QED
  BY <1>9, <1>10 DEF Room, n

LEMMA NoMemoryIsSeen ==
  ASSUME IInv, Grow \/ Exhaust PROVE Seen
<1>1. result = Running /\ Top # FINAL
  BY RoomAtTheEnd DEF Grow, Exhaust
<1>2. CASE Exhaust
  BY <1>1, <1>2, GiveUpIsSeen DEF Exhaust
<1>3. CASE Grow
  <2>1. UNCHANGED <<result, nerrs, states, char>> \/ (Return(1, states, values) /\ UNCHANGED nerrs)
    BY <1>3 DEF Grow
  <2>2. CASE UNCHANGED <<result, nerrs, states, char>>
    BY <2>2 DEF Seen, Grammatical!grammarVars, Phase, OpenBrackets, Expected, Top
  <2>3. CASE Return(1, states, values) /\ UNCHANGED nerrs
    BY <1>1, <2>3, GiveUpIsSeen
  <2> QED
    BY <2>1, <2>2, <2>3
<1> QED
  BY <1>2, <1>3

LEMMA StepsAreSeen ==
  ASSUME IInv, IInv', [Next]_vars PROVE Seen
<1>1. CASE UNCHANGED vars
  BY <1>1 DEF vars, parse, Seen, Grammatical!grammarVars, Phase, OpenBrackets, Expected, Top
<1>2. CASE Call
  BY <1>2, CallIsSeen
<1>3. CASE Grow \/ Exhaust
  BY <1>3, NoMemoryIsSeen
<1>4. CASE Accept
  BY <1>4, AcceptIsSeen
<1>5. CASE Read
  BY <1>5, ReadIsSeen
<1>6. CASE Shift
  BY <1>6, ShiftIsSeen
<1>7. CASE ReduceDefault
  BY <1>7, ReduceIsSeen
<1>8. CASE SyntaxError
  BY <1>8, ErrorIsSeen
<1> QED
  BY <1>1, <1>2, <1>3, <1>4, <1>5, <1>6, <1>7, <1>8 DEF Next, Step

(* The tables and the loop of the generated parser accept the texts that   *)
(* the rules of the grammar allow, refuse a text at the first token that   *)
(* they do not, and read no token ahead but where one may be left out,     *)
(* for every depth of nesting that the stacks have room for.               *)
THEOREM AutomatonIsForTheGrammar == Spec => AcceptsTheGrammar
<1>1. Init => Grammatical!GrammarInit
  BY DEF Init, Grammatical!GrammarInit, Phase
<1>2. IInv /\ IInv' /\ [Next]_vars => [Grammatical!GrammarNext]_(Grammatical!grammarVars)
  BY StepsAreSeen DEF Seen
<1> QED
  BY <1>1, <1>2, LoopInvariant, PTL DEF Spec, AcceptsTheGrammar, Grammatical!GrammarSpec
=============================================================================
