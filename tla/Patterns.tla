------------------------------- MODULE Patterns -------------------------------
(***************************************************************************)
(* The patterns of lib/scanner.l as regular expressions over characters,   *)
(* with their start conditions, and what is left of a pattern after a      *)
(* character (its partial derivatives).                                    *)
(*                                                                         *)
(* A pattern is numbered by its place in the file, as the rules are in     *)
(* yylex(); the last one is the default rule that flex adds.               *)
(***************************************************************************)
EXTENDS Integers, Sequences, SequencesExt

Chars == 0 .. 255
Newline == 10
Quote == 34
Backslash == 92
Slash == 47
Star == 42

(* Sets of characters that patterns name.                                  *)
Digits == 48 .. 57
Letters == 65 .. 90 \cup 97 .. 122
HexDigits == Digits \cup 65 .. 70 \cup 97 .. 102
InSet(k) ==
  CASE k = "any" -> Chars
    [] k = "dot" -> Chars \ {Newline}
    [] k = "text" -> Chars \ {Quote, Backslash}
    [] k = "blank" -> {32, 9}
    [] k = "space" -> {10, 13, 12, 7, 8, 11}
    [] k = "digit" -> Digits
    [] k = "octal" -> 48 .. 55
    [] k = "bit" -> {48, 49}
    [] k = "hex" -> HexDigits
    [] k = "sign" -> {43, 45}
    [] k = "equals" -> {61, 58}
    [] k = "nameStart" -> Letters \cup {Star}
    [] k = "nameRest" -> Letters \cup Digits \cup {45, 95, Star}

-----------------------------------------------------------------------------
(* Regular expressions.                                                    *)
Empty == [op |-> "empty"]
One(c) == [op |-> "one", char |-> c]
In(k) == [op |-> "in", set |-> k]
Cat(a, b) == IF a = Empty THEN b ELSE [op |-> "cat", first |-> a, rest |-> b]
Or(a, b) == [op |-> "or", left |-> a, right |-> b]
(* From low to high times; no upper limit when high is Many.               *)
Many == -1
Times(a, low, high) ==
  IF high = 0 THEN Empty ELSE [op |-> "times", of |-> a, low |-> low, high |-> high]

ZeroOrMore(a) == Times(a, 0, Many)
OneOrMore(a) == Times(a, 1, Many)
Optional(a) == Times(a, 0, 1)
Joined(parts) == FoldRight(Cat, parts, Empty)
(* A letter as capital or not.                                             *)
Letter(capital) == Or(One(capital), One(capital + 32))
Word(capitals) == Joined([i \in DOMAIN capitals |-> Letter(capitals[i])])

RECURSIVE Nullable(_)
Nullable(r) ==
  CASE r.op = "empty" -> TRUE
    [] r.op \in {"one", "in"} -> FALSE
    [] r.op = "cat" -> Nullable(r.first) /\ Nullable(r.rest)
    [] r.op = "or" -> Nullable(r.left) \/ Nullable(r.right)
    [] r.op = "times" -> r.low = 0 \/ Nullable(r.of)

(* What may follow the character c: a set of expressions.                  *)
RECURSIVE After(_, _)
After(r, c) ==
  CASE r.op = "empty" -> {}
    [] r.op = "one" -> IF c = r.char THEN {Empty} ELSE {}
    [] r.op = "in" -> IF c \in InSet(r.set) THEN {Empty} ELSE {}
    [] r.op = "cat" ->
         {Cat(a, r.rest) : a \in After(r.first, c)}
           \cup (IF Nullable(r.first) THEN After(r.rest, c) ELSE {})
    [] r.op = "or" -> After(r.left, c) \cup After(r.right, c)
    [] r.op = "times" ->
         {Cat(a, Times(r.of, IF r.low = 0 THEN 0 ELSE r.low - 1,
                       IF r.high = Many THEN Many ELSE r.high - 1))
            : a \in After(r.of, c)}

-----------------------------------------------------------------------------
(* The definitions of the file.                                            *)
L == 76  \* "L"
LongSuffix == Optional(Cat(One(L), Optional(One(L))))

true == Word(<<84, 82, 85, 69>>)
false == Word(<<70, 65, 76, 83, 69>>)
name == Cat(In("nameStart"), ZeroOrMore(In("nameRest")))
integer == Cat(Optional(In("sign")), OneOrMore(In("digit")))
integer64 == Joined(<<integer, One(L), Optional(One(L))>>)
Radix(letter, digits, most) ==
  Joined(<<One(48), letter, Times(In(digits), 1, most), LongSuffix>>)
bin == Radix(Letter(66), "bit", 64)
oct == Radix(Or(Letter(79), Letter(81)), "octal", 21)
hex == Radix(Letter(88), "hex", 16)
hexchar == Joined(<<One(Backslash), Letter(88), Times(In("hex"), 2, 2)>>)
exponent == Joined(<<Letter(69), Optional(In("sign")), OneOrMore(In("digit"))>>)
float ==
  LET sign == Optional(In("sign"))
      digits == ZeroOrMore(In("digit"))
      point == One(46)
  IN Or(Joined(<<sign, Optional(digits), point, digits, Optional(exponent)>>),
        Joined(<<sign, OneOrMore(In("digit")), Optional(Cat(point, digits)), exponent>>))
(* "@include"                                                              *)
include_open ==
  Joined(<<ZeroOrMore(In("blank")), One(64), One(105), One(110), One(99), One(108), One(117),
           One(100), One(101), OneOrMore(In("blank")), One(Quote)>>)

(* In the order of their numbers.                                          *)
StartConditions ==
  <<"INITIAL", "SINGLE_LINE_COMMENT", "MULTI_LINE_COMMENT", "STRING", "INCLUDE">>

Escape(c) == Cat(One(Backslash), One(c))
Both(a, b) == Cat(One(a), One(b))

(* The rules: <<start condition, pattern>>.                                *)
Rules == <<
  <<"INITIAL", Or(One(35), Both(Slash, Slash))>>,
  <<"SINGLE_LINE_COMMENT", One(Newline)>>,
  <<"SINGLE_LINE_COMMENT", In("dot")>>,
  <<"INITIAL", Both(Slash, Star)>>,
  <<"MULTI_LINE_COMMENT", Both(Star, Slash)>>,
  <<"MULTI_LINE_COMMENT", In("dot")>>,
  <<"MULTI_LINE_COMMENT", One(Newline)>>,
  <<"INITIAL", One(Quote)>>,
  <<"STRING", OneOrMore(In("text"))>>,
  <<"STRING", Escape(97)>>, <<"STRING", Escape(98)>>, <<"STRING", Escape(110)>>,
  <<"STRING", Escape(114)>>, <<"STRING", Escape(116)>>, <<"STRING", Escape(118)>>,
  <<"STRING", Escape(102)>>, <<"STRING", Escape(Backslash)>>, <<"STRING", Escape(Quote)>>,
  <<"STRING", hexchar>>,
  <<"STRING", One(Backslash)>>,
  <<"STRING", One(Quote)>>,
  <<"INITIAL", include_open>>,
  <<"INCLUDE", OneOrMore(In("text"))>>,
  <<"INCLUDE", Escape(Backslash)>>, <<"INCLUDE", Escape(Quote)>>,
  <<"INCLUDE", One(Quote)>>,
  <<"INITIAL", In("space")>>,
  <<"INITIAL", OneOrMore(In("blank"))>>,
  <<"INITIAL", In("equals")>>,
  <<"INITIAL", One(44)>>, <<"INITIAL", One(123)>>, <<"INITIAL", One(125)>>,
  <<"INITIAL", true>>, <<"INITIAL", false>>, <<"INITIAL", name>>,
  <<"INITIAL", float>>, <<"INITIAL", integer>>, <<"INITIAL", integer64>>,
  <<"INITIAL", bin>>, <<"INITIAL", oct>>, <<"INITIAL", hex>>,
  <<"INITIAL", One(91)>>, <<"INITIAL", One(93)>>,
  <<"INITIAL", One(40)>>, <<"INITIAL", One(41)>>,
  <<"INITIAL", One(59)>>,
  <<"INITIAL", In("dot")>>,
  <<"ANY", In("any")>> >>

(* Rules that match at the beginning of a line only.                       *)
AtLineStart == {22}

(* The rules that are tried in a start condition.                          *)
Tried(condition, bol) ==
  {r \in DOMAIN Rules : /\ Rules[r][1] \in {condition, "ANY"}
                        /\ r \in AtLineStart => bol}
=============================================================================
