--------------------------- MODULE MCSettingTree ----------------------------
(* Small instances of SettingTree for TLC.                                 *)
EXTENDS SettingTree

CONSTANTS c1, c2, c3, c4, a, b, h1, txt

Cells2 == {c1, c2}
Cells4 == {c1, c2, c3, c4}

(* Which cell the allocator returns makes no difference.                   *)
SymCells4 == Permutations(Cells4)

(* A name alone, one path down, an index, an index below, a separator at   *)
(* the end, a double one, an index glued to a name, a bad bracket, an      *)
(* index that wraps around.                                                *)
MCPaths ==
  { <<>>, <<a>>, <<SEP, b>>, <<a, SEP, b>>, <<a, SEP>>, <<a, SEP, SEP, b>>,
    <<a, SEP, 0>>, <<a, SEP, 0, SEP, b>>, <<0, a>>, <<1>>, <<-1>>, <<a, 0>>,
    <<BADIDX, SEP, a>>, <<BadName>> }

DeepPaths == { <<a>>, <<a, SEP, a>>, <<0, SEP, a>> }

NoPaths == {}

(* Append, the first and the second element.                               *)
AppendIdx == {-1, 0, 1}

NoValues == [t \in ScalarTypes |-> {}]

OneValue == [t \in ScalarTypes |-> CASE t = "STRING" -> Strings
                                     [] t = "BOOL" -> {1}
                                     [] OTHER -> {2}]

(* For floats, halves: within the width of an int, of a long long, beyond. *)
EdgeValues == [t \in ScalarTypes |->
                 CASE t = "STRING" -> Strings
                   [] t = "BOOL" -> {0, 1, -1}
                   [] t = "INT" -> {-(Int32Max + 1), 0, 5, Int32Max}
                   [] t = "INT64" -> {-(Int64Max + 1), Int32Max + 1, Int32Max, Int64Max}
                   [] t = "FLOAT" -> {-3, 1, 2 * Int32Max + 1, 2 * Int32Max + 2,
                                      -2 * Int64Max - 3, 2 * Int64Max + 2}]

(* A single precision of two bits: 4 is the last integer before a gap, and *)
(* a tie goes to the number whose last bit is 0.                           *)
EndingIn0 == {0, 1, 2, 4, 8, 16}
EndingIn1 == {3, 6, 12}
Distance(x, y) == IF x < y THEN y - x ELSE x - y
Nearest(n) ==
  CHOOSE x \in EndingIn0 \cup EndingIn1 :
    \A y \in (EndingIn0 \cup EndingIn1) \ {x} :
      \/ Distance(x, n) < Distance(y, n)
      \/ Distance(x, n) = Distance(y, n) /\ x \in EndingIn0
MCSingle == [n \in Int64 |-> IF n < 0 THEN -Nearest(-n) ELSE Nearest(n)]
=============================================================================
