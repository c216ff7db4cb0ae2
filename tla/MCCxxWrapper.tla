---------------------------- MODULE MCCxxWrapper ----------------------------
(* Small instances of CxxWrapper for TLC.                                  *)
EXTENDS CxxWrapper

CONSTANTS c1, c2, c3, a, h1, h2, h3, txt

Cells3 == {c1, c2, c3}
Objects3 == {h1, h2, h3}
SymCellsObjects == Permutations(Cells3) \cup Permutations(Objects3)

MemberPaths == {<<a>>, <<a, SEP, 0>>, <<0>>}

(* Up to four, every integer is exact with one bit less of precision.      *)
MCSingle == [n \in Int64 |-> n]

(* Negative, beyond the width of an int, and beyond that of an unsigned.   *)
CxxValues == [t \in ScalarTypes |->
                CASE t = "INT" -> {-1}
                  [] t = "INT64" -> {Int32Max + 1, Uint32Max + 1}
                  [] OTHER -> {}]
=============================================================================
