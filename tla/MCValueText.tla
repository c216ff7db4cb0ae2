------------------------------ MODULE MCValueText ------------------------------
(* Integers around every power of two, strings in which an escape meets    *)
(* what may belong to it, and the shapes of printed floats.                *)
EXTENDS ValueText, MCScanTables

Power(k) == [i \in 1 .. 64 |-> IF i = 64 - k THEN 1 ELSE 0]
BelowPower(k) == [i \in 1 .. 64 |-> IF i > 64 - k THEN 1 ELSE 0]
(* 2^k, 2^k - 1, -2^k and -2^k - 1                                         *)
MCIntegers ==
  LET positive == {Power(k) : k \in 0 .. 62} \cup {BelowPower(k) : k \in 0 .. 63}
  IN positive \cup {[i \in 1 .. 64 |-> 1 - v[i]] : v \in positive}
       \cup {Negated(Power(k)) : k \in 0 .. 62}
       \cup {[i \in 1 .. 64 |-> (i % 3) % 2]}

Meeting == {1, 7, 10, 15, 31, 34, 48, 65, 92, 110, 120, 128, 255}
MCStrings ==
  {<<>>} \cup {<<c>> : c \in 1 .. 255} \cup {<<c, d>> : c, d \in Meeting}
    \cup {<<c, 49, 70>> : c \in Meeting}

(* "1", "-0", "1.50", "1.00", "100", "0.1", "1e+20", "-1.5e-07"            *)
MCPrinted ==
  {<<49>>, <<45, 48>>, <<49, 46, 53, 48>>, <<49, 46, 48, 48>>, <<49, 48, 48>>,
   <<48, 46, 49>>, <<49, 101, 43, 50, 48>>, <<45, 49, 46, 53, 101, 45, 48, 55>>}
===============================================================================
