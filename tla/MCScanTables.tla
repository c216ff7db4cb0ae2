----------------------------- MODULE MCScanTables -----------------------------
(* The tables of lib/scanner.c as the constants of the scanner.            *)
EXTENDS Integers

Tables == INSTANCE ScanTables

(* The loops end in JAM; its row is not looked up.                         *)
MCNextState ==
  [s \in 1 .. Tables!JAM_STATE |->
     [class \in 0 .. 58 |-> IF s = Tables!JAM_STATE THEN s
                            ELSE Tables!Follow[s, class]]]
MCAccepts(s) == Tables!AcceptOf(s)
MCEc(c) == Tables!EcOf(c)
MCClassOf(c) == Tables!CharClass(c)
MCCanMatchEol(rule) == Tables!RuleCanMatchEol(rule)
MCStartState(condition, bol) == Tables!InitialState(condition, bol)
MCJAM == Tables!JAM_STATE
MCYY_END_OF_BUFFER == Tables!END_OF_BUFFER
===============================================================================
