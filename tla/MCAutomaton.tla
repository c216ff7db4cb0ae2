----------------------------- MODULE MCAutomaton -----------------------------
(* A small instance of Automaton for TLC.                                  *)
EXTENDS Automaton

CONSTANTS p, q
=============================================================================
