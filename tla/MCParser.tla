------------------------------ MODULE MCParser -------------------------------
(* Small instances of Parser for TLC.                                      *)
EXTENDS Parser

CONSTANTS c1, c2, c3, c4, a, b, part, whole, empty

Cells4 == {c1, c2, c3, c4}
SymCells4 == Permutations(Cells4)

NoValues == [t \in ScalarTypes |-> {}]
MCSingle == [n \in Int64 |-> n]

MCStrings == {part, whole, empty}
MCJoined ==
  [st \in MCStrings \X MCStrings |->
     IF st[1] = empty THEN st[2] ELSE IF st[2] = empty THEN st[1] ELSE whole]

(* Two scalars of different types, an octal one, and no more signs than    *)
(* there are states of the grammar to try them in.                         *)
MCTokens ==
  { Name(a), Name(b), Sign("EQUALS"), Sign("COMMA"), Sign("SEMICOLON"),
    Sign("GARBAGE"), Scalar("INT", 1, "OCT"), Scalar("BOOL", 1, "DEFAULT"),
    Quoted(part) }
  \cup { Start(t) : t \in Aggregates } \cup { End(t) : t \in Aggregates }
=============================================================================
