\* Texts of any length, nested until the parser's stacks are full.
SPECIFICATION Spec
CONSTANTS
  p = p  q = q
  GARBAGE = GARBAGE
  Cells = {p, q}
  InitDepth = 5
  MaxDepth = 14
INVARIANTS StackInBounds StringsFreedOnce
PROPERTIES CodeRunsBeforeNextToken AcceptsTheGrammar
