\* Scalars of every type and format, written and read again.
SPECIFICATION Spec
CONSTANTS
  NextState <- MCNextState
  Accepts <- MCAccepts
  Ec <- MCEc
  ClassOf <- MCClassOf
  CanMatchEol <- MCCanMatchEol
  StartState <- MCStartState
  JAM <- MCJAM
  YY_END_OF_BUFFER <- MCYY_END_OF_BUFFER
  Integers64 <- MCIntegers
  Strings <- MCStrings
  Printed <- MCPrinted
INVARIANTS IntegersAreReadAgain TextsAreReadAgain
CHECK_DEADLOCK FALSE
