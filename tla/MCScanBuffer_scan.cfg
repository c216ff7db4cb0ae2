\* Small buffers, files in directives, strings and comments that stay open.
SPECIFICATION Spec
CONSTANTS
  NextState <- MCNextState
  Accepts <- MCAccepts
  Ec <- MCEc
  ClassOf <- MCClassOf
  CanMatchEol <- MCCanMatchEol
  StartState <- MCStartState
  JAM <- MCJAM
  YY_END_OF_BUFFER <- MCYY_END_OF_BUFFER
  Disks <- MCDisks
  Included <- MCIncluded
  MAX_INCLUDE_DEPTH = 2
  Garbage = 52
  BufSize = 2
  ReadSize = 3
INVARIANTS BuffersAreSound 
PROPERTIES ScanTerminates ImplementsLexer
CHECK_DEADLOCK FALSE
