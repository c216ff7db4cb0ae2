\* Files that include lists, each other and themselves, fail, or are missing.
SPECIFICATION Spec
CONSTANTS
  main = main  part = part  nest = nest  loop = loop
  mixed = mixed  broken = broken  unlisted = unlisted
  list = list  inner = inner  itself = itself  none = none
  faulty = faulty  denied = denied
  NULL = NULL
  Files = {main, part, nest, loop, mixed, broken, unlisted}
  IncludePaths = {list, inner, itself, none, faulty, denied}
  Text <- MCText
  IncludeFn <- MCIncludeFn
  MaxIncludeDepth = 2
  MaxCalls = 2
INVARIANTS ResourcesReleasedOnce ScansTheCurrentFile
PROPERTIES ReturnsWholeText FailureIsReported ReadTerminates
