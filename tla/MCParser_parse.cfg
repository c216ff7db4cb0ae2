\* Texts of every form read, written and read again.
SPECIFICATION ParserSpec
CONSTANTS
  c1 = c1  c2 = c2  c3 = c3  c4 = c4
  a = a  b = b  part = part  whole = whole  empty = empty
  NULL = NULL  SEP = SEP  BADIDX = BADIDX  BadName = BadName
  Settings <- Cells4
  Names = {a, b}
  Hooks = {}
  Strings <- MCStrings
  EmptyString = empty
  Joined <- MCJoined
  Tokens <- MCTokens
  MaxTokens = 9
  Int32Max = 3
  Int64Max = 7
  FloatExact = 7
  Single <- MCSingle
  UintMod = 8
  AddTypes = {}
  Paths = {}
  ElemIdx = {}
  ScalarArgs <- NoValues
  Formats = {}
  OptionSets = {{}, {"ALLOW_OVERRIDES"}}
  Destructors = {}
SYMMETRY SymCells4
PROPERTIES FollowsTheGrammar
INVARIANTS PartialTreeIsLegal TreeIsTheText  LinesAreTheirOwn
