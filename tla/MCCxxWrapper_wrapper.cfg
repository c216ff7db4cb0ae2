\* Objects through adding, removing, overriding, reading and clearing; casts
\* and loops.
SPECIFICATION CxxSpec
CONSTANTS
  c1 = c1  c2 = c2  c3 = c3
  a = a  h1 = h1  h2 = h2  h3 = h3  txt = txt
  NULL = NULL  SEP = SEP  BADIDX = BADIDX  BadName = BadName
  Settings <- Cells3
  Names = {a}
  Hooks <- Objects3
  Strings = {}
  Int32Max = 1
  Uint32Max = 3
  Int64Max = 7
  FloatExact = 4
  Single <- MCSingle
  UintMod = 8
  AddTypes = {}
  AddedTypes = {"INT", "INT64", "ARRAY", "BAD"}
  Casts = {"unsigned", "string"}
  LoopKinds = {TRUE, FALSE}
  Paths <- MemberPaths
  ElemIdx = {0}
  ScalarArgs <- CxxValues
  Formats = {"DEFAULT"}
  OptionSets = {{"AUTOCONVERT", "ALLOW_OVERRIDES"}}
  Destructors = {}
SYMMETRY SymCellsObjects
INVARIANTS ObjectsAreCurrent CastsKeepTheNumber LoopsSeeEveryMember
CHECK_DEADLOCK FALSE
