\* Adds, overrides, removals by path and by index, every shape of path,
\* a hook that comes and goes with its setting.
SPECIFICATION Spec
CONSTANTS
  c1 = c1  c2 = c2  c3 = c3  c4 = c4
  a = a  b = b  h1 = h1  txt = txt
  NULL = NULL  SEP = SEP  BADIDX = BADIDX  BadName = BadName
  Settings <- Cells4
  Names = {a, b}
  Hooks = {h1}
  Strings = {}
  Int32Max = 3
  Int64Max = 7
  FloatExact = 4
  Single <- MCSingle
  UintMod = 8
  AddTypes = {"GROUP", "INT", "LIST"}
  Paths <- MCPaths
  ElemIdx = {0, 1}
  ScalarArgs <- NoValues
  Formats = {}
  OptionSets = {{"ALLOW_OVERRIDES"}}
  Destructors = {TRUE}
SYMMETRY SymCells4
INVARIANTS TypeOK TreeOK NothingLeaks EverySettingIsFound
PROPERTIES RemovesWhatLookupFinds NoHookIsLost
