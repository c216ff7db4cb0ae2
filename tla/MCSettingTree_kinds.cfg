\* Every kind of parent and element, adds with wrong types and names, arrays
\* filled by the set_elem functions, stores into all of them.
SPECIFICATION Spec
CONSTANTS
  c1 = c1  c2 = c2  c3 = c3  c4 = c4
  a = a  b = b  h1 = h1  txt = txt
  NULL = NULL  SEP = SEP  BADIDX = BADIDX  BadName = BadName
  Settings <- Cells4
  Names = {a}
  Hooks = {}
  Strings = {txt}
  Int32Max = 3
  Int64Max = 7
  FloatExact = 4
  Single <- MCSingle
  UintMod = 8
  AddTypes = {"NONE", "GROUP", "ARRAY", "LIST", "BAD"}
  Paths <- NoPaths
  ElemIdx <- AppendIdx
  ScalarArgs <- OneValue
  Formats = {}
  OptionSets = {{"ALLOW_OVERRIDES"}, {"AUTOCONVERT"}}
  Destructors = {}
SYMMETRY SymCells4
INVARIANTS ShapeOK 
 
