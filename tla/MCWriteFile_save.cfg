\* Saves that fail at any step or meet a crash, beside another thread.
SPECIFICATION WriteSpec
CONSTANTS
  w = w  r = r  o1 = o1  o2 = o2  o3 = o3
  GLOBAL = GLOBAL  CLOSED = CLOSED
  Threads = {w, r}
  Objects <- MCObjects
  Writer = w
  MaxNesting = 1
  PieceCount = 4
  BufSize = 2
  MaxSaves = 2
SYMMETRY SymObjects
INVARIANTS LocaleIsOverridden SavedAsReported SyncedButTheTail
