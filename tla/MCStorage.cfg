\* Chunks and blocks of two, several reallocations of each array, and
\* for the list every one of them again after removals.
SPECIFICATION StorageSpec
CONSTANTS
  x = x  y = y  c = c
  Garbage = Garbage  NULL = NULL  NUL = NUL
  Items = {x, y}
  ChunkSize = 2
  MaxLength = 5
  Chars = {c, NUL}
  Pieces <- MCPieces
  BlockSize = 2
  MaxText = 3
  FileNames = {x, y}
  VecChunkSize = 2
  MaxFileNames = 3
INVARIANTS HoldsTheText EndsWithNull
PROPERTIES ImplementsSequence
