\* Two files of four units; two downloads, a stop, and a fault, a removal or a lost table.
SPECIFICATION StoreSpec
CONSTANTS
  a = a
  b = b
  None = None
  Files <- MCFiles
  Contents = {"x", "y"}
  Cases <- MCCases
  FirstId <- MCFirstId
  LastId = 3
  Size = 4
  Seg = 3
  Chunk = 2
  MaxId = 4
  MaxCells = 3
INVARIANTS BytesAreRight NonceOnce
PROPERTY BytesAreKept
CHECK_DEADLOCK FALSE
