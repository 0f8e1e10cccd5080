SPECIFICATION AMSpec
CONSTANTS
  r1 = r1
  r2 = r2
  EntrySize = 2
  CellSize = 2
  RecId <- OneRec
  PF_MAX_BUFS = 3
  MaxOthers = 1
  MaxKeys = 2
  AM_MAXSTACK = 2
  Careful = FALSE
  LeafSpace = 9
  MaxPages = 7
  Value <- Values5
  MaxPerKey = 1
VIEW Observable
INVARIANTS ChainIsWhole SearchFindsAll
PROPERTIES ImplementsIndex
