SPECIFICATION AMSpec
CONSTANTS
  r1 = r1
  r2 = r2
  EntrySize = 2
  CellSize = 2
  RecId <- OneRec
  PF_MAX_BUFS = 3
  MaxOthers = 0
  MaxKeys = 2
  AM_MAXSTACK = 4
  Careful = TRUE
  LeafSpace = 9
  MaxPages = 12
  Value <- Values7
  MaxPerKey = 1
VIEW Observable
INVARIANTS AMTypeOK ChainIsWhole SearchFindsAll TreeIsBalanced NothingLeftBehind
