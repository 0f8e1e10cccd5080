SPECIFICATION ScanSpec
CONSTANTS
  EntrySize = 1
  CellSize = 1
  RecId <- Recs5
  ValueOf <- ValueOf5
  Value <- Values4
  NoValue = NoValue
  NoScan = NoScan
  Lost = Lost
  Operators <- AllOperators
  MAXSCANS = 1
  PF_MAX_BUFS = 3
  MaxOthers = 3
  MaxKeys = 2
  AM_MAXSTACK = 2
  Careful = TRUE
  LeafSpace = 7
  MaxPages = 6
  MaxPerKey = 2
VIEW Observable
INVARIANTS AMScanTypeOK LeavesAreSound AheadIsOwed
PROPERTIES ImplementsIndexScans ScansMoveOn
