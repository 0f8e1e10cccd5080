SPECIFICATION RMFairSpec
CONSTANTS
  a = a
  b = b
  scrap = scrap
  s1 = s1
  s2 = s2
  RM_PAGE_SIZE = 5
  HeaderSize = 1
  SlotSize = 1
  Datum <- TwoData
  Scrap <- scrap
  PF_MAX_BUFS = 2
  MaxPages = 2
  RIDPages = 8
  RIDSlots = 8
  Lengths <- One
  BufSizes <- UpToOne
  Scan <- TwoScans
  RetriesScans = FALSE
VIEW Observable
INVARIANTS ScansHoldTheirPage
PROPERTIES ScansSkipNothing ImplementsRecordFile ScansReturn
