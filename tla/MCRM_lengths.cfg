SPECIFICATION RMSpec
CONSTANTS
  a = a
  b = b
  scrap = scrap
  s1 = s1
  s2 = s2
  RM_PAGE_SIZE = 8
  HeaderSize = 1
  SlotSize = 1
  Datum <- TwoData
  Scrap <- scrap
  PF_MAX_BUFS = 2
  MaxPages = 1
  RIDPages = 8
  RIDSlots = 8
  Lengths <- UpToTwo
  BufSizes <- OneOrTwo
  Scan <- NoScan
  RetriesScans = TRUE
VIEW Observable
INVARIANTS RMTypeOK PagesAreSound
PROPERTIES ImplementsRecordFile
