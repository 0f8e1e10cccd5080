SPECIFICATION RMSpec
CONSTANTS
  a = a
  b = b
  scrap = scrap
  s1 = s1
  s2 = s2
  RM_PAGE_SIZE = 6
  HeaderSize = 1
  SlotSize = 1
  Datum <- OneDatum
  Scrap <- scrap
  PF_MAX_BUFS = 2
  MaxPages = 2
  RIDPages = 8
  RIDSlots = 8
  Lengths <- One
  BufSizes <- Two
  Scan <- NoScan
  RetriesScans = FALSE
VIEW Observable
PROPERTIES CloseFlushesAllPages
