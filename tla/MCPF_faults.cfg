SPECIFICATION PFSpec
CONSTANTS
  f1 = f1
  f2 = f2
  d1 = d1
  junk = junk
  null = null
  PF_FTAB_SIZE = 2
  PF_MAX_BUFS = 1
  MaxPages = 1
  Fname <- TwoFiles
  Data <- OneDatum
  Junk <- junk
  NULL <- null
  PF_Strategy <- LRUorMRU
  Faults <- AllFaults
  Undisciplined = FALSE
VIEW Observable
INVARIANTS FramesAccountedFor CleanMatchesDisk
PROPERTIES PinnedPagesStay ImplementsPagedFile
