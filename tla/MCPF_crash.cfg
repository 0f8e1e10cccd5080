SPECIFICATION PFCrashSpec
CONSTANTS
  f1 = f1
  f2 = f2
  d1 = d1
  junk = junk
  null = null
  PF_FTAB_SIZE = 2
  PF_MAX_BUFS = 2
  MaxPages = 2
  Fname <- OneFile
  Data <- OneDatum
  Junk <- junk
  NULL <- null
  PF_Strategy <- LRU
  Faults <- NoFault
  Undisciplined = FALSE
VIEW DiskAndMemory
INVARIANTS PFTypeOK HashListAgree HeaderCoversPages
PROPERTIES RestartKeepsSavedFiles
