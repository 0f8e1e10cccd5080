SPECIFICATION PFFairSpec
CONSTANTS
  f1 = f1
  f2 = f2
  d1 = d1
  junk = junk
  null = null
  PF_FTAB_SIZE = 1
  PF_MAX_BUFS = 2
  MaxPages = 3
  Fname <- OneFile
  Data <- NoDatum
  Junk <- junk
  NULL <- null
  PF_Strategy <- LRUorMRU
  Faults <- NoFault
  Undisciplined = FALSE
VIEW Observable
INVARIANTS BufferedPagesOfOpenFiles BufferedPagesInFile LoopsAreSound FreeChainSound PinnedPagesAreUsed
PROPERTIES CallsReturn ImplementsPagedFile
