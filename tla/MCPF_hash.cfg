SPECIFICATION PFHashFairSpec
CONSTANTS
  PF_HASH_TBL_SIZE = 2
  FD <- TwoFD
  PageNum <- ThreePages
  Frame = {f1, f2}
  Entry = {e1, e2, e3}
  NULL = NULL
INVARIANTS PFHashTypeOK LinksAgree OneEntryPerPage
PROPERTIES HashCallsReturn ImplementsHashTable
