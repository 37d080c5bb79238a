SPECIFICATION FairSpec
CONSTANTS
  t1 = t1
  t2 = t2
  Threads <- Two
  Winsock = TRUE
  Half = 128
  MaxHeld = 2
  MaxLeaks = 1
INVARIANTS
  MutualExclusion
  ReferencesAccounted
PROPERTIES
  ImplementsService
  LockProgress
