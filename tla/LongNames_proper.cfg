SPECIFICATION Spec
CONSTANTS
  Dirs <- MCDirs
  Contents <- MCContents
  Sums <- MCSums
  LFN_ID_SLOTMASK = 3
INVARIANTS
  LongNameIsProper
