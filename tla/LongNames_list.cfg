SPECIFICATION MCSpec
CONSTANTS
  Dirs <- MCDirs
  Contents <- MCContents
  Sums <- MCSums
  LFN_ID_SLOTMASK = 3
  Folders <- MCFolders
  Typeable = {"A", "a", "E5"}
  tolower <- MCtolower
INVARIANTS
  TypeOK
  NamesAreRead
  NamesAreWhole
  ProperUntilMarked
  NamesFindTheirEntries
PROPERTIES
  WritesInsideBuffers
