SPECIFICATION Spec
CONSTANTS
  Boots <- BigRoot
  EntryWords = 2
  ClusterEntries = 2
  Size = 26
  Wrap = 12
  MaxFailures = 0
INVARIANTS
  MountReadsTheVolume
