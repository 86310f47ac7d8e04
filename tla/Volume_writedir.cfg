SPECIFICATION Spec
CONSTANTS
  Clusters <- DamagedClusters
  FATN = 1
  End = 65535
  Copies = 2
  RootSlots = {1, 2}
  DirSlots = {1, 2}
  Letters = {"A", "B"}
  Tails <- MCTails
  Stamps <- MCStamps
  Paths <- DamagedPaths
  Volumes <- DamagedVolumes
  HeapBlocks <- Junk
  Garbage <- NoEntries
PROPERTIES
  WritesFirstClusterOnly
