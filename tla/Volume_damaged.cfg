SPECIFICATION FairSpec
CONSTANTS
  Clusters <- DamagedClusters
  FATN = 2
  End = 268435448
  Copies = 2
  RootSlots = {1, 2}
  DirSlots = {1, 2}
  Letters = {"A", "B"}
  Tails <- MCTails
  Stamps <- MCStamps
  Paths <- DamagedPaths
  Volumes <- DamagedVolumes
  HeapBlocks <- Junk
  Garbage <- Wild
INVARIANTS
  DeleteFreesItsChain
  MirrorsDriftOnlyOnDevice
PROPERTIES
  UmountPersists
  UndeleteCutsOnlySharers
  CommandsEnd
