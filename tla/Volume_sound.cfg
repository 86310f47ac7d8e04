SPECIFICATION Spec
CONSTANTS
  Clusters <- MCClusters
  FATN = 1
  End = 65528
  Copies = 2
  RootSlots = {1, 2, 3}
  DirSlots = {1, 2}
  Letters = {"A", "B"}
  Tails <- MCTails
  Stamps <- MCStamps
  Paths <- GhostPaths
  Volumes <- GhostVolumes
  HeapBlocks <- NoBlocks
  Garbage <- NoEntries
CONSTRAINT ExposedIsPlain
INVARIANTS
  TypeOK
  ReadOnlyShowsDevice
  MemoryStaysSound
  DeviceStaysSound
PROPERTIES
  KeepsPromise
