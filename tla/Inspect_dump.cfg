SPECIFICATION MCSpec
CONSTANTS
  Clusters = {2, 3, 65538}
  FATN = 2
  End = 268435448
  Whole = TRUE
  Cells <- MCCells
  ClusterBytes = 4
  EntryBytes = 2
  Sizes = {0, 1, 4, 7, 8, 9, 12}
  MaxLines = 4
  TableSize = 11
  Tables <- MCTables
  Files <- MCFiles
  Lines <- MCLines
  Changed = {0}
  MaxChanges = 1
  Sectors = 2
  DataSector = 5
  Wrap = 20
INVARIANTS
  TypeOK
  DumpIsTheFile
  ArrayIsTheDirectory
  ChainOfTheNumber
  TablesTypeOK
  ReportsTheDevice
  DumpHoldsTheTable
  VerdictIsOfTheCluster
PROPERTIES
  FollowingEnds
  EachLineAnswersOnce
