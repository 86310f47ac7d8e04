SPECIFICATION MCSpec
CONSTANTS
  Clusters = {2, 3, 61440}
  FATN = 1
  End = 65535
  Whole = FALSE
  Cells <- MCCells
  ClusterBytes = 2
  EntryBytes = 2
  Sizes = {3}
  MaxLines = 4
  TableSize = 1
  Tables <- MCTables
  Files <- MCFiles
  Lines <- MCLines
  Changed = {}
  MaxChanges = 0
  Sectors = 1
  DataSector = 1
  Wrap = 8
PROPERTIES
  FollowsTheTable
