SPECIFICATION Spec
CONSTANTS
  NoRename = NoRename
  Directories <- FlatDirectories
  Files <- FlatFiles
  Moves <- FlatMoves
  Roots <- FlatRoots
  Disk <- FlatDisk
  MaxForeign = 1
  MaxObjects = 4
  MaxTokens = 1
  MaxDocuments = 2
  MaxLeases = 0
  MaxGeneration = 5
  MaxReceipts = 1
  MaxPendingRoots = 1
INVARIANTS TypeOK OriginsAreBound
PROPERTIES SavesStayBound
CHECK_DEADLOCK FALSE
