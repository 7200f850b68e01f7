SPECIFICATION Spec
CONSTANTS
  NoRename = NoRename
  Directories <- MoveDirectories
  Files <- PlainFiles
  Moves <- MoveMoves
  Roots <- NestedRoots
  Disk <- PlainDisk
  MaxForeign = 1
  MaxObjects = 4
  MaxTokens = 2
  MaxDocuments = 1
  MaxLeases = 1
  MaxGeneration = 6
  MaxReceipts = 1
  MaxPendingRoots = 0
INVARIANTS GrantsStayInPlace
PROPERTIES RenamesSettle RevocationIsComplete
CHECK_DEADLOCK FALSE
