SPECIFICATION Spec
CONSTANTS
  Paths <- MCPaths
  Sizes = {1, 2}
  Trees <- MCTrees
  MaxFiles = 2
  MaxDirectories = 3
  MaxTotalBytes = 3
  MaxDepth = 1
  MaxChanges = 4
INVARIANTS
  TypeOK
  ListingIsFaithful
  DiffIsExact
CHECK_DEADLOCK FALSE
