SPECIFICATION FairSpec
CONSTANTS
  Paths <- MCPaths
  Trees <- MCTrees
  Volatile <- MCVolatile
  Unportable <- MCUnportable
  Metadata <- MCMetadata
  Ignored <- MCIgnored
  Sensitive <- MCSensitive
  MaxFiles = 2
  MaxDirectories = 3
  MaxDepth = 1
  MaxTotalBytes = 3
  MaxFileBytes = 3
  MaxChanges = 2
  MaxClock = 1
INVARIANTS
  TypeOK
  CompleteMeansAll
  DigestIsFaithful
  BudgetsHold
  MountsStayClosed
PROPERTIES
  WholeFilesOnly
  Finishes
CHECK_DEADLOCK FALSE
