SPECIFICATION FairSpec
CONSTANTS
  Limits <- MCLimits
  ChunkSize = 4
  PipeSize = 4
  Length = 7
INVARIANTS
  CaptureInv
  CleanCaptureIsExact
  NothingIsReordered
PROPERTIES
  TargetIsNotBlocked
CHECK_DEADLOCK FALSE
