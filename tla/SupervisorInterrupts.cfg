SPECIFICATION FairSpec
CONSTANTS
  Rounds = 2
  Confirmations = 2
  TransientMisses = 1
  MaxInterrupts = 1
  Streams = {}
INVARIANTS
  IInv
  TeardownExclusive
  CleanupOnEveryExit
PROPERTIES
  KeepsPromise
  Concludes
CHECK_DEADLOCK FALSE
