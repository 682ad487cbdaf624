SPECIFICATION Spec
CONSTANTS
  Rounds = 2
  Confirmations = 2
  TransientMisses = 1
  MaxInterrupts = 0
  Streams = {"stdout"}
INVARIANTS
  FinalScanDecides
CHECK_DEADLOCK FALSE
