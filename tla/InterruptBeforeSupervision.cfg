SPECIFICATION Spec
CONSTANTS
  Rounds = 2
  Confirmations = 2
  TransientMisses = 1
  MaxInterrupts = 1
  Streams = {"stdout"}
INVARIANTS
  InterruptTriggersCleanup
CHECK_DEADLOCK FALSE
