SPECIFICATION Spec
CONSTANTS
  Rounds = 4
  Confirmations = 2
  TransientMisses = 1
  MaxInterrupts = 0
  Streams = {"stdout", "stderr"}
INVARIANTS
  ConfirmedMeansGone
  SuccessMeansTornDown
  NoSilentOrphan
  OverBudgetMeansUnread
  ResultAgrees
CHECK_DEADLOCK FALSE
