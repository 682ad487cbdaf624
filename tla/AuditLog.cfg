SPECIFICATION Spec
CONSTANTS
  Threads = {1, 2, 3}
  Process <- MCProcess
  Initial = 1
  MaxEvents = 3
  MaxBytes = 11
  MaxCalls = 4
INVARIANTS
  TypeOK
  LossesAreTold
  LooksAwayBesideAWrite
  MarkerHasTheLastPlace
CHECK_DEADLOCK FALSE
