SPECIFICATION FairSpec
CONSTANTS
  Pages = {p1}
  NoPage = NoPage
  MaxConns = 3
INVARIANTS
  TypeOK
  ChecksAreFinished
  PagesAreHonest
PROPERTIES
  KeepsOrder
  LockIsFreed
  Stops
CHECK_DEADLOCK FALSE
