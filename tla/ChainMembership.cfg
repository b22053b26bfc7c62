SPECIFICATION FairSpec
CONSTANTS
  N = 4
  Watched = {2}
  None = None
  Undefined = Undefined
INVARIANTS
  TypeOK
  ForwardsToLater
  ListIsCurrent
  HeardConnected
PROPERTIES
  ChainHeals
CHECK_DEADLOCK FALSE
