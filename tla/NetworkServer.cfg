SPECIFICATION FairSpec
CONSTANTS
  Accepts = 2
  Fds = {1, 2}
INVARIANTS
  TypeOK
  CountExact
  LostToSecondClose
PROPERTIES
  AcceptsAgain
  BrokenLeave
CHECK_DEADLOCK FALSE
