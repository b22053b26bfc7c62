SPECIFICATION FairSpec
CONSTANTS N = 2
          Long = {2}
          Fds = {5, 6, 7}
INVARIANTS TypeOK Follows WritesApart NoneLost
PROPERTIES CatchesUp
CHECK_DEADLOCK FALSE
