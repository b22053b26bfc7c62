SPECIFICATION FairSpec
CONSTANTS
  c1 = c1
  c2 = c2
  k1 = k1
  k2 = k2
  v1 = v1
  v2 = v2
  N = 3
  Clients <- OneClient
  KeysOf <- AllKeys
  Keys <- TwoKeys
  Values <- TwoValues
  Ops <- PutDel
  Room = 2
  MaxCalls = 3
  NoKey = NoKey
  NoValue = NoValue
  NoRequest = NoRequest
CHECK_DEADLOCK FALSE
INVARIANTS TypeOK SameOrder Converged
PROPERTIES Propagates Replicates
