SPECIFICATION Spec
CONSTANTS
  c1 = c1
  c2 = c2
  k1 = k1
  k2 = k2
  v1 = v1
  v2 = v2
  N = 2
  Clients <- TwoClients
  KeysOf <- OwnKeys
  Keys <- TwoKeys
  Values <- TwoValues
  Ops <- PutDel
  Room = 4
  MaxCalls = 2
  NoKey = NoKey
  NoValue = NoValue
  NoRequest = NoRequest
CHECK_DEADLOCK FALSE
INVARIANTS SameOrderPerKey
