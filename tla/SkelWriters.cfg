SPECIFICATION FairSpec
CONSTANTS
  h1 = h1  h2 = h2  h3 = h3  k1 = k1  k2 = k2  v1 = v1  v2 = v2
  Handlers <- ThreeHandlers
  Keys <- OneKey
  Values <- OneValue
  Ops <- Writers
  NoKey = NoKey  NoValue = NoValue  NoRequest = NoRequest  NoAnswer = NoAnswer
  IntMax = 1
INVARIANTS
  TableExclusive
  DisciplineProtects
PROPERTIES
  SomeoneAnswers
  Linearizable
