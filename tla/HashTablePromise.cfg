SPECIFICATION Spec
CONSTANTS
  n1 = n1  n2 = n2  n3 = n3  n4 = n4  v1 = v1  v2 = v2
  Keys <- FourKeys
  Values <- TwoValues
  Nodes <- FourNodes
  Names <- FourNames
  N = 2
  MallocFails = FALSE
  Sum <- SumOfName
  Null = Null  Free = Free  NoTable = NoTable  NoList = NoList
  NoCall = NoCall  NoAnswer = NoAnswer  NoValue = NoValue
PROPERTIES
  KeepsItsPromise
