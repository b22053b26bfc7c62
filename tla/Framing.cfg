SPECIFICATION FairSpec
CONSTANTS Calls = 3
          Sizes = {1, 3, 5}
          Answers = {3, 4}
          Width = 4
          Room = 4
          BackRoom = 7
          Garbled = Garbled
INVARIANTS TypeOK InOrder
PROPERTIES CallReturns Arrives EndedLeft
CHECK_DEADLOCK FALSE
