\* Two remotes, one of which may be unreachable.
SPECIFICATION CFairSpec
CONSTANTS
  Name <- TheNames
  System <- TheSystems
  Tree <- FlatTree
  Answer <- FlatAnswer
  N <- SplitSize
  Kind <- SplitKinds
  Systems <- SplitSystems
  Faults <- ConnectFault
  NoItem = NoItem
  StopCommand = StopCommand
PROPERTIES
  EveryItemAnswered
CHECK_DEADLOCK FALSE
