\* Two workers and a cancelled session.
SPECIFICATION CFairSpec
CONSTANTS
  Name <- TheNames
  System <- TheSystems
  Tree <- FlatTree
  Answer <- FlatAnswer
  N <- OnlyX86Size
  Kind <- OnlyX86Kinds
  Systems <- OnlyX86Systems
  Faults <- CancelFault
  NoItem = NoItem
  StopCommand = StopCommand
PROPERTIES
  CancelReturns
CHECK_DEADLOCK FALSE
