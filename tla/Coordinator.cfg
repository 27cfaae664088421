\* A local worker and two remotes; everything may fail.
SPECIFICATION CFairSpec
CONSTANTS
  Name <- TheNames
  System <- TheSystems
  Tree <- NestedTree
  Answer <- NestedAnswer
  N <- CrossedSize
  Kind <- CrossedKinds
  Systems <- CrossedSystems
  Faults <- AllFaults
  NoItem = NoItem
  StopCommand = StopCommand
INVARIANTS ChannelsSuffice OkMeansAll
PROPERTIES ImplementsScheduler RunEnds CoveredReturnsOk
CHECK_DEADLOCK FALSE
