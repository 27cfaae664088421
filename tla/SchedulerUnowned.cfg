\* No worker of the pool owns arm.
SPECIFICATION FairSpec
CONSTANTS
  Name <- TheNames
  System <- TheSystems
  Tree <- MixedTree
  Answer <- MixedAnswer
  N <- UnownedSize
  Kind <- UnownedKinds
  Systems <- UnownedSystems
  NoItem = NoItem
INVARIANTS
  NeverStalled
PROPERTIES
  Terminates
CHECK_DEADLOCK FALSE
