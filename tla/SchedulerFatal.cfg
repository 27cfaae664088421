\* A fatal error in the graph, and a derivation nobody owns.
SPECIFICATION FairSpec
CONSTANTS
  Name <- TheNames
  System <- TheSystems
  Tree <- MixedTree
  Answer <- FatalAnswer
  N <- UnownedSize
  Kind <- UnownedKinds
  Systems <- UnownedSystems
  NoItem = NoItem
INVARIANTS
  OnePlace
  UnownedIsReal
  UncoveredNeverCompletes
  NeverStalled
PROPERTIES
  ImplementsTraversal
  Terminates
CHECK_DEADLOCK FALSE
