\* Three remotes that must route each derivation to its owner.
SPECIFICATION FairSpec
CONSTANTS
  Name <- TheNames
  System <- TheSystems
  Tree <- MixedTree
  Answer <- MixedAnswer
  N <- RoutedSize
  Kind <- RoutedKinds
  Systems <- RoutedSystems
  NoItem = NoItem
INVARIANTS OnePlace CompleteMeansAll
PROPERTIES ImplementsTraversal
CHECK_DEADLOCK FALSE
