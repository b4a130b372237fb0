SPECIFICATION Spec
CONSTANTS
  Files <- MCFiles
  Debris <- MCDebris
INVARIANTS
  WalksTokens
  TreesVisited
PROPERTIES
  OnlyVerityLost
  AgainChangesNothing
  CallEnds
CHECK_DEADLOCK FALSE
