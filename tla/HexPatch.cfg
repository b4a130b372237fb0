SPECIFICATION HexSpec
CONSTANTS
  Contents <- MCContents
  Patterns <- MCPatterns
INVARIANTS
  PatchedSoFar
PROPERTIES
  KeepsPromise
CHECK_DEADLOCK FALSE
