SPECIFICATION Spec
CONSTANTS
  Files <- DeepFiles
  Debris <- MCDebris
INVARIANTS
  VerityRemoved
CHECK_DEADLOCK FALSE
