SPECIFICATION Spec
CONSTANTS
  ScanFiles <- MCScanFiles
  WrapLen <- MCWrapLen
  HookRoom = 2
  Inputs <- MCInputs
INVARIANTS
  ParseTypeOK
  WrappersInFront
  BlocksInOrder
  EntriesInsideRamdisk
  PanicCases
  AvbFound
PROPERTIES
  ScanPanics
  ParseEnds
CHECK_DEADLOCK FALSE
