CONSTANTS
  NONE = NONE
  NameOrder <- MapOrder
  NameLen <- MapLen
  Lens <- MCLens
  NewEntries <- MCNewEntries
  MaxEntries = 2
SPECIFICATION CpioSpec
INVARIANTS
  CpioTypeOK
  LoadedIsArchive
  DumpLoadKeeps
PROPERTIES
  RmClears
  LoadEnds
CONSTRAINT Bounded
