CONSTANTS
  NONE = NONE
  NameOrder <- ArchiveOrder
  NameLen <- ArchiveLen
  Lens <- MCLens
  NewEntries <- MCNewEntries
  MaxEntries = 2
SPECIFICATION CpioSpec
INVARIANTS
  SymlinkIsSymlink
CONSTRAINT Bounded
