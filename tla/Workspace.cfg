CONSTANTS
  NONE = NONE
  Images <- MCImages
  PartsOf <- MCPartsOf
  FileNames <- MCFileNames
SPECIFICATION Spec
INVARIANTS
  WorkspaceTypeOK
  OwnParts
  FormatKept
