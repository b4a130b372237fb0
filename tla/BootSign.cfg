SPECIFICATION Spec
CONSTANTS
  BodyLen = 2
  SigSize = 3
  AvbLen = 2
  MaxTail = 7
  MaxEdits = 2
  MaxCells = 2
INVARIANTS
  SignTypeOK
  AvbSeenIsWhole
  SignedFileIsClean
