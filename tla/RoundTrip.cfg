SPECIFICATION RoundTripSpec
CONSTANTS
  NONE = NONE
  U32 = 65536
  EncodedLens <- MCEncodedLens
  Files <- MCFiles
  RequestsFor <- MCRequestsFor
  Rows <- MCRows
  KernelFdts <- MCKernelFdts
INVARIANTS
  RoundTripTypeOK
  BlockChain
  NewSizesBacked
  EntriesDisjoint
  TailKept
  ParsedIsWellFormed
  ReadBack
  RepackStable
  AvbSurvives
  InterruptedIsMixture
CHECK_DEADLOCK FALSE
