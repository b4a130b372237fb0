CONSTANTS
  NONE = NONE
  U32 = 65536
  EncodedLens <- MCEncodedLens
  Files <- VendorFiles
  RequestsFor <- NothingRequests
  Rows <- MCRows
  KernelFdts <- MCKernelFdts
SPECIFICATION RoundTripSpec
INVARIANTS
  RepackReadable
CHECK_DEADLOCK FALSE
