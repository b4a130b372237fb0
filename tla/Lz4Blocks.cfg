SPECIFICATION Spec
CONSTANTS
  ChunkSize = 3
  Pieces <- MCPieces
  BlockLens <- MCBlockLens
  MaxTotal = 8
INVARIANTS
  Lz4TypeOK
  BlocksTile
  VariantTold
CHECK_DEADLOCK FALSE
PROPERTIES
  KeepsPromise
