CONSTANTS
  Lengths <- MCManyLengths
  ChunkSizes <- MCOneByteChunks
  BlobLens <- MCBlobLens
  U16 = 4
  U32 = 64
  None = None
  Refused = Refused
SPECIFICATION Spec
INVARIANT AcceptsOnlyTheDataOfAnySize
CHECK_DEADLOCK FALSE
