CONSTANTS
  Lengths <- MCLengths
  ChunkSizes <- MCChunkSizes
  BlobLens <- MCBlobLens
  U16 = 4
  U32 = 7
  None = None
  Refused = Refused
SPECIFICATION Spec
INVARIANTS
  TypeOK
  AcceptsOnlyTheData
  CutFileRefused
PROPERTY ChannelSpec
CHECK_DEADLOCK FALSE
