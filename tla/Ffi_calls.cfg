CONSTANTS
  Lengths <- MCLengths
  GoodSizes <- MCGoodSizes
  Caps <- MCCaps
  ChunkSize = 64
  Threshold = 256
  U32 = 65536
  None = None
  Refused = Refused
SPECIFICATION FfiSpec
INVARIANTS
  FfiTypeOK
  OneRetryIsEnough
PROPERTY Delivered
CHECK_DEADLOCK FALSE
