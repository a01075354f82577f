CONSTANTS
  Lengths <- MCLongLengths
  GoodSizes <- MCGoodSizes
  Caps <- MCCaps
  ChunkSize = 65536
  Threshold = 1048576
  U32 = 65536
  None = None
  Refused = Refused
SPECIFICATION FfiSpec
INVARIANT MaxSizeSuffices
CHECK_DEADLOCK FALSE
