CONSTANTS
  Lengths <- MCLengths
  StrideLists <- MCStrideLists
  Sizes <- MCSizes
  U16 = 8
  U32 = 24
  Threshold = 6
  ChunkSize = 3
  MaxStride = 3
  BestChunks = {4}
  NotYet = NotYet
SPECIFICATION ColumnarSpec
INVARIANTS
  ColumnarTypeOK
  StrideUndone
CHECK_DEADLOCK FALSE
