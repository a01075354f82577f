CONSTANTS
  TotalBlocks = 5
  BitsPerByte = 4
  DirectBlocks = 2
  b = b
  c = c
  e = e
  Names <- MCNames
  Shortened <- MCShortened
  Contents <- MCContents
  SizeOf <- MCSizeOf
  BlockSize = 2
  MaxInodes = 6
  None = None
SPECIFICATION Spec
INVARIANT RefusedOnlyWhenFull
CHECK_DEADLOCK FALSE
