CONSTANTS
  Sectors = 32
  MaxRun = 9
  UniqueLimit = 200
  Chunks <- MCChunks
  RawLengths = {32, 31, 16}
  None = None
SPECIFICATION Spec
INVARIANTS
  TypeOK
  RoundTrip
  InStep
  PaysOff
CHECK_DEADLOCK FALSE
