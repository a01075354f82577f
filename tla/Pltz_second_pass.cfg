CONSTANTS
  Files <- ReanalyzedFiles
  Candidates <- MCCandidates
  SecondPass <- MCSecondPass
  ConstCells = 256
  RampCells = 512
  U16 = 65536
  None = None
SPECIFICATION Spec
INVARIANT Lossless
CHECK_DEADLOCK FALSE
