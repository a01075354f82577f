CONSTANTS
  Files <- MCFiles
  Candidates <- MCCandidates
  SecondPass <- MCSecondPass
  ConstCells = 256
  RampCells = 512
  U16 = 65536
  None = None
SPECIFICATION Spec
INVARIANTS
  TypeOK
  LosslessWhenClean
PROPERTY TrackStoredOnce
CHECK_DEADLOCK FALSE
