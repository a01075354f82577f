CONSTANTS
  Patterns <- MCPatterns
  Supported <- MCSupported
  Named <- MCNamed
  ParamSize <- MCParamSize
  Sectors = 8
  Sources <- MCSources
  LengthOf <- MCLengthOf
  U16 = 16
  U32 = 256
  Zeros = Zeros
  Garbage = Garbage
  None = None
SPECIFICATION Spec
INVARIANTS
  TypeOK
  DecryptsWhatFits
  ReadersSeeTheData
CHECK_DEADLOCK FALSE
