CONSTANTS
  MaxByte = 7
  CountRange = 8
  BlockSize = 1
  SearchRange = 1
  NoFrame = NoFrame
  Videos <- MCVideos

SPECIFICATION VideoSpec
INVARIANTS
  VideoTypeOK
  ErrorDriftsWithTheChain
  DecodedToTheEnd
CHECK_DEADLOCK FALSE
