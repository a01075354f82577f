CONSTANTS
  MaxPixel = 15
  PixelBytes = 2
  Qualities = {1, 2}
  CoefBytes = 1
  U16 = 9
  Fits = {"LINEAR"}
  Base = 4
  Overhead = 1
  None = None
  Images <- MCImages
  Recordings <- MCRecordings

SPECIFICATION MCSpec
INVARIANTS
  TypeOK
  WithinQuality
  MisreadExactlyThere
CHECK_DEADLOCK FALSE
