CONSTANTS
  MaxPixel = 15
  PixelBytes = 2
  Qualities = {1, 2}
  CoefBytes = 1
  U16 = 64
  Fits = {"LINEAR"}
  Base = 4
  Overhead = 1
  None = None
  Images <- MCImages
  Recordings <- MCRecordings

SPECIFICATION MCSpec
INVARIANTS
  EveryPixelWithinQuality
CHECK_DEADLOCK FALSE
