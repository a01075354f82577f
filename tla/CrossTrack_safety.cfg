CONSTANTS
  Sectors = 3
  Values <- MCValues
  Steps <- MCSteps
  Others = {"Repeat", "Rle"}
  Comparable = {"Repeat"}
  Bodies = {b1, b2}
  OtherSize = 3
  MaxTracks = 5
SPECIFICATION Spec
INVARIANTS
  TypeOK
  GroupsExact
  AllTracksDecoded
  GroupsNeverLarger
CHECK_DEADLOCK FALSE
