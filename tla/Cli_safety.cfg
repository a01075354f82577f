CONSTANTS
  a = a
  b = b
  v1 = v1
  v2 = v2
  Processes = {1, 2}
  Names <- MCNames
  Versions <- MCVersions
  Options <- MCOptions
  ArgLists <- MCArgLists
  Disks <- MCDisks
  MaxRuns = 2
  Cut = Cut
  Picture = Picture
  SvgOf <- MCSvgOf
  Absent = Absent
SPECIFICATION FairSpec
INVARIANTS
  TypeOK
  NeverLost
  CompressorsNeverLose
  ExitZeroComplete
PROPERTIES
  EveryRunEnds
CHECK_DEADLOCK FALSE
