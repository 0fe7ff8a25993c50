CONSTANTS
  DurWidth = 4
  Times <- MCTimes
  ZeroTime <- MCZeroTime
  Skews <- MCSkews
  Names = {n1, n2}
  Empty = Empty
  Absent = Absent
  Garbled = Garbled
SPECIFICATION Spec
INVARIANTS
  TypeOK
  SkewWindow
  HostRouting
CHECK_DEADLOCK FALSE
