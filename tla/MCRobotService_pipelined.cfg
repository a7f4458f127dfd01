CONSTANTS
  StreamConns = {s1, s2}
  StateConns = {d1, d2}
  Script <- PipelinedAndSplit
  Ids = {1, 2}
  Window = 3
  Fragmented = {s2}
  MaxReceive = 4
  Capacity = 2
  MayClose = {s1, d2}
  s1 = s1
  s2 = s2
  d1 = d1
  d2 = d2
SPECIFICATION FairSpec
INVARIANTS
  PointsQueuedInOrder
  ReportedOnce
  RepliesCountCommands
  NoPointVanishes
CHECK_DEADLOCK FALSE
