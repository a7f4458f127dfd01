CONSTANTS
  StreamConns = {s1, s2}
  StateConns = {d1}
  Script <- ShortScripts
  Ids = {0, 1, 2}
  Window = 1
  Fragmented = {}
  MaxReceive = 4
  Capacity = 2
  MayClose = {}
  s1 = s1
  s2 = s2
  d1 = d1
  d2 = d2
SPECIFICATION FairSpec
INVARIANTS
  TypeOK
  CommandsFollowScript
PROPERTIES
  EveryPacketAnswered
  EveryPointReported
  StatusKeepsFlowing
