CONSTANTS
  NSets = 1
  NWays = 2
  PageSize = 1
  NTags = 4
  Addrs = {0, 1, 2}
  MaxTouches = 3
SPECIFICATION Spec
INVARIANTS
  MissReturnsLru
