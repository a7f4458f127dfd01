CONSTANTS
  NSets = 2
  NWays = 3
  PageSize = 4
  NTags = 4
  Addrs = {0, 2, 4, 5, 8, 16}
  MaxTouches = 4
SPECIFICATION Spec
INVARIANTS
  MatrixIsRecency
  UniqueTags
  OneUnhitPage
PROPERTIES
  OnlyLruIsLost
