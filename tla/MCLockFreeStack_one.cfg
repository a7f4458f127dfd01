CONSTANTS
  Pushers = {p1, p2}
  Poppers = {c1}
  Stalled = {p2}
  PerPusher = 2
  PerPopper = 2
  Quota <- MCQuota
  Cells = {a1, a2, a3}
  Null = Null
  MaxThrows = 1
  MaxSpurious = 1
  c1 = c1
  p1 = p1
  p2 = p2
  a1 = a1
  a2 = a2
  a3 = a3
SPECIFICATION FairSpec
INVARIANTS
  ListIsContents
  NoUseAfterDelete
  PopReturnsTop
PROPERTIES
  OthersFinish
  ImplementsAtomic
