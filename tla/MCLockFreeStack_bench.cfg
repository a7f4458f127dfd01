CONSTANTS
  Pushers = {p1, p2}
  Poppers = {c1, c2}
  Stalled = {}
  PerPusher = 1
  PerPopper = 1
  Quota <- MCQuota
  Cells = {a1, a2}
  Null = Null
  MaxThrows = 1
  MaxSpurious = 0
  c1 = c1
  c2 = c2
  p1 = p1
  p2 = p2
  a1 = a1
  a2 = a2
SPECIFICATION FairSpec
INVARIANTS
  PoppersShareSafely
