CONSTANTS
  Producers = {p1, p2, p3}
  Consumers = {c1, c2}
  Pollers = {}
  PerProducer = 2
  PerConsumer = 3
  Quota <- MCQuota
  Capacity = 2
  TakesLast = FALSE
  MaxSpurious = 1
  NoThread = NoThread
  p1 = p1
  p2 = p2
  p3 = p3
  c1 = c1
  c2 = c2
SPECIFICATION FairSpec
INVARIANTS
  NoLostWakeup
  FifoOrder
PROPERTIES
  AllJoined
  ImplementsAtomic
