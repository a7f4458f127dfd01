CONSTANTS
  Producers = {p1, p2}
  Consumers = {c1}
  Pollers = {c1}
  PerProducer = 2
  PerConsumer = 4
  Quota <- MCQuota
  Capacity = 2
  TakesLast = TRUE
  MaxSpurious = 2
  NoThread = NoThread
  p1 = p1
  p2 = p2
  c1 = c1
SPECIFICATION FairSpec
INVARIANTS
  LonePollerNeverSleeps
PROPERTIES
  ImplementsAtomicSafely
