CONSTANTS
  Threads = {t1, t2, t3}
  Rounds = 3
  NoResult = NoResult
  Callers = {t1, t2}
  Asked <- MCAsked
  Handles <- DefaultHandles
  Objects = {platform, device, o1, o2}
  Countable = {o1, o2}
  NULL = NULL
  Width = 3
  Height = 2
  MaxFound = 3
  Robots <- MCRobots
  MaxClients = 2
  Resetters = {r1}
  Owners = {w1, w2}
  None = None
  Frequencies = {0, 1, 2, 3}
  t1 = t1
  t2 = t2
  t3 = t3
  Sites <- MCSites
SPECIFICATION SamplesSpec
INVARIANTS
  MutualExclusion
  HolderSeesAll
  NoDangling
  StoppedServersStop
  OutputWhole
  ThreadsKept
  RangeStands
PROPERTIES
  DefaultStands
  EveryoneReturns
