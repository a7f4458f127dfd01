INIT Init
NEXT Next
INVARIANTS
  LinesReachTheirEnds
