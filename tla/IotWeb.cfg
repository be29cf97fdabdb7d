SPECIFICATION Spec
CONSTANTS
  N = 2
  Interval <- LongIntervals
  Timeout = 3
  AgeMax = 5
  Addr = {"a1", "a2"}
  None = None
  MaxFaults = 0
  MaxLoss = 1
  MaxInit = 0
INVARIANTS
  WebServerServes
