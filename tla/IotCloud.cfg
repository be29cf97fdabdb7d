SPECIFICATION LiveSpec
CONSTANTS
  N = 2
  Interval <- LongIntervals
  Timeout = 3
  AgeMax = 5
  Addr = {"a1", "a2"}
  None = None
  MaxFaults = 1
  MaxLoss = 2
  MaxInit = 1
INVARIANTS
  TypeOK
  TimerGuardsRun
  ConnOfRun
  AnswerOfRequest
  NoLostConfig
PROPERTIES
  FlagReleased
  EachRequestTried
