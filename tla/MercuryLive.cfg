SPECIFICATION LiveSpec
CONSTANTS
  CurrentNumbers = 0
  ArchBuf = 6
  NMonths = 3
  TimeRecs = 2
  RepeatMax = 1
  SleepMax = 1
  ErrorsThr = 1
  Refusals = {}
  FaultFrames <- Garbling
  SessionsExpire = FALSE
  CorrectClock = TRUE
  WebCommands = {"save"}
  MaxFaults = 2
  MaxWeb = 1
  MaxOverlaps = 1
  MaxTrouble = 2
  MaxDay = 2
INVARIANTS
  SetTimeBracketed
  AdminReturns
PROPERTIES
  ArchiveIsRead
  KeepsReading
