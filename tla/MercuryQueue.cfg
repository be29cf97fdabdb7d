SPECIFICATION Spec
CONSTANTS
  CurrentNumbers = 0
  ArchBuf = 6
  NMonths = 6
  TimeRecs = 2
  RepeatMax = 1
  SleepMax = 1
  ErrorsThr = 1
  Refusals = {2}
  FaultFrames <- Disturbed
  SessionsExpire = TRUE
  CorrectClock = FALSE
  WebCommands = {"send_now", "r_arch", "Tlog", "save", "req_period"}
  MaxFaults = 1
  MaxWeb = 1
  MaxOverlaps = 1
  MaxTrouble = 2
  MaxDay = 2
INVARIANTS
  TypeOK
  QueueFits
  OnlyHeadInFlight
  NoDeadHead
  MonthsInArray
  ArchiveComplete
