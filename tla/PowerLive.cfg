SPECIFICATION LiveSpec
CONSTANTS
  NMinutes = 4
  NDays = 4
  MinSector = 2
  DaySector = 2
  MaxLoop = 5
  Cap = 3
  Huge = 9
  LongGap = 9
  YearGap = 3
  SavePeriod = 2
  NPos = 2
  TornSaves = FALSE
  StartTime = 12
  StartTotal = 0
  StartStore <- InUse
  Faults = {"flash", "halt"}
  WebCommands = {}
  MaxUse = 1
  MaxDown = 1
  MaxTime = 16
  DayLen = 2
  MaxFaults = 1
  MaxCrashes = 1
  MaxWeb = 0
PROPERTIES
  AllCounted
CHECK_DEADLOCK FALSE
