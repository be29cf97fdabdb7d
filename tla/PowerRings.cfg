SPECIFICATION Spec
CONSTANTS
  NMinutes = 4
  NDays = 4
  MinSector = 2
  DaySector = 2
  MaxLoop = 2
  Cap = 3
  Huge = 9
  LongGap = 9
  YearGap = 9
  SavePeriod = 2
  NPos = 2
  TornSaves = FALSE
  StartTime = 12
  StartTotal = 1
  StartStore <- InUse
  Faults = {}
  WebCommands = {}
  MaxUse = 0
  MaxDown = 3
  MaxTime = 22
  DayLen = 2
  MaxFaults = 0
  MaxCrashes = 2
  MaxWeb = 0
INVARIANTS
  EndMarkers
  DaysNotMixed
  DaysAligned
CHECK_DEADLOCK FALSE
