SPECIFICATION Spec
CONSTANTS
  NMinutes = 4
  NDays = 4
  MinSector = 2
  DaySector = 2
  MaxLoop = 2
  Cap = 30
  Huge = 60
  LongGap = 9
  YearGap = 3
  SavePeriod = 2
  NPos = 2
  TornSaves = FALSE
  StartTime = 12
  StartTotal = 1
  StartStore <- NewDevice
  Faults = {}
  WebCommands = {}
  MaxUse = 5
  MaxDown = 5
  MaxTime = 20
  DayLen = 2
  MaxFaults = 0
  MaxCrashes = 1
  MaxWeb = 0
INVARIANTS
  PowerCntIsNotProcessed
CHECK_DEADLOCK FALSE
