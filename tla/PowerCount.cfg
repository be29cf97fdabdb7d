SPECIFICATION Spec
CONSTANTS
  NMinutes = 2
  NDays = 2
  MinSector = 2
  DaySector = 2
  MaxLoop = 2
  Cap = 2
  Huge = 9
  LongGap = 9
  YearGap = 3
  SavePeriod = 2
  NPos = 2
  TornSaves = TRUE
  StartTime = 12
  StartTotal = 1
  StartStore <- NewDevice
  Faults = {"flash", "fram", "bad", "halt"}
  WebCommands = {"reset_data", "TotalCnt", "LastDay"}
  MaxUse = 1
  MaxDown = 3
  MaxTime = 15
  DayLen = 7
  MaxFaults = 1
  MaxCrashes = 1
  MaxWeb = 1
INVARIANTS
  TypeOK
  CountedOnce
  CountdownRuns
CHECK_DEADLOCK FALSE
