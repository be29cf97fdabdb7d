SPECIFICATION Spec
CONSTANTS
  MinuteReaders <- MinutesOf
  DayReaders <- DaysOf
  NMinutes = 6
  MinSector = 2
  NDays = 3
  DaySector = 1
  NHours = 2
  Room = 3
  HalfWord = 4
  MaxRows = 3
  MaxMinutes = 11
  MaxDays = 4
INVARIANTS
  TypeOK
  DayRowsDated
  MinutesGoBack
