SPECIFICATION Spec
CONSTANTS
  MinuteReaders <- MinutesOf
  DayReaders <- DaysOf
  NMinutes = 8
  MinSector = 4
  NDays = 4
  DaySector = 2
  NHours = 2
  Room = 3
  HalfWord = 4
  MaxRows = 3
  MaxMinutes = 9
  MaxDays = 5
INVARIANTS
  MinuteRowsDated
