SPECIFICATION FairSpec
CONSTANTS
  open5 = open5
  close20 = close20
  None = None
  Slots <- MCSlots
  LastDay = 2
  At <- MCAt
  DayLength = 3
  LastTick = 4
  Schedules <- Either
  Tasks = {1, 2}
  Threads <- OnBoth
  Operators <- OnBoth
  Calendars <- OnBoth
INVARIANTS
  NoSlotSkippedWindowed
  DueIsKeptOnLoop
  OneSessionOnLoop
  StoppedIsQuietOnLoop
PROPERTIES
  ArmedAgainWindowed
