SPECIFICATION FairSpec
CONSTANTS
  p1 = p1  p2 = p2  p3 = p3  m1 = m1  s1 = s1
  DayLength <- MCDayLength
  Shifts <- MCShifts
  NoShift = NoShift
  NoDate = NoDate
  Device = {p2}
  SelfService = {s1}
  Manual = {}
  Time <- MCTime
  LastDate = 4
  LastDay = 3
  Rosters <- NightNone
  Recalculations <- Refresh
  Web = {w1}
  Cron = {w1}
  MaxFaults = 1
  MaxEdits = 1
INVARIANTS TypeOK
PROPERTIES HistoryKept EventuallyCounted
CHECK_DEADLOCK FALSE
