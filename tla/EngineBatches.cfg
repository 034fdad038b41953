SPECIFICATION Spec
CONSTANTS
  p1 = p1  p2 = p2  p3 = p3  m1 = m1  s1 = s1
  DayLength <- MCDayLength
  Shifts <- MCShifts
  NoShift = NoShift
  NoDate = NoDate
  Device = {p1, p3}
  SelfService = {}
  Manual = {m1}
  Time <- MCTime
  LastDate = 2
  LastDay = 1
  Rosters <- OneDawn
  Recalculations <- OneDay
  Web = {w1, w2}
  Cron = {}
  MaxFaults = 0
  MaxEdits = 0
SYMMETRY Identical
INVARIANTS LedgerConsistent AckedIsStored AckedHasEvent StaleIsExplained
CHECK_DEADLOCK FALSE
