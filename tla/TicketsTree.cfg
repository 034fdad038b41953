SPECIFICATION Spec
CONSTANTS
  w1 = w1  w2 = w2  r1 = r1  r2 = r2
  Existing <- Two
  Workers = {w1, w2}
  Asks <- Sent
  Repos = {r1, r2}
  NoRepo = NoRepo
  DayLimit = 3
  LastDate = 2
  MaxTickets = 3
  MaxCalls = 3
  MaxFaults = 1
SYMMETRY Identical
INVARIANTS TypeOK NoCycle ChildrenKeepUp HistoryEndsAtStatus LoggedWithinDay BranchTracked
CHECK_DEADLOCK FALSE
