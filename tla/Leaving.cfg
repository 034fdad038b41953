SPECIFICATION FairSpec
CONSTANTS
  e1 = e1  e2 = e2  w1 = w1  w2 = w2  c1 = c1  hr = hr  it = it
  Staff = {e1, e2}
  Before <- MCBefore
  Departments = {hr, it}
  HR = hr
  Web = {w1, w2}
  Celery = {c1}
  LastDate = 2
  MaxRequests = 2
  MaxForms = 1
  MaxSheets = 1
  MaxCalls = 3
  MaxFaults = 1
INVARIANTS TypeOK OneResignation CompletedIsRelieved SheetsKept
PROPERTIES RelievedOnGrounds SignatureStays TerminationTakesEffect
CHECK_DEADLOCK FALSE
