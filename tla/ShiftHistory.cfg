SPECIFICATION Spec
CONSTANTS
  Shifts <- MCShifts
  NoShift = NoShift
  Scopes <- OwnFirst
  LastDate = 2
  Admins = {a1, a2}
  Histories <- OneOrBoth
  Wanted <- Either
  MaxRequests = 5
  LastDay = 1
INVARIANTS OverlapIsRaced
PROPERTIES ChangesAreAsked
