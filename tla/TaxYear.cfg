SPECIFICATION Spec
CONSTANTS
  w1 = w1  w2 = w2
  Workers = {w1, w2}
  Limit <- Limits
  Amounts = {1, 2}
  Starts <- Stages
  MaxRows = 3
  MaxCalls = 4
  MaxFaults = 1
SYMMETRY Identical
INVARIANTS ClaimsWithinDeclaration DeclaredWithinLimit NothingOrphaned TdsFollowsBatch
PROPERTIES ApprovedIsKept RegimeKept
CHECK_DEADLOCK FALSE
