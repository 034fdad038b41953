SPECIFICATION FairSpec
CONSTANTS
  Punches <- MCPunches
  Time <- MCTime
  Late = 1
  Ahead = 1
  LookBack = 2
  Overlap = 2
  BatchSize = 2
  MaxSkew = 1
  MaxAge = 9
  LastTime = 5
  MaxFaults = 0
PROPERTY ResendLinks
