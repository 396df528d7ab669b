SPECIFICATION ShmFairSpec
CONSTANTS
  p1 = p1
  p2 = p2
  Producers = {p1, p2}
  BUFFER_LEN = 2
  MaxLogs = 2
  MaxCrashes = 1
PROPERTIES
  ClaimedSurvivesCrash
