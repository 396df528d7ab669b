SPECIFICATION FairSpec
CONSTANTS
  p1 = p1
  p2 = p2
  Producers = {p1, p2}
  BUFFER_LEN = 3
  MaxLogs = 2
PROPERTIES
  ClaimedIsDelivered
  StopTerminates
