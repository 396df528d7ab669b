SPECIFICATION ShmSpec
CONSTANTS
  p1 = p1
  p2 = p2
  Producers = {p1, p2}
  BUFFER_LEN = 3
  MaxLogs = 3
  MaxCrashes = 2
SYMMETRY Symmetric
INVARIANTS
  ShmTypeOK
  NothingSkipped
  RepeatsBounded
  PublishedIntact
  RecoveredText
PROPERTIES
  ImplementsRecoverable
