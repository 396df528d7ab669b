SPECIFICATION Spec
CONSTANTS
  DAY = 2
  RETRY = 2
  Limits = {0, 2}
  Rollbacks = {0, 2}
  Lengths = {1, 2}
  MaxTime = 4
  MaxLogs = 4
  MaxFailures = 1
  MaxRestarts = 1
INVARIANTS
  TypeOK
  SizeKnown
  FilesInOrder
  SizeLimited
  OneDayPerFile
  BackupsBounded
PROPERTIES
  KeptUntilRolledOut
CHECK_DEADLOCK FALSE
