SPECIFICATION FairSpec
CONSTANTS
  Callers = {t1, t2}
  LastChannel = 1
  MaxCalls = 3
  NoOne = NoOne
INVARIANTS
  TypeOK
  RunningMeansChannels
  UninitMeansRest
  CleanIsAlone
  UpdateIsExclusive
PROPERTIES
  ThreadLifeCycle
  CallsReturn
CHECK_DEADLOCK FALSE
