SPECIFICATION Spec
CONSTANTS
  Callers = {t1, t2}
  LastChannel = 1
  MaxCalls = 4
  NoOne = NoOne
INVARIANT StoppedStaysStopped
CHECK_DEADLOCK FALSE
