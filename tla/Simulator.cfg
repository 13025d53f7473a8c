\* One simulator, two runs after each other, two callers.
CONSTANTS
  Sim = {s1}
  MaxRuns = 2
  Caller = {t1, t2}
  None = None
  InboxSize = 1
  QueueSize = 1
SPECIFICATION Spec
INVARIANTS
  TypeOK
  OneRunInCharge
  RemovedIsStopping
PROPERTY
  StoppedRunsEnd
CHECK_DEADLOCK FALSE
