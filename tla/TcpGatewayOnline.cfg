\* The doc's claim about the online state; the code breaks it.
CONSTANTS
  Device = {d1}
  Conn = {c1}
  NoSession = NoSession
  QueueSize = 1
SPECIFICATION Spec
INVARIANT
  OnlineMeansConnected
CHECK_DEADLOCK FALSE
