\* Two connections of two devices, with the gateway's fairness.
CONSTANTS
  Device = {d1, d2}
  Conn = {c1, c2}
  NoSession = NoSession
  QueueSize = 1
SPECIFICATION FairSpec
INVARIANTS
  TypeOK
  SessionOwnership
  DisplacedIsClosing
  OnlineCounterAccounts
PROPERTIES
  ImplementsRegistry
  DisplacedEnds
  UnauthenticatedEnds
  ShutdownDrains
CHECK_DEADLOCK FALSE
