\* A campaign of two devices and a command of the API, each acknowledged once.
CONSTANTS
  Command = {c1, c2, c3}
  OTA = {c1, c2}
  MaxAcks = 1
  Failure = {"store", "crash"}
SPECIFICATION FairSpec
INVARIANTS
  TypeOK
  CountersInventNothing
  CompletedMeansAllAcked
PROPERTY
  PendingEnds
CHECK_DEADLOCK FALSE
