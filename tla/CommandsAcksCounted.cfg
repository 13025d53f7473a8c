\* Nothing fails and every device acknowledges once.
CONSTANTS
  Command = {c1, c2}
  OTA = {c1, c2}
  MaxAcks = 1
  Failure = {}
SPECIFICATION Spec
INVARIANT
  AcksAreCounted
CHECK_DEADLOCK FALSE
