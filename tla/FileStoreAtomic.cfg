\* The replacement of the file is not atomic.
CONSTANTS
  Op = {o1, o2, o3}
  NoOp = NoOp
  Failure = {"write", "remove", "crash", "crashReplacing"}
SPECIFICATION Spec
INVARIANT
  AcknowledgedIsKept
CHECK_DEADLOCK FALSE
