\* Everything may fail on both nodes; two requests to install the primary.
CONSTANTS
  Op = {o1, o2, r1, r2}
  Request = {r1, r2}
  NoOp = NoOp
  Replica = Replica
  NoHolder = NoHolder
  Failure = {"write", "remove", "rename", "crash", "crashReplacing"}
  SetupFailure = {"write", "rename"}
SPECIFICATION ReplicationSpec
INVARIANTS
  MemoryMatchesFile
  StandbyHoldsOnlyDurable
  StandbyMatchesFile
  InSyncWhenQuiet
  InstallIsKept
  OneTenantIsSeeded
PROPERTY
  ImplementsDurableStore
CHECK_DEADLOCK FALSE
