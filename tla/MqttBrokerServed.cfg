\* One device with one client ID comes back; the code stops serving it.
CONSTANTS
  Device = {d1}
  Client = {k1}
  Conn = {c1, c2}
  NoSession = NoSession
SPECIFICATION Spec
INVARIANT
  EstablishedIsServed
CHECK_DEADLOCK FALSE
