\* Three connections of two devices that share two client IDs as they like.
CONSTANTS
  Device = {d1, d2}
  Client = {k1, k2}
  Conn = {c1, c2, c3}
  NoSession = NoSession
SPECIFICATION Spec
INVARIANTS
  AloneIsServed
  AloneIsOnline
  BindingsAreReleased
PROPERTIES
  ImplementsRegistry
  OnlyItsClientLeaves
CHECK_DEADLOCK FALSE
