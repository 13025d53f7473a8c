\* Two telemetry messages and one change of the desired values.
CONSTANTS
  Handler = {h1, h2}
  Writer = {w1}
  hot = hot
  cold = cold
  Property = {temp}
  Value = {hot, cold}
  Missing = Missing
  Profile <- MCProfile
  Wishes <- MCWishes
  Rules <- MCRules
  Watched = temp
  Threshold = hot
  Cooldown = 2
  MaxTime = 3
  MaxRunning = 2
SYMMETRY Symmetry
SPECIFICATION Spec
INVARIANTS
  TypeOK
  CooldownIsKept
  LastCallIsInShadow
  NoStaleSave
CHECK_DEADLOCK FALSE
