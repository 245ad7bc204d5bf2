SPECIFICATION Spec
CONSTANTS
  Stops = {s1, s2}
  Advisories = {a1, a2}
  Keys = {k1, k2}
  CheckOrder <- NoChecks
  IdleDisableAfter = 1
  MaxChangedFiles = 1
  MaxTouchedDirs = 1
  LockViews <- OwnOrNothing
  Projects <- NoProjects
  StopGateEnabled = TRUE
  InjectorsOn = FALSE
  MaxMessages = 0
  Cooldown = 0
  OneAtATime = FALSE
  IOFaults = TRUE
  MaxDamage = 1
  MaxTime = 0
SYMMETRY Symmetry
CHECK_DEADLOCK FALSE
INVARIANTS
  RoundsNeedForgetting
