SPECIFICATION Spec
CONSTANTS
  Stops = {s1, s2}
  Advisories = {a1}
  Keys = {k1}
  CheckOrder <- NoChecks
  IdleDisableAfter = 1
  MaxChangedFiles = 1
  MaxTouchedDirs = 1
  LockViews <- OwnOrNothing
  Projects <- NoProjects
  StopGateEnabled = TRUE
  InjectorsOn = FALSE
  MaxMessages = 0
  Cooldown = 0
  OneAtATime = FALSE
  IOFaults = FALSE
  MaxDamage = 0
  MaxTime = 0
CHECK_DEADLOCK FALSE
INVARIANTS
  OneRoundPerKey
