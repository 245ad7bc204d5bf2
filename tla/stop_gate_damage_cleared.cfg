SPECIFICATION Spec
CONSTANTS
  Stops = {s1, s2, s3}
  Advisories = {}
  Keys = {k1}
  CheckOrder <- NoChecks
  IdleDisableAfter = 1
  MaxChangedFiles = 1
  MaxTouchedDirs = 1
  LockViews <- OwnOrNothing
  Projects <- NoProjects
  StopGateEnabled = TRUE
  InjectorsOn = FALSE
  MaxMessages = 0
  Cooldown = 0
  OneAtATime = TRUE
  IOFaults = FALSE
  MaxDamage = 1
  MaxTime = 0
CHECK_DEADLOCK FALSE
INVARIANTS
  OneRoundPerKey
