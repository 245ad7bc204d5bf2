SPECIFICATION Spec
CONSTANTS
  Stops = {s1}
  Advisories = {a1, a2}
  Keys = {k1}
  CheckOrder <- ThreeChecks
  IdleDisableAfter = 2
  MaxChangedFiles = 1
  MaxTouchedDirs = 1
  LockViews <- AlwaysOwn
  Projects <- SmallProjects
  StopGateEnabled = FALSE
  InjectorsOn = TRUE
  MaxMessages = 1
  Cooldown = 0
  OneAtATime = FALSE
  IOFaults = FALSE
  MaxDamage = 0
  MaxTime = 0
CHECK_DEADLOCK FALSE
INVARIANTS
  MessageCap
