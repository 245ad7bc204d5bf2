SPECIFICATION Spec
CONSTANTS
  Stops = {s1}
  Advisories = {a1, a2, a3}
  Keys = {k1}
  CheckOrder <- ThreeChecks
  IdleDisableAfter = 2
  MaxChangedFiles = 1
  MaxTouchedDirs = 1
  LockViews <- AlwaysOwn
  Projects <- SmallProjects
  StopGateEnabled = FALSE
  InjectorsOn = TRUE
  MaxMessages = 2
  Cooldown = 2
  OneAtATime = TRUE
  IOFaults = TRUE
  MaxDamage = 0
  MaxTime = 4
CHECK_DEADLOCK FALSE
INVARIANTS
  MessageCap
  CooldownKept
PROPERTIES
  DisabledStaysOff
