SPECIFICATION PollingSpec
CONSTANTS
  Stops = {s1, s2, s3}
  Advisories = {}
  Keys = {k1, k2}
  CheckOrder <- NoChecks
  IdleDisableAfter = 1
  MaxChangedFiles = 1
  MaxTouchedDirs = 1
  LockViews <- EveryView
  Projects <- NoProjects
  StopGateEnabled = TRUE
  InjectorsOn = FALSE
  MaxMessages = 0
  Cooldown = 0
  OneAtATime = FALSE
  IOFaults = TRUE
  MaxDamage = 0
  MaxTime = 0
CHECK_DEADLOCK FALSE
INVARIANTS
  TypeOK
  OneTransaction
  OneRoundPerKey
  BlockIsRecorded
  NoUngrantedBlock
PROPERTIES
  RecordsStay
  ImplementsOneRework
  WaitEnds
