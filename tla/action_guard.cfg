SPECIFICATION Spec
CONSTANTS
  ProjectRoot <- Worktree
  MainRoot <- MainClone
  Directories <- SomeDirectories
  LockNames <- ThreeNames
  Contents <- SomeContents
  Actions <- SomeActions
  NoFile = NoFile
  Configs <- SomeConfigs
  MaxWrites = 1
  MaxTime = 1
CHECK_DEADLOCK FALSE
INVARIANTS
  TypeOK
  StandingLockDenies
  QuietAnswer
