SPECIFICATION BriefingSpec
CONSTANTS
  t1 = t1
  t2 = t2
  t3 = t3
  t4 = t4
  Order <- SourceOrder
  DirectoryOrder <- Directory
  CanonicalOf <- CopyOf
  GoalFiles <- DefaultGoalFiles
  Goals = {"g1", "g2"}
  Root = "."
  Changes <- WorktreeChanges
  Tasks = {t1, t2, t3, t4}
  LocalTasks = {t1, t2, t3}
  Limit = 2
  FacadeLimit = 2
  Projects <- SomeProjects
  MaxMoves = 2
  MaxEntries = 2
  Paths <- SessionPaths
  Registries <- RuleLists
CHECK_DEADLOCK FALSE
INVARIANTS
  BriefingTypeOK
  NothingInvented
  NothingLost
  GoalStands
  ClosestRules
