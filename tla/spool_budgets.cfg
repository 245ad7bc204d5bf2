SPECIFICATION Spec
CONSTANTS
  Jobs = {j1, j2}
  j1 = j1
  j2 = j2
  sA = sA
  sB = sB
  Sessions = {sA, sB}
  SessionOf <- OneEach
  EndJobs = {j2}
  Hooks = {h1}
  Consumers = {c1}
  MaxPerSession = 1
  MaxPerDay = 1
  MaxRecords = 1
  LeaseTime = 1
  DayLength = 1
  SlowCalls = FALSE
  WriteFaults = TRUE
  MaxTime = 1
  MaxAborts = 1
CHECK_DEADLOCK FALSE
INVARIANTS
  DailyBudget
  SessionBudget
PROPERTIES
  ImplementsLifecycle
