SPECIFICATION Spec
CONSTANTS
  Jobs = {j1}
  j1 = j1
  j2 = j2
  sA = sA
  sB = sB
  Sessions = {sA}
  SessionOf <- OneJob
  EndJobs = {}
  Hooks = {h1}
  Consumers = {c1, c2}
  MaxPerSession = 0
  MaxPerDay = 0
  MaxRecords = 0
  LeaseTime = 1
  DayLength = 1
  SlowCalls = TRUE
  WriteFaults = TRUE
  MaxTime = 2
  MaxAborts = 1
CHECK_DEADLOCK FALSE
INVARIANTS
  TypeOK
  CandidatesStaged
PROPERTIES
  LeaseHolds
  ImplementsLifecycle
