SPECIFICATION ConsumerSpec
CONSTANTS
  Jobs = {j1}
  j1 = j1
  sA = sA
  Sessions = {sA}
  SessionOf <- OneJob
  EndJobs = {}
  Hooks = {h1}
  Consumers = {c1, c2}
  MaxPerSession = 0
  MaxPerDay = 0
  MaxRecords = 0
  LeaseTime = 1
  DayLength = 1
  SlowCalls = FALSE
  WriteFaults = TRUE
  MaxTime = 1
  MaxAborts = 0
  LineBreak = "nl"
  Transcripts <- Texts
  OtherTexts <- Replacements
  Appended = "z"
  WindowStarts = {0}
  MaxBytes = 5
  MaxEvents = 2
  MaxChars = 3
  RequestOverhead = 2
  MaxRequest = 4
  MaxAppends = 1
  MaxReplacements = 1
  MaxEdits = 1
SYMMETRY Symmetry
CHECK_DEADLOCK FALSE
INVARIANTS
  ConsumerTypeOK
  NewestEvidence
  CandidatesAreBound
  WindowFailsForCause
PROPERTIES
  ModifiedSkillsFail
