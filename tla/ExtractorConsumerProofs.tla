---------------------- MODULE ExtractorConsumerProofs ----------------------
(***************************************************************************)
(* Theorems about ExtractorConsumer for any texts, limits, jobs and        *)
(* consumers. The consumer only takes steps of the spool, so that all that *)
(* CandidateSpoolProofs says of the spool holds under it; and what it      *)
(* reads for a job are the newest lines of the bytes the job was built of. *)
(***************************************************************************)
EXTENDS ExtractorConsumer, CandidateSpoolProofs, SequenceTheorems

-----------------------------------------------------------------------------
(* The spool under a consumer                                              *)

(* The steps of the spool by which no process takes a job in hand, nor     *)
(* goes from its lease to its work.                                        *)
TakesNoJob ==
  \/ \E h \in Hooks :
       \/ LooksForReceipt(h)
       \/ ReadsReceipt(h)
       \/ LooksForJob(h)
       \/ LoadsJob(h)
       \/ Reserves(h)
       \/ SavesCheckpoint(h)
  \/ \E c \in Consumers :
       \/ \E j \in Jobs : FinishesUnleased(c, j)
       \/ LeaseRefused(c)
       \/ StagesCandidate(c)
       \/ Finishes(c)
       \/ FinishRefused(c)
       \/ Releases(c)
  \/ \E p \in Procs : PruneStep(p) \/ LockTimesOut(p) \/ Crash(p)
  \/ \E j \in Jobs : RecoversExpired(j)
  \/ Tick

(* The steps that leave to each process what it has in hand.               *)
Keeping ==
  \/ SpoolStep
  \/ \E h \in Hooks : WritesJob(h)
  \/ \E c \in Consumers :
       StagesAnswer(c) \/ SettlesJob(c) \/ CannotSettle(c) \/ GivesBack(c)

(* They are steps of that kind.                                            *)
LEMMA KeepingSteps ==
  ASSUME Keeping
  PROVE  TakesNoJob /\ KeepWork
<1>1. ASSUME SpoolStep
      PROVE  TakesNoJob
  BY <1>1 DEF SpoolStep, TakesNoJob
<1>2. ASSUME NEW h \in Hooks, WritesJob(h)
      PROVE  TakesNoJob
  BY <1>2 DEF WritesJob, TakesNoJob
<1>3. ASSUME NEW c \in Consumers,
             StagesAnswer(c) \/ SettlesJob(c) \/ CannotSettle(c) \/ GivesBack(c)
      PROVE  TakesNoJob
  BY <1>3 DEF StagesAnswer, SettlesJob, CannotSettle, GivesBack, TakesNoJob
<1>4. KeepWork
  BY DEF Keeping, SpoolStep, WritesJob, StagesAnswer, SettlesJob, CannotSettle,
         GivesBack
<1> QED
  BY <1>1, <1>2, <1>3, <1>4 DEF Keeping

(* What else a step of the consumer or of its surroundings is.             *)
LEMMA OtherSteps ==
  ASSUME [ConsumerNext]_allVars, ~Keeping
  PROVE  \/ \E h \in Hooks, j \in Jobs : BuildsJob(h, j)
         \/ \E c \in Consumers, j \in Jobs : LoadsWindow(c, j)
         \/ \E c \in Consumers :
              \/ LeasesJob(c)
              \/ ChecksWindow(c)
              \/ AsksRunner(c)
              \/ HearsRunner(c)
         \/ Grows
         \/ Replaced
         \/ SkillWritten
         \/ UNCHANGED allVars
BY DEF ConsumerNext, Keeping, Consumes

(* A step of the consumer is a step of the spool or none of its concern.   *)
LEMMA ConsumerStepsInSpool == [ConsumerNext]_allVars => [Next]_vars
<1> SUFFICES ASSUME [ConsumerNext]_allVars
             PROVE  [Next]_vars
  OBVIOUS
<1>1. CASE Keeping
  <2>1. TakesNoJob
    BY <1>1, KeepingSteps
  <2> QED
    BY <2>1 DEF TakesNoJob, Next, HookStep, ConsumerStep
<1>2. ASSUME NEW h \in Hooks, NEW j \in Jobs, BuildsJob(h, j)
      PROVE  Next
  BY <1>2 DEF BuildsJob, Next, HookStep
<1>3. ASSUME NEW c \in Consumers, NEW j \in Jobs, LoadsWindow(c, j)
      PROVE  Next
  BY <1>3 DEF LoadsWindow, Next, ConsumerStep
<1>4. ASSUME NEW c \in Consumers, LeasesJob(c)
      PROVE  Next
  BY <1>4 DEF LeasesJob, Next, ConsumerStep
<1>5. ASSUME NEW c \in Consumers,
             ChecksWindow(c) \/ AsksRunner(c) \/ HearsRunner(c)
      PROVE  UNCHANGED vars
  BY <1>5 DEF ChecksWindow, AsksRunner, HearsRunner
<1>6. CASE Grows \/ Replaced \/ SkillWritten \/ UNCHANGED allVars
  BY <1>6 DEF Grows, Replaced, SkillWritten, allVars
<1> QED
  BY <1>1, <1>2, <1>3, <1>4, <1>5, <1>6, OtherSteps

(* A consumer of job windows behaves as a consumer of the spool: leases,   *)
(* budgets and the lifecycle of receipts are what the spool makes them,    *)
(* whatever transcripts and skill files do meanwhile.                      *)
THEOREM ConsumerImplementsSpool == ConsumerSpec => Spec
<1>1. ConsumerInit => Init
  BY DEF ConsumerInit
<1> QED
  BY <1>1, ConsumerStepsInSpool, PTL DEF ConsumerSpec, Spec

-----------------------------------------------------------------------------
(* Who holds a job                                                         *)

(* Without taking a job nobody begins to hold one, or to work on it.       *)
LEMMA HoldersHeld ==
  ASSUME TypeOK, [TakesNoJob]_vars, NEW p \in Procs
  PROVE  /\ pc'[p] \in Holding => pc[p] \in Holding
         /\ pc'[p] \in AtWork => pc[p] \in AtWork
<1> USE DEF fileVars, pruneVars, procVars, AtWork, Holding
<1>1. ASSUME NEW h \in Hooks,
             \/ LooksForReceipt(h)
             \/ ReadsReceipt(h)
             \/ LooksForJob(h)
             \/ LoadsJob(h)
             \/ Reserves(h)
             \/ SavesCheckpoint(h)
      PROVE  /\ pc'[p] \in Holding => pc[p] \in Holding
             /\ pc'[p] \in AtWork => pc[p] \in AtWork
  BY <1>1 DEF LooksForReceipt, ReadsReceipt, LooksForJob, LoadsJob, Reserves,
              SavesCheckpoint, ReturnsUnless, Returns, Goto, TypeOK
<1>2. ASSUME NEW d \in Consumers,
             \/ \E j \in Jobs : FinishesUnleased(d, j)
             \/ LeaseRefused(d)
             \/ StagesCandidate(d)
             \/ Finishes(d)
             \/ FinishRefused(d)
             \/ Releases(d)
      PROVE  /\ pc'[p] \in Holding => pc[p] \in Holding
             /\ pc'[p] \in AtWork => pc[p] \in AtWork
  BY <1>2 DEF FinishesUnleased, LeaseRefused, StagesCandidate, Finishes,
              FinishRefused, Releases, Calls, Returns, Goto, TypeOK
<1>3. ASSUME NEW q \in Procs, PruneStep(q)
      PROVE  /\ pc'[p] \in Holding => pc[p] \in Holding
             /\ pc'[p] \in AtWork => pc[p] \in AtWork
  BY <1>3 DEF PruneStep, PruneNotNeeded, BeginPrune, KeepsVictim,
              UnlinksReceipt, UnlinksJob, RestoresReceipt, EndPrune,
              BackToCaller, ReturnsUnless, Returns, Goto, TypeOK
<1>4. ASSUME NEW q \in Procs, LockTimesOut(q) \/ Crash(q)
      PROVE  /\ pc'[p] \in Holding => pc[p] \in Holding
             /\ pc'[p] \in AtWork => pc[p] \in AtWork
  BY <1>4 DEF LockTimesOut, Crash, Returns, Goto, TypeOK
<1>5. ASSUME NEW j \in Jobs, RecoversExpired(j)
      PROVE  pc' = pc
  BY <1>5 DEF RecoversExpired
<1>6. CASE Tick \/ UNCHANGED vars
  BY <1>6 DEF Tick, vars
<1> QED
  BY <1>1, <1>2, <1>3, <1>4, <1>5, <1>6 DEF TakesNoJob

(* Only a hook that looks for a job file writes one.                       *)
LEMMA SpoolStepWritesNoJob ==
  ASSUME SpoolStep
  PROVE  jobFile' \subseteq jobFile
<1> USE DEF fileVars
<1>1. ASSUME NEW h \in Hooks,
             \/ LooksForReceipt(h)
             \/ ReadsReceipt(h)
             \/ LoadsJob(h)
             \/ Reserves(h)
             \/ SavesCheckpoint(h)
      PROVE  jobFile' = jobFile
  BY <1>1 DEF LooksForReceipt, ReadsReceipt, LoadsJob, Reserves,
              SavesCheckpoint
<1>2. ASSUME NEW c \in Consumers,
             (\E j \in Jobs : FinishesUnleased(c, j)) \/ LeaseRefused(c)
      PROVE  jobFile' = jobFile
  BY <1>2 DEF FinishesUnleased, LeaseRefused
<1>3. ASSUME NEW p \in Procs, PruneStep(p)
      PROVE  jobFile' \subseteq jobFile
  BY <1>3 DEF PruneStep, PruneNotNeeded, BeginPrune, KeepsVictim,
              UnlinksReceipt, UnlinksJob, RestoresReceipt, EndPrune
<1>4. ASSUME NEW p \in Procs, LockTimesOut(p) \/ Crash(p)
      PROVE  jobFile' = jobFile
  BY <1>4 DEF LockTimesOut, Crash
<1>5. ASSUME NEW j \in Jobs, RecoversExpired(j)
      PROVE  jobFile' = jobFile
  BY <1>5 DEF RecoversExpired
<1>6. CASE Tick
  BY <1>6 DEF Tick
<1> QED
  BY <1>1, <1>2, <1>3, <1>4, <1>5, <1>6 DEF SpoolStep

(* And only a staging changes what is staged.                              *)
LEMMA SpoolStepStagesNothing ==
  ASSUME SpoolStep
  PROVE  staged' = staged
<1> USE DEF fileVars
<1>1. ASSUME NEW h \in Hooks,
             \/ LooksForReceipt(h)
             \/ ReadsReceipt(h)
             \/ LoadsJob(h)
             \/ Reserves(h)
             \/ SavesCheckpoint(h)
      PROVE  staged' = staged
  BY <1>1 DEF LooksForReceipt, ReadsReceipt, LoadsJob, Reserves,
              SavesCheckpoint
<1>2. ASSUME NEW c \in Consumers,
             (\E j \in Jobs : FinishesUnleased(c, j)) \/ LeaseRefused(c)
      PROVE  staged' = staged
  BY <1>2 DEF FinishesUnleased, LeaseRefused
<1>3. ASSUME NEW p \in Procs, PruneStep(p)
      PROVE  staged' = staged
  BY <1>3 DEF PruneStep, PruneNotNeeded, BeginPrune, KeepsVictim,
              UnlinksReceipt, UnlinksJob, RestoresReceipt, EndPrune
<1>4. ASSUME NEW p \in Procs, LockTimesOut(p) \/ Crash(p)
      PROVE  staged' = staged
  BY <1>4 DEF LockTimesOut, Crash
<1>5. ASSUME NEW j \in Jobs, RecoversExpired(j)
      PROVE  staged' = staged
  BY <1>5 DEF RecoversExpired
<1>6. CASE Tick
  BY <1>6 DEF Tick
<1> QED
  BY <1>1, <1>2, <1>3, <1>4, <1>5, <1>6 DEF SpoolStep

-----------------------------------------------------------------------------
(* What consumers know                                                     *)

(* A consumer's work is a record that says what it does.                   *)
WorkType(c) ==
  /\ DOMAIN work[c] = DOMAIN NoWork
  /\ work[c].step \in Steps
  /\ work[c].verdict \in Verdicts
  /\ work[c].skills \in SkillStates \ {"other"}
  /\ work[c].torn \in BOOLEAN
  /\ work[c].grown \in BOOLEAN
  /\ work[c].step = "none" <=> pc[c] \notin AtWork

(* ... and all of it.                                                      *)
WorkTypes == DOMAIN work = Consumers /\ \A c \in Consumers : WorkType(c)

(* What one consumer learns leaves the others alone.                       *)
LEMMA OneWorks ==
  ASSUME WorkTypes, NEW c \in Consumers, NEW progress, Works(c, progress)
  PROVE  /\ DOMAIN work' = Consumers
         /\ work'[c] = progress
         /\ \A d \in Consumers \ {c} : work'[d] = work[d]
         /\ inHand' = inHand
BY DEF Works, WorkTypes

(* What a settled job leaves of it.                                        *)
LEMMA Settlement ==
  ASSUME WorkTypes, NEW c \in Consumers, NEW verdict, Settles(c, verdict)
  PROVE  /\ DOMAIN work' = Consumers
         /\ \A d \in Consumers \ {c} : work'[d] = work[d]
         /\ inHand' = inHand
         /\ DOMAIN work'[c] = DOMAIN NoWork
         /\ work'[c].step = "answered"
         /\ work'[c].verdict = verdict
         /\ work'[c].skills \in {"pinned", work[c].skills}
         /\ work'[c].torn \in {FALSE, work[c].torn}
         /\ work'[c].grown \in {FALSE, work[c].grown}
         /\ verdict = "candidate" => /\ work'[c].sent = work[c].sent
                                     /\ work'[c].known = work[c].known
                                     /\ work'[c].torn = work[c].torn
<1>1. CASE verdict = "candidate"
  <2>1. Works(c, [work[c] EXCEPT !.step = "answered", !.verdict = verdict])
    BY <1>1 DEF Settles
  <2>2. work'[c] = [work[c] EXCEPT !.step = "answered", !.verdict = verdict]
    BY <2>1, OneWorks
  <2>3. DOMAIN work[c] = DOMAIN NoWork
    BY DEF WorkTypes, WorkType
  <2>4. /\ DOMAIN work'[c] = DOMAIN NoWork
        /\ work'[c].step = "answered"
        /\ work'[c].verdict = verdict
        /\ work'[c].skills = work[c].skills
        /\ work'[c].torn = work[c].torn
        /\ work'[c].grown = work[c].grown
        /\ work'[c].sent = work[c].sent
        /\ work'[c].known = work[c].known
    BY <2>2, <2>3 DEF NoWork
  <2> QED
    BY <2>1, <2>4, OneWorks
<1>2. CASE verdict # "candidate"
  <2>1. Works(c, [NoWork EXCEPT !.step = "answered", !.verdict = verdict])
    BY <1>2 DEF Settles
  <2>2. work'[c] = [NoWork EXCEPT !.step = "answered", !.verdict = verdict]
    BY <2>1, OneWorks
  <2>3. /\ DOMAIN work'[c] = DOMAIN NoWork
        /\ work'[c].step = "answered"
        /\ work'[c].verdict = verdict
        /\ work'[c].skills = "pinned"
        /\ work'[c].torn = FALSE
        /\ work'[c].grown = FALSE
    BY <2>2 DEF NoWork
  <2> QED
    BY <1>2, <2>1, <2>3, OneWorks
<1> QED
  BY <1>1, <1>2

(* A window that stands leads to its reading.                              *)
LEMMA Checked ==
  ASSUME WorkTypes, NEW c \in Consumers,
         Works(c, [work[c] EXCEPT !.step = "checked"])
  PROVE  /\ DOMAIN work' = Consumers
         /\ \A d \in Consumers \ {c} : work'[d] = work[d]
         /\ inHand' = inHand
         /\ DOMAIN work'[c] = DOMAIN NoWork
         /\ work'[c].step = "checked"
         /\ work'[c].verdict = work[c].verdict
         /\ work'[c].skills = work[c].skills
         /\ work'[c].torn = work[c].torn
         /\ work'[c].grown = work[c].grown
<1>1. work'[c] = [work[c] EXCEPT !.step = "checked"]
  BY OneWorks
<1>2. DOMAIN work[c] = DOMAIN NoWork
  BY DEF WorkTypes, WorkType
<1>3. /\ DOMAIN work'[c] = DOMAIN NoWork
      /\ work'[c].step = "checked"
      /\ work'[c].verdict = work[c].verdict
      /\ work'[c].skills = work[c].skills
      /\ work'[c].torn = work[c].torn
      /\ work'[c].grown = work[c].grown
  BY <1>1, <1>2 DEF NoWork
<1> QED
  BY <1>3, OneWorks

(* One that grew while it was looked at is given up.                       *)
LEMMA GrownAway ==
  ASSUME WorkTypes, NEW c \in Consumers,
         Works(c, [NoWork EXCEPT !.step = "answered", !.verdict = "unbound",
                                 !.grown = TRUE])
  PROVE  /\ DOMAIN work' = Consumers
         /\ \A d \in Consumers \ {c} : work'[d] = work[d]
         /\ inHand' = inHand
         /\ DOMAIN work'[c] = DOMAIN NoWork
         /\ work'[c].step = "answered"
         /\ work'[c].verdict = "unbound"
         /\ work'[c].skills = "pinned"
         /\ work'[c].torn = FALSE
         /\ work'[c].grown = TRUE
<1>1. work'[c] = [NoWork EXCEPT !.step = "answered", !.verdict = "unbound",
                                !.grown = TRUE]
  BY OneWorks
<1>2. /\ DOMAIN work'[c] = DOMAIN NoWork
      /\ work'[c].step = "answered"
      /\ work'[c].verdict = "unbound"
      /\ work'[c].skills = "pinned"
      /\ work'[c].torn = FALSE
      /\ work'[c].grown = TRUE
  BY <1>1 DEF NoWork
<1> QED
  BY <1>2, OneWorks

(* A lease begins with nothing read.                                       *)
LEMMA Leased ==
  ASSUME TypeOK, WorkTypes, NEW c \in Consumers, LeasesJob(c)
  PROVE  /\ pc[c] = "leasing"
         /\ \A p \in Procs : pc'[p] = IF p = c THEN "working" ELSE pc[p]
         /\ DOMAIN work' = Consumers
         /\ \A d \in Consumers \ {c} : work'[d] = work[d]
         /\ inHand' = inHand
         /\ DOMAIN work'[c] = DOMAIN NoWork
         /\ work'[c].step = "leased"
         /\ work'[c].verdict = "open"
         /\ work'[c].skills = "pinned"
         /\ work'[c].torn = FALSE
         /\ work'[c].grown = FALSE
<1>1. Works(c, [NoWork EXCEPT !.step = "leased"])
  BY DEF LeasesJob
<1>2. work'[c] = [NoWork EXCEPT !.step = "leased"]
  BY <1>1, OneWorks
<1>3. /\ DOMAIN work'[c] = DOMAIN NoWork
      /\ work'[c].step = "leased"
      /\ work'[c].verdict = "open"
      /\ work'[c].skills = "pinned"
      /\ work'[c].torn = FALSE
      /\ work'[c].grown = FALSE
  BY <1>2 DEF NoWork
<1>4. pc[c] = "leasing" /\ pc' = [pc EXCEPT ![c] = "working"]
  BY DEF LeasesJob, Leases, Goto
<1>5. \A p \in Procs : pc'[p] = IF p = c THEN "working" ELSE pc[p]
  BY <1>4 DEF TypeOK, Procs
<1> QED
  BY <1>1, <1>3, <1>4, <1>5, OneWorks

(* What the runner was asked, or why it was not.                           *)
LEMMA Asked ==
  ASSUME WorkTypes, NEW c \in Consumers, AsksRunner(c)
  PROVE  /\ DOMAIN work' = Consumers
         /\ \A d \in Consumers \ {c} : work'[d] = work[d]
         /\ inHand' = inHand
         /\ DOMAIN work'[c] = DOMAIN NoWork
         /\ work'[c].skills \in {"pinned", work[c].skills, skills} \ {"other"}
         /\ work'[c].torn \in {FALSE, work[c].torn}
         /\ work'[c].grown \in {FALSE, work[c].grown}
         /\ \/ work'[c].step = "answered" /\ work'[c].verdict \in {"noop", "invalid"}
            \/ /\ work'[c].step = "asked"
               /\ work'[c].verdict = work[c].verdict
               /\ work'[c].torn = work[c].torn
               /\ work'[c].known
                    = Fitted(EvidenceRecords(transcript, inHand[c].start,
                                             inHand[c].end, MaxBytes, MaxEvents))
               /\ work'[c].sent = Budgeted(work'[c].known)
               /\ work'[c].sent # {}
<1>1. work[c].skills # "other" /\ DOMAIN work[c] = DOMAIN NoWork
  BY DEF WorkTypes, WorkType
<1>2. ASSUME NEW verdict \in {"noop", "invalid"}, Settles(c, verdict)
      PROVE  /\ DOMAIN work' = Consumers
             /\ \A d \in Consumers \ {c} : work'[d] = work[d]
             /\ inHand' = inHand
             /\ DOMAIN work'[c] = DOMAIN NoWork
             /\ work'[c].skills \in {"pinned", work[c].skills, skills} \ {"other"}
             /\ work'[c].torn \in {FALSE, work[c].torn}
             /\ work'[c].grown \in {FALSE, work[c].grown}
             /\ work'[c].step = "answered"
             /\ work'[c].verdict \in {"noop", "invalid"}
  BY <1>1, <1>2, Settlement
<1> DEFINE job == inHand[c]
           known == Fitted(EvidenceRecords(transcript, job.start, job.end,
                                           MaxBytes, MaxEvents))
           sent == Budgeted(known)
           progress == [work[c] EXCEPT !.step = "asked", !.sent = sent,
                                       !.known = known, !.skills = skills]
<1>3. CASE skills # "other" /\ sent # {} /\ Works(c, progress)
  <2>1. /\ DOMAIN progress = DOMAIN NoWork
        /\ progress.step = "asked"
        /\ progress.verdict = work[c].verdict
        /\ progress.torn = work[c].torn
        /\ progress.grown = work[c].grown
        /\ progress.skills = skills
        /\ progress.known = known
        /\ progress.sent = sent
    <3> HIDE DEF known, sent
    <3> QED
      BY <1>1 DEF NoWork
  <2>2. /\ DOMAIN work' = Consumers
        /\ work'[c] = progress
        /\ \A d \in Consumers \ {c} : work'[d] = work[d]
        /\ inHand' = inHand
    <3> HIDE DEF progress
    <3> QED
      BY <1>3, OneWorks
  <2>3. sent = Budgeted(known)
    OBVIOUS
  <2> HIDE DEF progress, known, sent
  <2>4. work'[c].known = known /\ work'[c].sent = Budgeted(work'[c].known)
    BY <2>1, <2>2, <2>3
  <2> QED
    BY <1>3, <2>1, <2>2, <2>4 DEF known
<1>4. \/ \E verdict \in {"noop", "invalid"} : Settles(c, verdict)
      \/ skills # "other" /\ sent # {} /\ Works(c, progress)
  BY DEF AsksRunner, JobOf
<1> QED
  BY <1>2, <1>3, <1>4

(* What came back from it.                                                 *)
LEMMA Heard ==
  ASSUME WorkTypes, NEW c \in Consumers, HearsRunner(c)
  PROVE  /\ work[c].step = "asked"
         /\ \E verdict \in {"noop", "candidate", "invalid", "retry"} :
              /\ Settles(c, verdict)
              /\ skills # work[c].skills => verdict = "invalid"
BY DEF HearsRunner, SkillsStand

(* The types of work are kept.                                             *)
LEMMA WorkTypesStep ==
  ASSUME TypeOK, WorkTypes, skills \in SkillStates, [ConsumerNext]_allVars
  PROVE  WorkTypes'
<1>1. \A c \in Consumers : c \in Procs
  BY DEF Procs
<1>2. CASE Keeping
  <2>1. TakesNoJob /\ KeepWork
    BY <1>2, KeepingSteps
  <2>2. \A c \in Consumers : pc'[c] \in AtWork => pc[c] \in AtWork
    BY <1>1, <2>1, HoldersHeld
  <2> QED
    BY <2>1, <2>2 DEF KeepWork, WorkTypes, WorkType, NoWork, Steps, Verdicts,
                      SkillStates
<1>3. ASSUME NEW c \in Consumers, UNCHANGED pc, pc[c] \in AtWork,
             DOMAIN work' = Consumers,
             \A d \in Consumers \ {c} : work'[d] = work[d],
             DOMAIN work'[c] = DOMAIN NoWork,
             work'[c].step \in Steps \ {"none"},
             work'[c].verdict \in Verdicts,
             work'[c].skills \in SkillStates \ {"other"},
             work'[c].torn \in BOOLEAN,
             work'[c].grown \in BOOLEAN
      PROVE  WorkTypes'
  BY <1>3 DEF WorkTypes, WorkType
<1>4. ASSUME NEW c \in Consumers, work[c].step # "none"
      PROVE  /\ pc[c] \in AtWork
             /\ work[c].verdict \in Verdicts
             /\ work[c].skills \in SkillStates \ {"other"}
             /\ work[c].torn \in BOOLEAN
             /\ work[c].grown \in BOOLEAN
  BY <1>4 DEF WorkTypes, WorkType
<1>5. ASSUME UNCHANGED work,
             \A c \in Consumers : pc'[c] \in AtWork <=> pc[c] \in AtWork
      PROVE  WorkTypes'
  BY <1>5 DEF WorkTypes, WorkType
<1>6. ASSUME NEW h \in Hooks, NEW j \in Jobs, BuildsJob(h, j)
      PROVE  WorkTypes'
  BY <1>5, <1>6 DEF BuildsJob, BeginSubmit, Calls, Goto, TypeOK, AtWork
<1>7. ASSUME NEW c \in Consumers, NEW j \in Jobs, LoadsWindow(c, j)
      PROVE  WorkTypes'
  BY <1>5, <1>7 DEF LoadsWindow, BeginLease, Calls, Goto, TypeOK, AtWork
<1>8. ASSUME NEW c \in Consumers, LeasesJob(c)
      PROVE  WorkTypes'
  <2>1. \A d \in Consumers : pc'[d] = IF d = c THEN "working" ELSE pc[d]
    BY <1>1, <1>8, Leased
  <2>2. /\ DOMAIN work' = Consumers
        /\ \A d \in Consumers \ {c} : work'[d] = work[d]
        /\ DOMAIN work'[c] = DOMAIN NoWork
        /\ work'[c].step = "leased"
        /\ work'[c].verdict = "open"
        /\ work'[c].skills = "pinned"
        /\ work'[c].torn = FALSE
        /\ work'[c].grown = FALSE
    BY <1>8, Leased
  <2>3. ASSUME NEW d \in Consumers \ {c}
        PROVE  WorkType(d)'
    BY <2>1, <2>2 DEF WorkTypes, WorkType
  <2>4. WorkType(c)'
    BY <2>1, <2>2 DEF WorkType, AtWork, Steps, Verdicts, SkillStates
  <2> QED
    BY <2>2, <2>3, <2>4 DEF WorkTypes
<1>9. ASSUME NEW c \in Consumers, ChecksWindow(c)
      PROVE  WorkTypes'
  <2>1. UNCHANGED pc /\ work[c].step # "none"
    BY <1>9 DEF ChecksWindow, vars, procVars
  <2>2. CASE Works(c, [work[c] EXCEPT !.step = "checked"])
    BY <1>3, <1>4, <2>1, <2>2, Checked DEF Steps
  <2>3. CASE Settles(c, "unbound")
    <3>1. "unbound" \in Verdicts /\ "pinned" \in SkillStates \ {"other"}
      BY DEF Verdicts, SkillStates
    <3>2. /\ DOMAIN work' = Consumers
          /\ \A d \in Consumers \ {c} : work'[d] = work[d]
          /\ DOMAIN work'[c] = DOMAIN NoWork
          /\ work'[c].step = "answered"
          /\ work'[c].verdict = "unbound"
          /\ work'[c].skills \in {"pinned", work[c].skills}
          /\ work'[c].torn \in {FALSE, work[c].torn}
          /\ work'[c].grown \in {FALSE, work[c].grown}
      BY <2>3, Settlement
    <3>3. work'[c].torn \in BOOLEAN /\ work'[c].grown \in BOOLEAN
      BY <1>4, <2>1, <3>2, Zenon
    <3>4. /\ work'[c].step \in Steps \ {"none"}
          /\ work'[c].verdict \in Verdicts
          /\ work'[c].skills \in SkillStates \ {"other"}
      BY <1>4, <2>1, <3>1, <3>2 DEF Steps
    <3> QED
      BY <1>3, <1>4, <2>1, <3>2, <3>3, <3>4
  <2>4. CASE Works(c, [NoWork EXCEPT !.step = "answered", !.verdict = "unbound",
                                     !.grown = TRUE])
    <3>1. "unbound" \in Verdicts /\ "pinned" \in SkillStates \ {"other"}
      BY DEF Verdicts, SkillStates
    <3> QED
      BY <1>3, <1>4, <2>1, <2>4, <3>1, GrownAway DEF Steps
  <2> QED
    BY <1>9, <2>2, <2>3, <2>4 DEF ChecksWindow
<1>10. ASSUME NEW c \in Consumers, AsksRunner(c)
       PROVE  WorkTypes'
  <2>1. UNCHANGED pc /\ work[c].step # "none"
    BY <1>10 DEF AsksRunner, vars, procVars
  <2>2. {"noop", "invalid"} \subseteq Verdicts /\ "pinned" \in SkillStates \ {"other"}
    BY DEF Verdicts, SkillStates
  <2>3. /\ work'[c].step \in Steps \ {"none"}
        /\ work'[c].verdict \in Verdicts
        /\ work'[c].skills \in SkillStates \ {"other"}
        /\ work'[c].torn \in BOOLEAN
        /\ work'[c].grown \in BOOLEAN
    BY <1>4, <1>10, <2>1, <2>2, Asked DEF Steps
  <2> QED
    BY <1>3, <1>4, <1>10, <2>1, <2>3, Asked
<1>11. ASSUME NEW c \in Consumers, HearsRunner(c)
       PROVE  WorkTypes'
  <2>1. UNCHANGED pc /\ work[c].step # "none"
    BY <1>11 DEF HearsRunner, vars, procVars
  <2>2. PICK verdict \in {"noop", "candidate", "invalid", "retry"} :
          Settles(c, verdict)
    BY <1>11, Heard
  <2>3. verdict \in Verdicts /\ "pinned" \in SkillStates \ {"other"}
    BY DEF Verdicts, SkillStates
  <2>4. /\ DOMAIN work' = Consumers
        /\ \A d \in Consumers \ {c} : work'[d] = work[d]
        /\ DOMAIN work'[c] = DOMAIN NoWork
        /\ work'[c].step = "answered"
        /\ work'[c].verdict = verdict
        /\ work'[c].skills \in {"pinned", work[c].skills}
        /\ work'[c].torn \in {FALSE, work[c].torn}
        /\ work'[c].grown \in {FALSE, work[c].grown}
    BY <2>2, Settlement
  <2>5. work'[c].torn \in BOOLEAN /\ work'[c].grown \in BOOLEAN
    BY <1>4, <2>1, <2>4, Zenon
  <2>6. /\ work'[c].step \in Steps \ {"none"}
        /\ work'[c].verdict \in Verdicts
        /\ work'[c].skills \in SkillStates \ {"other"}
    BY <1>4, <2>1, <2>3, <2>4 DEF Steps
  <2> QED
    BY <1>3, <1>4, <2>1, <2>4, <2>5, <2>6
<1>12. CASE Replaced
  <2>1. UNCHANGED pc /\ work' = Torn
    BY <1>12 DEF Replaced, vars, procVars
  <2> QED
    BY <2>1 DEF Torn, WorkTypes, WorkType, NoWork
<1>13. CASE Grows \/ SkillWritten \/ UNCHANGED allVars
  BY <1>5, <1>13 DEF Grows, SkillWritten, allVars, vars, procVars, workVars,
                     extractorVars
<1> QED
  BY <1>2, <1>6, <1>7, <1>8, <1>9, <1>10, <1>11, <1>12, <1>13, OtherSteps

-----------------------------------------------------------------------------
(* Transcripts and jobs                                                    *)

(* The bytes a transcript may have.                                        *)
Bytes ==
  {Appended}
    \cup UNION {{text[i] : i \in DOMAIN text} : text \in Transcripts \cup OtherTexts}

(* The transcript is made of such bytes.                                   *)
TextTypes ==
  /\ transcript \in Seq(Bytes)
  /\ appends \in 0 .. MaxAppends
  /\ replacements \in 0 .. MaxReplacements

(* A job whose window ends where its transcript ended when it was built.   *)
IsJob(job) ==
  /\ job \in [start: Nat, end: Nat, hashed: BOOLEAN, source: Seq(Bytes),
              edition: Nat]
  /\ job.start <= job.end
  /\ job.end = Len(job.source)

(* What append after append makes of a text.                               *)
Extended(text, longer) ==
  /\ Len(text) <= Len(longer)
  /\ \A i \in 1 .. Len(text) : longer[i] = text[i]

(* The transcript a job was built of is the beginning of the present one,  *)
(* unless it was replaced.                                                 *)
Standing(job, text, n) ==
  /\ IsJob(job)
  /\ job.edition <= n
  /\ job.edition = n => Extended(job.source, text)

(* What is said of a job wherever there may be none.                       *)
Stands(job) == job = NoJob \/ Standing(job, transcript, replacements)

(* Every job file says something, and the processes that hold a job have   *)
(* one in memory.                                                          *)
JobsInv ==
  /\ DOMAIN onFile = Jobs
  /\ DOMAIN inHand = Procs
  /\ \A j \in jobFile : onFile[j] # NoJob
  /\ \A j \in Jobs : Stands(onFile[j])
  /\ \A p \in Procs : inHand[p] = NoJob <=> pc[p] \notin Holding
  /\ \A p \in Procs : Stands(inHand[p])

(* The texts of an instance are texts of these bytes.                      *)
LEMMA TextsAreBytes ==
  ASSUME NEW text \in Transcripts \cup OtherTexts
  PROVE  text \in Seq(Bytes)
<1>1. text \in Seq({text[i] : i \in DOMAIN text})
  BY ConsumerAssumption
<1>2. {text[i] : i \in DOMAIN text} \subseteq Bytes
  BY DEF Bytes
<1> QED
  BY <1>1, <1>2

(* An append extends a text and whatever it extended.                      *)
LEMMA GrownExtends ==
  ASSUME TextTypes, TranscriptGrows
  PROVE  /\ transcript' \in Seq(Bytes)
         /\ Extended(transcript, transcript')
         /\ \A text \in Seq(Bytes) :
              Extended(text, transcript) => Extended(text, transcript')
<1>1. Appended \in Bytes
  BY DEF Bytes
<1>2. /\ transcript' \in Seq(Bytes)
      /\ Len(transcript') = Len(transcript) + 1
      /\ \A i \in 1 .. Len(transcript) : transcript'[i] = transcript[i]
  BY <1>1 DEF TextTypes, TranscriptGrows
<1>3. Len(transcript) \in Nat /\ \A text \in Seq(Bytes) : Len(text) \in Nat
  BY DEF TextTypes
<1> QED
  BY <1>2, <1>3 DEF Extended

(* What a step can do to the transcript.                                   *)
LEMMA TranscriptMoves ==
  ASSUME [ConsumerNext]_allVars
  PROVE  UNCHANGED sourceVars \/ TranscriptGrows \/ Replaced
<1>1. ASSUME NEW h \in Hooks, NEW j \in Jobs, BuildsJob(h, j)
      PROVE  UNCHANGED sourceVars \/ TranscriptGrows
  BY <1>1 DEF BuildsJob
<1>2. ASSUME NEW c \in Consumers, Consumes(c)
      PROVE  UNCHANGED sourceVars \/ TranscriptGrows
  BY <1>2 DEF Consumes, LoadsWindow, LeasesJob, ChecksWindow, AsksRunner,
              HearsRunner, StagesAnswer, SettlesJob, CannotSettle, GivesBack
<1>3. ASSUME NEW h \in Hooks, WritesJob(h)
      PROVE  UNCHANGED sourceVars
  BY <1>3 DEF WritesJob
<1>4. CASE SpoolStep \/ Grows \/ SkillWritten \/ UNCHANGED allVars
  BY <1>4 DEF SpoolStep, Grows, SkillWritten, allVars, extractorVars
<1> QED
  BY <1>1, <1>2, <1>3, <1>4 DEF ConsumerNext

(* They keep its type.                                                     *)
LEMMA TextTypesStep ==
  ASSUME TextTypes, [ConsumerNext]_allVars
  PROVE  TextTypes'
<1>1. CASE UNCHANGED sourceVars
  BY <1>1 DEF sourceVars, TextTypes
<1>2. CASE TranscriptGrows
  <2>1. transcript' \in Seq(Bytes)
    BY <1>2, GrownExtends
  <2> QED
    BY <1>2, <2>1, ConsumerAssumption DEF TranscriptGrows, TextTypes
<1>3. CASE Replaced
  <2>1. transcript' \in Seq(Bytes)
    BY <1>3, TextsAreBytes DEF Replaced
  <2> QED
    BY <1>3, <2>1, ConsumerAssumption DEF Replaced, TextTypes
<1> QED
  BY <1>1, <1>2, <1>3, TranscriptMoves

(* And what a job is to its transcript, it stays.                          *)
LEMMA StandsOn ==
  ASSUME TextTypes, [ConsumerNext]_allVars, NEW job, Stands(job)
  PROVE  job = NoJob \/ Standing(job, transcript', replacements')
<1> SUFFICES ASSUME Standing(job, transcript, replacements)
             PROVE  Standing(job, transcript', replacements')
  BY DEF Stands
<1>1. job.edition \in Nat /\ replacements \in Nat /\ job.source \in Seq(Bytes)
  BY ConsumerAssumption DEF TextTypes, Standing, IsJob
<1>2. CASE UNCHANGED sourceVars
  BY <1>2 DEF sourceVars, Standing
<1>3. CASE TranscriptGrows
  <2>1. replacements' = replacements
    BY <1>3 DEF TranscriptGrows
  <2> QED
    BY <1>1, <1>3, <2>1, GrownExtends DEF Standing
<1>4. CASE Replaced
  <2>1. replacements' = replacements + 1
    BY <1>4 DEF Replaced
  <2> QED
    BY <1>1, <2>1 DEF Standing
<1> QED
  BY <1>2, <1>3, <1>4, TranscriptMoves

(* A new job stands, the transcript it was built of being the present one, *)
(* up to an append during its hash.                                        *)
LEMMA NewJobStands ==
  ASSUME TextTypes, UNCHANGED sourceVars \/ TranscriptGrows,
         NEW start \in WindowStarts, start <= Len(transcript),
         NEW hashed \in BOOLEAN
  PROVE  /\ NewJob(start, hashed) # NoJob
         /\ Standing(NewJob(start, hashed), transcript', replacements')
<1> DEFINE job == NewJob(start, hashed)
<1>1. /\ Len(transcript) \in Nat /\ start \in Nat /\ replacements \in Nat
      /\ transcript \in Seq(Bytes)
  BY ConsumerAssumption DEF TextTypes
<1>2. /\ job \in [start: Nat, end: Nat, hashed: BOOLEAN, source: Seq(Bytes),
                  edition: Nat]
      /\ job.start = start /\ job.end = Len(transcript)
      /\ job.source = transcript /\ job.edition = replacements
  BY <1>1 DEF NewJob
<1> HIDE DEF job
<1>3. job # NoJob
  BY <1>1, <1>2 DEF NoJob
<1>4. IsJob(job)
  BY <1>1, <1>2 DEF IsJob
<1>5. replacements' = replacements /\ Extended(transcript, transcript')
  <2>1. CASE TranscriptGrows
    BY <2>1, GrownExtends DEF TranscriptGrows
  <2>2. CASE UNCHANGED sourceVars
    BY <1>1, <2>2 DEF sourceVars, Extended
  <2> QED
    BY <2>1, <2>2
<1>6. Standing(job, transcript', replacements')
  BY <1>1, <1>2, <1>4, <1>5 DEF Standing
<1> QED
  BY <1>3, <1>6 DEF job

(* Jobs keep together with transcripts and with the processes.             *)
LEMMA JobsStep ==
  ASSUME TypeOK, TextTypes, JobsInv, [ConsumerNext]_allVars
  PROVE  JobsInv'
<1> DEFINE Ok(job) == job = NoJob \/ Standing(job, transcript', replacements')
<1>9. /\ \A j \in Jobs : Ok(onFile[j])
      /\ \A p \in Procs : Ok(inHand[p])
  BY StandsOn DEF JobsInv
<1>10. /\ Hooks \subseteq Procs /\ Consumers \subseteq Procs
      /\ \A p \in Procs : pc[p] \in PCs /\ arg[p] \in Jobs
      /\ jobFile \subseteq Jobs
      /\ DOMAIN pc = Procs
  BY DEF Procs, TypeOK
<1> SUFFICES
      /\ DOMAIN onFile' = Jobs
      /\ DOMAIN inHand' = Procs
      /\ \A j \in jobFile' : onFile'[j] # NoJob
      /\ \A j \in Jobs : Ok(onFile'[j])
      /\ \A p \in Procs : inHand'[p] = NoJob <=> pc'[p] \notin Holding
      /\ \A p \in Procs : Ok(inHand'[p])
  BY DEF JobsInv, Stands, Holding
<1> HIDE DEF Ok
<1>1. ASSUME UNCHANGED <<onFile, jobFile>>
      PROVE  /\ DOMAIN onFile' = Jobs
             /\ \A j \in jobFile' : onFile'[j] # NoJob
             /\ \A j \in Jobs : Ok(onFile'[j])
  BY <1>9, <1>1 DEF JobsInv
<1>2. CASE Keeping
  <2>1. TakesNoJob /\ KeepWork
    BY <1>2, KeepingSteps
  <2>2. \A p \in Procs : pc'[p] \in Holding => pc[p] \in Holding
    BY <2>1, HoldersHeld
  <2>3. \A p \in Procs :
          inHand'[p] = IF pc'[p] \in Holding THEN inHand[p] ELSE NoJob
    BY <2>1 DEF KeepWork
  <2>4. DOMAIN inHand' = Procs
    BY <2>1 DEF KeepWork
  <2>5. Ok(NoJob)
    BY DEF Ok
  <2>6. /\ \A p \in Procs : inHand'[p] = NoJob <=> pc'[p] \notin Holding
        /\ \A p \in Procs : Ok(inHand'[p])
    BY <1>9, <2>2, <2>3, <2>5 DEF JobsInv
  <2>7. ASSUME NEW h \in Hooks, WritesJob(h)
        PROVE  /\ DOMAIN onFile' = Jobs
               /\ \A j \in jobFile' : onFile'[j] # NoJob
               /\ \A j \in Jobs : Ok(onFile'[j])
    <3>1. /\ pc[h] = "checkingJob"
          /\ jobFile' = jobFile \cup {arg[h]}
          /\ onFile' = [onFile EXCEPT ![arg[h]] =
                          IF arg[h] \in jobFile THEN @ ELSE inHand[h]]
      BY <2>7 DEF WritesJob, LooksForJob
    <3>2. inHand[h] # NoJob
      BY <1>10, <3>1 DEF JobsInv, Holding
    <3>3. \A j \in Jobs :
            onFile'[j] = IF j = arg[h] /\ j \notin jobFile THEN inHand[h]
                                                           ELSE onFile[j]
      BY <3>1 DEF JobsInv
    <3>4. DOMAIN onFile' = Jobs /\ arg[h] \in Jobs /\ h \in Procs
      BY <1>10, <3>1 DEF JobsInv
    <3> QED
      BY <1>9, <1>10, <3>1, <3>2, <3>3, <3>4 DEF JobsInv
  <2>8. CASE \A h \in Hooks : ~WritesJob(h)
    <3>1. UNCHANGED onFile
      BY <1>2, <2>8 DEF Keeping, SpoolStep, StagesAnswer, SettlesJob,
                        CannotSettle, GivesBack
    <3>2. jobFile' \subseteq jobFile
      <4>1. CASE SpoolStep
        BY <4>1, SpoolStepWritesNoJob
      <4>2. ASSUME NEW c \in Consumers,
                   \/ StagesAnswer(c)
                   \/ SettlesJob(c)
                   \/ CannotSettle(c)
                   \/ GivesBack(c)
            PROVE  jobFile' = jobFile
        BY <4>2 DEF StagesAnswer, StagesCandidate, SettlesJob, Finishes,
                    CannotSettle, FinishRefused, GivesBack, Releases, fileVars
      <4> QED
        BY <1>2, <2>8, <4>1, <4>2 DEF Keeping
    <3> QED
      BY <1>9, <2>4, <2>6, <3>1, <3>2 DEF JobsInv
  <2> QED
    BY <2>4, <2>6, <2>7, <2>8
<1>3. ASSUME NEW h \in Hooks, NEW i \in Jobs, BuildsJob(h, i)
      PROVE  /\ DOMAIN onFile' = Jobs
             /\ DOMAIN inHand' = Procs
             /\ \A j \in jobFile' : onFile'[j] # NoJob
             /\ \A j \in Jobs : Ok(onFile'[j])
             /\ \A p \in Procs : inHand'[p] = NoJob <=> pc'[p] \notin Holding
             /\ \A p \in Procs : Ok(inHand'[p])
  <2>1. /\ pc' = [pc EXCEPT ![h] = "looking"]
        /\ UNCHANGED <<onFile, jobFile>>
    BY <1>3 DEF BuildsJob, BeginSubmit, Calls, Goto, fileVars
  <2>2. PICK start \in WindowStarts, hashed \in BOOLEAN :
          /\ start <= Len(transcript)
          /\ inHand' = [inHand EXCEPT ![h] = NewJob(start, hashed)]
          /\ UNCHANGED sourceVars \/ TranscriptGrows
    BY <1>3 DEF BuildsJob
  <2> DEFINE job == NewJob(start, hashed)
  <2>3. job # NoJob /\ Ok(job)
    BY <2>2, NewJobStands DEF Ok
  <2> HIDE DEF job
  <2>4. inHand' = [inHand EXCEPT ![h] = job]
    BY <2>2 DEF job
  <2>5. /\ DOMAIN inHand' = Procs
        /\ \A p \in Procs : inHand'[p] = IF p = h THEN job ELSE inHand[p]
        /\ \A p \in Procs : pc'[p] = IF p = h THEN "looking" ELSE pc[p]
    BY <1>10, <2>1, <2>4 DEF JobsInv
  <2>6. /\ \A p \in Procs : inHand'[p] = NoJob <=> pc'[p] \notin Holding
        /\ \A p \in Procs : Ok(inHand'[p])
    BY <1>9, <2>3, <2>5 DEF JobsInv, Holding
  <2> QED
    BY <1>1, <2>1, <2>5, <2>6
<1>4. ASSUME NEW c \in Consumers, NEW i \in Jobs, LoadsWindow(c, i)
      PROVE  /\ DOMAIN onFile' = Jobs
             /\ DOMAIN inHand' = Procs
             /\ \A j \in jobFile' : onFile'[j] # NoJob
             /\ \A j \in Jobs : Ok(onFile'[j])
             /\ \A p \in Procs : inHand'[p] = NoJob <=> pc'[p] \notin Holding
             /\ \A p \in Procs : Ok(inHand'[p])
  <2>1. /\ pc' = [pc EXCEPT ![c] = "leasing"]
        /\ i \in jobFile
        /\ inHand' = [inHand EXCEPT ![c] = onFile[i]]
        /\ UNCHANGED <<onFile, jobFile>>
    BY <1>4 DEF LoadsWindow, BeginLease, Calls, Goto, fileVars
  <2>2. onFile[i] # NoJob /\ Ok(onFile[i])
    BY <1>9, <2>1 DEF JobsInv
  <2>3. /\ DOMAIN inHand' = Procs
        /\ \A p \in Procs : inHand'[p] = IF p = c THEN onFile[i] ELSE inHand[p]
        /\ \A p \in Procs : pc'[p] = IF p = c THEN "leasing" ELSE pc[p]
    BY <1>10, <2>1 DEF JobsInv
  <2>4. /\ \A p \in Procs : inHand'[p] = NoJob <=> pc'[p] \notin Holding
        /\ \A p \in Procs : Ok(inHand'[p])
    BY <1>9, <2>2, <2>3 DEF JobsInv, Holding
  <2> QED
    BY <1>1, <2>1, <2>3, <2>4
<1>5. ASSUME UNCHANGED <<onFile, jobFile, inHand>>,
             \A p \in Procs : pc'[p] \in Holding <=> pc[p] \in Holding
      PROVE  /\ DOMAIN onFile' = Jobs
             /\ DOMAIN inHand' = Procs
             /\ \A j \in jobFile' : onFile'[j] # NoJob
             /\ \A j \in Jobs : Ok(onFile'[j])
             /\ \A p \in Procs : inHand'[p] = NoJob <=> pc'[p] \notin Holding
             /\ \A p \in Procs : Ok(inHand'[p])
  BY <1>9, <1>1, <1>5 DEF JobsInv
<1>6. ASSUME NEW c \in Consumers, LeasesJob(c)
      PROVE  /\ UNCHANGED <<onFile, jobFile, inHand>>
             /\ \A p \in Procs : pc'[p] \in Holding <=> pc[p] \in Holding
  <2>1. /\ pc[c] = "leasing" /\ pc' = [pc EXCEPT ![c] = "working"]
        /\ UNCHANGED <<onFile, jobFile, inHand>>
    BY <1>6 DEF LeasesJob, Leases, Goto, Works
  <2> QED
    BY <1>10, <2>1 DEF Holding, AtWork
<1>7. ASSUME NEW c \in Consumers,
             ChecksWindow(c) \/ AsksRunner(c) \/ HearsRunner(c)
      PROVE  UNCHANGED <<onFile, jobFile, inHand, pc>>
  BY <1>7 DEF ChecksWindow, AsksRunner, HearsRunner, Settles, Works, vars,
              fileVars, procVars
<1>8. CASE Grows \/ Replaced \/ SkillWritten \/ UNCHANGED allVars
  <2>1. UNCHANGED <<onFile, jobFile, inHand, pc>>
    BY <1>8 DEF Grows, Replaced, SkillWritten, allVars, extractorVars,
                workVars, vars, fileVars, procVars
  <2> QED
    BY <1>5, <2>1
<1> QED
  BY <1>2, <1>3, <1>4, <1>5, <1>6, <1>7, <1>8, OtherSteps

-----------------------------------------------------------------------------
(* Lines                                                                   *)

(* Texts that have the same bytes somewhere have the same pieces there.    *)
LEMMA SameBytes ==
  ASSUME NEW S, NEW s, NEW t, NEW m \in Int, NEW n \in Int,
         \A i \in m .. n : s[i] \in S /\ t[i] = s[i]
  PROVE  SubSeq(t, m, n) = SubSeq(s, m, n)
<1>0. \A i \in m .. n : s[i] \in S
  OBVIOUS
<1>1. /\ SubSeq(s, m, n) \in Seq(S)
      /\ Len(SubSeq(s, m, n)) = IF m <= n THEN n - m + 1 ELSE 0
      /\ \A i \in 1 .. n - m + 1 : SubSeq(s, m, n)[i] = s[m + i - 1]
  BY <1>0, SubSeqProperties
<1>2. \A i \in m .. n : t[i] \in S
  OBVIOUS
<1>3. /\ SubSeq(t, m, n) \in Seq(S)
      /\ Len(SubSeq(t, m, n)) = IF m <= n THEN n - m + 1 ELSE 0
      /\ \A i \in 1 .. n - m + 1 : SubSeq(t, m, n)[i] = t[m + i - 1]
  BY <1>2, SubSeqProperties
<1>4. \A i \in 1 .. n - m + 1 : t[m + i - 1] = s[m + i - 1]
  OBVIOUS
<1>5. \A i \in 1 .. Len(SubSeq(s, m, n)) :
        SubSeq(s, m, n)[i] = SubSeq(t, m, n)[i]
  BY <1>1, <1>3, <1>4
<1> QED
  BY <1>1, <1>3, <1>5, SeqEqual

(* And texts with the same piece somewhere have the same bytes there.      *)
LEMMA SamePieces ==
  ASSUME NEW S, NEW s \in Seq(S), NEW t \in Seq(S), NEW m \in Nat \ {0},
         NEW n \in Nat, n <= Len(s), n <= Len(t),
         SubSeq(t, m, n) = SubSeq(s, m, n)
  PROVE  \A i \in m .. n : t[i] = s[i]
<1>1. (\A i \in m .. n : s[i] \in S) /\ (\A i \in m .. n : t[i] \in S)
  OBVIOUS
<1>2. \A i \in 1 .. n - m + 1 : SubSeq(s, m, n)[i] = s[m + i - 1]
  BY <1>1, SubSeqProperties
<1>3. \A i \in 1 .. n - m + 1 : SubSeq(t, m, n)[i] = t[m + i - 1]
  BY <1>1, SubSeqProperties
<1> SUFFICES ASSUME NEW i \in m .. n
             PROVE  t[i] = s[i]
  OBVIOUS
<1>4. i - m + 1 \in 1 .. n - m + 1 /\ m + (i - m + 1) - 1 = i
  OBVIOUS
<1> QED
  BY <1>2, <1>3, <1>4

(* Some offset of a set of them is the first, and some the last.           *)
LEMMA FirstOffset ==
  ASSUME NEW S \in SUBSET Nat, S # {}
  PROVE  \E x \in S : \A y \in S : x <= y
<1> DEFINE T == {0 .. x : x \in S}
           R == StrictSubsetOrdering(Nat)
<1>1. T \subseteq FiniteSubsetsOf(Nat)
  <2>1. \A x \in S : 0 .. x \subseteq Nat /\ IsFiniteSet(0 .. x)
    BY FS_Interval
  <2> QED
    BY <2>1 DEF FiniteSubsetsOf
<1>2. IsWellFoundedOn(R, FiniteSubsetsOf(Nat)) /\ T # {}
  BY FS_StrictSubsetOrderingWellFounded
<1>3. \E X \in T : \A Y \in T : ~(<<Y, X>> \in R)
  <2> HIDE DEF T, R
  <2> QED
    BY <1>1, <1>2, WFMin
<1>4. PICK x \in S : \A y \in S : ~(<<0 .. y, 0 .. x>> \in R)
  BY <1>3
<1>5. ASSUME NEW y \in S, y < x
      PROVE  FALSE
  <2>1. 0 .. y \subseteq 0 .. x /\ x \in 0 .. x /\ x \notin 0 .. y
    BY <1>5
  <2>2. 0 .. y # 0 .. x
    BY <2>1
  <2>3. 0 .. y \in SUBSET Nat /\ 0 .. x \in SUBSET Nat
    OBVIOUS
  <2>4. <<0 .. y, 0 .. x>> \in R
    BY <2>1, <2>2, <2>3 DEF StrictSubsetOrdering
  <2> QED
    BY <1>4, <2>4
<1> QED
  BY <1>5

(* A bounded set of offsets has a last one.                                *)
LEMMA LastOffset ==
  ASSUME NEW S \in SUBSET Nat, S # {}, NEW n \in Nat, \A x \in S : x <= n
  PROVE  \E x \in S : \A y \in S : y <= x
<1> DEFINE T == {n - x : x \in S}
<1>1. T \in SUBSET Nat /\ T # {}
  <2>1. \A x \in S : n - x \in Nat
    OBVIOUS
  <2>2. T \in SUBSET Nat
    BY <2>1, Zenon
  <2> QED
    BY <2>2
<1>2. \E d \in T : \A e \in T : d <= e
  <2> HIDE DEF T
  <2> QED
    BY <1>1, FirstOffset
<1>3. PICK x \in S : \A y \in S : n - x <= n - y
  BY <1>2
<1> QED
  BY <1>3

(* Reading begins inside the window, where a line of it begins or at its   *)
(* end, and no line of the window begins between the cut and there.        *)
LEMMA ReadingBegins ==
  ASSUME NEW text, NEW start \in Nat, NEW end \in Nat, NEW maxBytes \in Nat,
         start <= end
  PROVE  LET from == BoundedStart(text, start, end, maxBytes) IN
         /\ from \in start .. end
         /\ from = start \/ from = end \/ AfterBreak(text, from)
         /\ from >= end - maxBytes
         /\ \A o \in start .. end :
              /\ o >= end - maxBytes
              /\ o = start \/ AfterBreak(text, o)
              /\ o < end
              => o >= from
<1> DEFINE cut == Larger(start, end - maxBytes)
           later == LaterStarts(text, cut, end)
           from == BoundedStart(text, start, end, maxBytes)
<1>1. cut \in start .. end /\ cut >= end - maxBytes
      /\ (cut = start \/ cut = end - maxBytes)
  BY DEF Larger
<1>2. \A o \in Int : o \in later <=> o \in cut + 1 .. end /\ AfterBreak(text, o)
  BY DEF LaterStarts
<1>3. from = IF cut = start \/ AfterBreak(text, cut)
               THEN cut
               ELSE IF later = {} THEN end
                                  ELSE CHOOSE o \in later : \A p \in later : o <= p
  BY DEF BoundedStart
<1>4. later \in SUBSET Nat
  BY <1>1 DEF LaterStarts
<1> HIDE DEF cut, later, from
<1>5. CASE cut = start \/ AfterBreak(text, cut)
  BY <1>1, <1>3, <1>5 DEF from
<1>6. CASE ~(cut = start \/ AfterBreak(text, cut)) /\ later = {}
  <2>1. from = end
    BY <1>3, <1>6
  <2>2. ASSUME NEW o \in start .. end, o >= end - maxBytes,
               o = start \/ AfterBreak(text, o), o < end
        PROVE  FALSE
    <3>1. o >= cut /\ o # cut
      BY <1>1, <1>6, <2>2
    <3>2. o \in later
      BY <1>1, <1>2, <1>6, <2>2, <3>1
    <3> QED
      BY <1>6, <3>2
  <2> QED
    BY <2>1, <2>2 DEF from
<1>7. CASE ~(cut = start \/ AfterBreak(text, cut)) /\ later # {}
  <2>1. \E o \in later : \A p \in later : o <= p
    BY <1>4, <1>7, FirstOffset
  <2>2. from \in later /\ \A p \in later : from <= p
    BY <1>3, <1>7, <2>1
  <2>3. from \in Int
    BY <1>4, <2>2
  <2>4. from \in cut + 1 .. end /\ AfterBreak(text, from)
    BY <1>2, <2>2, <2>3
  <2>5. ASSUME NEW o \in start .. end, o >= end - maxBytes,
               o = start \/ AfterBreak(text, o), o < end
        PROVE  o >= from
    <3>1. o >= cut /\ o # cut
      BY <1>1, <1>7, <2>5
    <3>2. o \in later
      BY <1>1, <1>2, <1>7, <2>5, <3>1
    <3> QED
      BY <2>2, <2>3, <3>2
  <2> QED
    BY <1>1, <2>4, <2>5 DEF from
<1> QED
  BY <1>5, <1>6, <1>7

(* The lines behind that point are the lines of the window that begin in   *)
(* its last bytes.                                                         *)
LEMMA LinesBehindStart ==
  ASSUME NEW text, NEW start \in Nat, NEW end \in Nat, NEW maxBytes \in Nat,
         start <= end
  PROVE  LinesBetween(text, BoundedStart(text, start, end, maxBytes), end)
           = {l \in LinesBetween(text, start, end) : l[1] >= end - maxBytes}
<1> DEFINE from == BoundedStart(text, start, end, maxBytes)
<1>1. /\ from \in start .. end
      /\ from = start \/ from = end \/ AfterBreak(text, from)
      /\ from >= end - maxBytes
      /\ \A o \in start .. end :
           /\ o >= end - maxBytes
           /\ o = start \/ AfterBreak(text, o)
           /\ o < end
           => o >= from
  BY ReadingBegins
<1> HIDE DEF from
<1>2. ASSUME NEW l \in LinesBetween(text, from, end)
      PROVE  l \in LinesBetween(text, start, end) /\ l[1] >= end - maxBytes
  <2>1. /\ l \in (from .. end) \X (from .. end)
        /\ l[1] < l[2]
        /\ l[1] = from \/ AfterBreak(text, l[1])
        /\ l[2] = end \/ AfterBreak(text, l[2] + 1)
        /\ \A o \in l[1] + 1 .. l[2] : ~AfterBreak(text, o)
    BY DEF LinesBetween
  <2>2. l \in (start .. end) \X (start .. end)
    BY <1>1, <2>1
  <2>3. l[1] \in from .. end /\ l[2] \in from .. end
    BY <2>1
  <2>4. l[1] = start \/ AfterBreak(text, l[1])
    BY <1>1, <2>1, <2>3
  <2>5. l[1] >= end - maxBytes
    BY <1>1, <2>3
  <2> QED
    BY <2>1, <2>2, <2>4, <2>5 DEF LinesBetween
<1>3. ASSUME NEW l \in LinesBetween(text, start, end), l[1] >= end - maxBytes
      PROVE  l \in LinesBetween(text, from, end)
  <2>1. /\ l \in (start .. end) \X (start .. end)
        /\ l[1] < l[2]
        /\ l[1] = start \/ AfterBreak(text, l[1])
        /\ l[2] = end \/ AfterBreak(text, l[2] + 1)
        /\ \A o \in l[1] + 1 .. l[2] : ~AfterBreak(text, o)
    BY DEF LinesBetween
  <2>2. l[1] \in start .. end /\ l[2] \in start .. end /\ l[1] < end
    BY <2>1
  <2>3. l[1] >= from
    BY <1>1, <1>3, <2>1, <2>2
  <2>4. l = <<l[1], l[2]>> /\ l[1] \in from .. end /\ l[2] \in from .. end
    BY <1>1, <2>1, <2>2, <2>3
  <2>5. l \in (from .. end) \X (from .. end)
    BY <2>4
  <2>6. l[1] = from \/ AfterBreak(text, l[1])
    BY <1>1, <2>1, <2>2, <2>3
  <2> QED
    BY <2>1, <2>5, <2>6 DEF LinesBetween
<1>4. LinesBetween(text, from, end)
        = {l \in LinesBetween(text, start, end) : l[1] >= end - maxBytes}
  BY <1>2, <1>3
<1> QED
  BY <1>4 DEF from

(* No two lines begin at the same offset, and there are finitely many.     *)
LEMMA LinesByOffset ==
  ASSUME NEW text, NEW start \in Nat, NEW end \in Nat
  PROVE  LET lines == LinesBetween(text, start, end) IN
         /\ IsFiniteSet(lines)
         /\ \A l \in lines : l[1] \in start .. end /\ l[2] \in start .. end
                             /\ l = <<l[1], l[2]>>
         /\ \A l, m \in lines : l[1] = m[1] => l = m
<1> DEFINE lines == LinesBetween(text, start, end)
<1>1. IsFiniteSet((start .. end) \X (start .. end))
  <2>1. start \in Int /\ end \in Int
    OBVIOUS
  <2>2. IsFiniteSet(start .. end)
    BY <2>1, FS_Interval
  <2> QED
    BY <2>2, FS_Product
<1>2. lines \in SUBSET ((start .. end) \X (start .. end))
  BY DEF LinesBetween
<1>3. IsFiniteSet(lines)
  <2> HIDE DEF lines
  <2> QED
    BY <1>1, <1>2, FS_Subset
<1>4. ASSUME NEW l \in lines
      PROVE  l[1] \in start .. end /\ l[2] \in start .. end /\ l = <<l[1], l[2]>>
  BY <1>2
<1>5. ASSUME NEW l \in lines, NEW m \in lines, l[1] = m[1], l[2] < m[2]
      PROVE  FALSE
  <2>1. /\ l[1] \in Int /\ l[2] \in Int /\ m[2] \in Int
        /\ l[1] < l[2] /\ m[2] <= end
    BY <1>4 DEF LinesBetween
  <2>2. l[2] = end \/ AfterBreak(text, l[2] + 1)
    BY DEF LinesBetween
  <2>3. \A o \in m[1] + 1 .. m[2] : ~AfterBreak(text, o)
    BY DEF LinesBetween
  <2>4. l[2] + 1 \in m[1] + 1 .. m[2] /\ l[2] # end
    BY <1>5, <2>1
  <2> QED
    BY <2>2, <2>3, <2>4
<1>6. ASSUME NEW l \in lines, NEW m \in lines, l[1] = m[1]
      PROVE  l = m
  <2>1. l[2] \in Int /\ m[2] \in Int /\ l = <<l[1], l[2]>> /\ m = <<m[1], m[2]>>
    BY <1>4
  <2>2. ~(l[2] < m[2]) /\ ~(m[2] < l[2])
    BY <1>5, <1>6
  <2>3. l[2] = m[2]
    BY <2>1, <2>2
  <2> QED
    BY <1>6, <2>1, <2>3
<1> QED
  BY <1>3, <1>4, <1>6

(* What is read of a window depends on the bytes of the window alone.      *)
LEMMA SameEvidence ==
  ASSUME NEW S, NEW s \in Seq(S), NEW t \in Seq(S),
         NEW start \in Nat, NEW end \in Nat, start <= end,
         end <= Len(s), end <= Len(t),
         \A i \in start + 1 .. end : t[i] = s[i],
         NEW maxBytes \in Nat, NEW maxEvents
  PROVE  EvidenceRecords(t, start, end, maxBytes, maxEvents)
           = EvidenceRecords(s, start, end, maxBytes, maxEvents)
<1> DEFINE from(text) == BoundedStart(text, start, end, maxBytes)
<1>1. \A o \in start + 1 .. end : AfterBreak(t, o) <=> AfterBreak(s, o)
  BY DEF AfterBreak
<1>2. from(t) = from(s)
  <2> DEFINE cut == Larger(start, end - maxBytes)
  <2>1. cut \in start .. end /\ (cut # start => cut \in start + 1 .. end)
    BY DEF Larger
  <2>2. LaterStarts(t, cut, end) = LaterStarts(s, cut, end)
    BY <1>1, <2>1 DEF LaterStarts
  <2>3. cut = start \/ AfterBreak(t, cut) <=> cut = start \/ AfterBreak(s, cut)
    BY <1>1, <2>1
  <2>4. /\ from(t) = IF cut = start \/ AfterBreak(t, cut)
                       THEN cut
                       ELSE IF LaterStarts(t, cut, end) = {} THEN end
                              ELSE CHOOSE o \in LaterStarts(t, cut, end) :
                                     \A p \in LaterStarts(t, cut, end) : o <= p
        /\ from(s) = IF cut = start \/ AfterBreak(s, cut)
                       THEN cut
                       ELSE IF LaterStarts(s, cut, end) = {} THEN end
                              ELSE CHOOSE o \in LaterStarts(s, cut, end) :
                                     \A p \in LaterStarts(s, cut, end) : o <= p
    BY DEF BoundedStart
  <2> HIDE DEF cut, from
  <2> QED
    BY <2>2, <2>3, <2>4
<1>3. from(s) \in start .. end
  BY ReadingBegins
<1>4. Smaller(end, Len(s)) = end /\ Smaller(end, Len(t)) = end
  BY DEF Smaller
<1> DEFINE first == from(s)
           lines == LinesBetween(s, first, end)
<1>5. first \in start .. end
  BY <1>3
<1> HIDE DEF first
<1>6. \A l : l \in LinesBetween(t, first, end) <=> l \in lines
  <2> SUFFICES ASSUME NEW l \in (first .. end) \X (first .. end), l[1] < l[2]
               PROVE  /\ l[1] = first \/ AfterBreak(t, l[1])
                           <=> l[1] = first \/ AfterBreak(s, l[1])
                      /\ l[2] = end \/ AfterBreak(t, l[2] + 1)
                           <=> l[2] = end \/ AfterBreak(s, l[2] + 1)
                      /\ (\A o \in l[1] + 1 .. l[2] : ~AfterBreak(t, o))
                           <=> \A o \in l[1] + 1 .. l[2] : ~AfterBreak(s, o)
    BY DEF LinesBetween
  <2>1. /\ l[1] \in first .. end /\ l[2] \in first .. end
        /\ first \in Nat /\ start <= first
    BY <1>5
  <2>2. l[1] # first => l[1] \in start + 1 .. end
    BY <2>1
  <2>3. l[2] # end => l[2] + 1 \in start + 1 .. end
    BY <2>1
  <2>4. l[1] + 1 .. l[2] \subseteq start + 1 .. end
    BY <2>1
  <2> QED
    BY <1>1, <2>2, <2>3, <2>4
<1>7. LinesBetween(t, first, end) = lines
  BY <1>6 DEF LinesBetween
<1>8. ASSUME NEW l \in lines
      PROVE  Record(t, l) = Record(s, l)
  <2>1. l[1] \in first .. end /\ l[2] \in first .. end
    BY <1>8 DEF LinesBetween
  <2> DEFINE head == l[1] + 1
             tail == l[2]
  <2>2. head \in Int /\ tail \in Int
    BY <1>5, <2>1
  <2>3. \A i \in head .. tail : s[i] \in S /\ t[i] = s[i]
    BY <1>5, <2>1
  <2>4. Content(t, l) = SubSeq(t, head, tail) /\ Content(s, l) = SubSeq(s, head, tail)
    BY Zenon DEF Content
  <2> HIDE DEF head, tail
  <2>5. SubSeq(t, head, tail) = SubSeq(s, head, tail)
    BY <2>2, <2>3, SameBytes, SMTT(20)
  <2> QED
    BY <2>4, <2>5 DEF Record
<1>9. Newest(lines, maxEvents) \subseteq lines
  BY DEF Newest
<1>10. {Record(t, l) : l \in Newest(lines, maxEvents)}
         = {Record(s, l) : l \in Newest(lines, maxEvents)}
  BY <1>8, <1>9
<1>11. /\ EvidenceRecords(t, start, end, maxBytes, maxEvents)
            = {Record(t, l) : l \in Newest(lines, maxEvents)}
       /\ EvidenceRecords(s, start, end, maxBytes, maxEvents)
            = {Record(s, l) : l \in Newest(lines, maxEvents)}
  BY <1>2, <1>4, <1>7 DEF EvidenceRecords, first
<1> QED
  BY <1>10, <1>11

(* The newest lines are the lines behind any that is left out, and when    *)
(* one is left out they are as many as there may be.                       *)
LEMMA NewestAreEnough ==
  ASSUME NEW text, NEW start \in Nat, NEW end \in Nat, NEW n \in Nat \ {0}
  PROVE  LET lines == LinesBetween(text, start, end) IN
         /\ \A l \in Newest(lines, n), m \in lines :
              m[1] > l[1] => m \in Newest(lines, n)
         /\ Newest(lines, n) # lines => Cardinality(Newest(lines, n)) = n
<1> DEFINE lines == LinesBetween(text, start, end)
           newest == Newest(lines, n)
           Above(l) == {m \in lines : m[1] > l[1]}
<1>1. /\ IsFiniteSet(lines)
      /\ \A l \in lines : l[1] \in start .. end
      /\ \A l, m \in lines : l[1] = m[1] => l = m
  BY LinesByOffset
<1>2. newest = {l \in lines : Cardinality(Above(l)) < n}
  BY DEF Newest
<1> HIDE DEF lines, newest
<1>3. ASSUME NEW l \in lines, NEW m \in lines, m[1] >= l[1]
      PROVE  /\ Above(m) \subseteq Above(l)
             /\ IsFiniteSet(Above(m)) /\ Cardinality(Above(m)) \in Nat
             /\ IsFiniteSet(Above(l)) /\ Cardinality(Above(l)) \in Nat
             /\ Cardinality(Above(m)) <= Cardinality(Above(l))
  <2>1. Above(m) \subseteq Above(l) /\ Above(l) \subseteq lines
    BY <1>1, <1>3
  <2>2. IsFiniteSet(Above(l)) /\ Cardinality(Above(l)) \in Nat
    <3> HIDE DEF Above
    <3> QED
      BY <1>1, <2>1, FS_Subset, FS_CardinalityType
  <2>3. /\ IsFiniteSet(Above(m)) /\ Cardinality(Above(m)) \in Nat
        /\ Cardinality(Above(m)) <= Cardinality(Above(l))
    <3> HIDE DEF Above
    <3> QED
      BY <2>1, <2>2, FS_Subset, FS_CardinalityType
  <2> QED
    BY <2>1, <2>2, <2>3
<1>4. ASSUME NEW l \in newest, NEW m \in lines, m[1] > l[1]
      PROVE  m \in newest
  <2>1. l \in lines /\ l[1] \in Int /\ m[1] \in Int /\ Cardinality(Above(l)) < n
    BY <1>1, <1>2
  <2>2. /\ Cardinality(Above(m)) \in Nat /\ Cardinality(Above(l)) \in Nat
        /\ Cardinality(Above(m)) <= Cardinality(Above(l))
    BY <1>3, <1>4, <2>1
  <2>3. Cardinality(Above(m)) < n
    <3> HIDE DEF Above
    <3> QED
      BY <2>1, <2>2
  <2> QED
    BY <1>2, <2>3
<1>5. ASSUME newest # lines
      PROVE  Cardinality(newest) = n
  <2> DEFINE out == {l[1] : l \in lines \ newest}
  <2>1. newest \subseteq lines
    BY <1>2
  <2>2. out \in SUBSET Nat /\ out # {} /\ \A o \in out : o <= end
    <3>1. \A l \in lines : l[1] \in Nat /\ l[1] <= end
      BY <1>1
    <3> QED
      BY <1>5, <2>1, <3>1
  <2>3. \E o \in out : \A x \in out : x <= o
    <3> HIDE DEF out
    <3> QED
      BY <2>2, LastOffset
  <2>4. PICK q \in lines \ newest : \A l \in lines \ newest : l[1] <= q[1]
    BY <2>3
  <2>5. Cardinality(Above(q)) >= n
    <3>3. q[1] \in Int /\ q[1] >= q[1]
      BY <1>1
    <3>1. Cardinality(Above(q)) \in Nat
      BY <1>3, <3>3
    <3>2. ~(Cardinality(Above(q)) < n)
      BY <1>2, <2>4, Zenon
    <3> HIDE DEF Above
    <3> QED
      BY <3>1, <3>2
  <2>6. newest = Above(q)
    <3>1. ASSUME NEW m \in Above(q)
          PROVE  m \in newest
      BY <1>1, <2>4, <3>1
    <3>2. ASSUME NEW m \in newest
          PROVE  m \in Above(q)
      <4>1. m \in lines /\ m[1] \in Int /\ q[1] \in Int /\ m # q
        BY <1>1, <2>1, <2>4
      <4>2. m[1] # q[1]
        BY <1>1, <2>4, <4>1
      <4>3. ~(q[1] > m[1])
        BY <1>4, <2>4
      <4> QED
        BY <4>1, <4>2, <4>3
    <3> QED
      BY <3>1, <3>2
  <2>7. IsFiniteSet(newest) /\ Cardinality(newest) \in Nat
    <3> QED
      BY <1>1, <2>1, FS_Subset, FS_CardinalityType
  <2>8. Cardinality(newest) >= n
    <3> HIDE DEF Above
    <3> QED
      BY <2>5, <2>6
  <2>9. newest # {}
    <3>1. Cardinality(newest) # 0
      BY <2>7, <2>8
    <3> QED
      BY <2>7, <3>1, FS_EmptySet
  <2> DEFINE in == {l[1] : l \in newest}
  <2>10. in \in SUBSET Nat /\ in # {}
    <3>1. \A l \in lines : l[1] \in Nat
      BY <1>1
    <3> QED
      BY <2>1, <2>9, <3>1
  <2>11. \E o \in in : \A x \in in : o <= x
    <3> HIDE DEF in
    <3> QED
      BY <2>10, FirstOffset
  <2>12. PICK l \in newest : \A m \in newest : l[1] <= m[1]
    BY <2>11
  <2>13. newest = Above(l) \cup {l} /\ l \notin Above(l)
    <3>1. \A m \in newest : m \in Above(l) \/ m = l
      <4> SUFFICES ASSUME NEW m \in newest, m # l
                   PROVE  m \in Above(l)
        OBVIOUS
      <4>1. m \in lines /\ l \in lines /\ m[1] \in Int /\ l[1] \in Int
        BY <1>1, <2>1
      <4>2. m[1] # l[1] /\ l[1] <= m[1]
        BY <1>1, <2>12, <4>1
      <4> QED
        BY <4>1, <4>2
    <3>2. \A m \in Above(l) : m \in newest
      BY <1>4
    <3>3. l[1] \in Int
      BY <1>1, <2>1
    <3> QED
      BY <3>1, <3>2, <3>3
  <2>14. IsFiniteSet(Above(l)) /\ Cardinality(Above(l)) \in Nat
    <3>1. l \in lines /\ l[1] \in Int /\ l[1] >= l[1]
      BY <1>1, <2>1
    <3> QED
      BY <1>3, <3>1
  <2>15. Cardinality(Above(l)) < n
    BY <1>2, <2>12, Zenon
  <2>16. Cardinality(newest) = Cardinality(Above(l)) + 1
    <3> HIDE DEF Above
    <3> QED
      BY <2>13, <2>14, FS_AddElement
  <2> HIDE DEF Above
  <2> QED
    BY <2>7, <2>8, <2>14, <2>15, <2>16
<1> QED
  BY <1>4, <1>5 DEF newest, lines

-----------------------------------------------------------------------------
(* What fits                                                               *)

(* The newest records of a set of them, without a gap.                     *)
IsNewest(records, all) ==
  /\ records \subseteq all
  /\ \A r \in records, q \in all : q.offset > r.offset => q \in records

(* Records of one text: each is the only one at its offset.                *)
Dated(records) ==
  /\ IsFiniteSet(records)
  /\ \A r \in records : r.offset \in Nat
  /\ \A q, r \in records : q.offset = r.offset => q = r

(* More records are no smaller.                                            *)
LEMMA SizesGrow ==
  ASSUME NEW all, IsFiniteSet(all), NEW records \in SUBSET all
  PROVE  /\ SizeOf(records) \in Nat /\ SizeOf(all) \in Nat
         /\ SizeOf(records) <= SizeOf(all)
<1> DEFINE Chars(set) == {p \in set \X (1 .. MaxChars) : p[2] <= Size(p[1])}
<1>1. IsFiniteSet(all \X (1 .. MaxChars))
  <2>1. IsFiniteSet(1 .. MaxChars)
    BY ConsumerAssumption, FS_Interval
  <2> QED
    BY <2>1, FS_Product
<1>2. Chars(all) \subseteq all \X (1 .. MaxChars) /\ Chars(records) \subseteq Chars(all)
  OBVIOUS
<1>3. SizeOf(all) = Cardinality(Chars(all)) /\ SizeOf(records) = Cardinality(Chars(records))
  BY DEF SizeOf
<1> HIDE DEF Chars
<1>4. IsFiniteSet(Chars(all)) /\ Cardinality(Chars(all)) \in Nat
  BY <1>1, <1>2, FS_Subset, FS_CardinalityType
<1>5. /\ IsFiniteSet(Chars(records)) /\ Cardinality(Chars(records)) \in Nat
      /\ Cardinality(Chars(records)) <= Cardinality(Chars(all))
  BY <1>2, <1>4, FS_Subset, FS_CardinalityType
<1> QED
  BY <1>3, <1>4, <1>5

(* A limit on the size of a record and all newer ones keeps the newest     *)
(* records, and leaves out only what does not fit with all that is newer.  *)
LEMMA LimitKeepsNewest ==
  ASSUME NEW all, Dated(all), NEW records, IsNewest(records, all),
         NEW base \in Nat, NEW limit \in Nat,
         NEW kept, kept = {r \in records :
                             base + SizeOf(From(records, r)) <= limit}
  PROVE  /\ IsNewest(kept, all)
         /\ \A q \in records \ kept : base + SizeOf(From(all, q)) > limit
<1>1. records \subseteq all /\ kept \subseteq records
      /\ \A r \in all : r.offset \in Nat
  BY DEF IsNewest, Dated
<1>2. ASSUME NEW r \in records
      PROVE  /\ From(records, r) = From(all, r)
             /\ SizeOf(From(all, r)) \in Nat
  <2>1. From(records, r) \subseteq From(all, r)
    BY <1>1 DEF From
  <2>2. ASSUME NEW q \in From(all, r)
        PROVE  q \in records
    <3>1. q \in all /\ q.offset >= r.offset /\ r \in all
      BY <1>1 DEF From
    <3>2. CASE q.offset > r.offset
      BY <3>1, <3>2 DEF IsNewest
    <3>3. CASE q.offset = r.offset
      BY <3>1, <3>3 DEF Dated
    <3> QED
      BY <1>1, <3>1, <3>2, <3>3
  <2>3. From(records, r) = From(all, r)
    BY <2>1, <2>2 DEF From
  <2>4. From(all, r) \in SUBSET all
    BY DEF From
  <2> QED
    BY <2>3, <2>4, SizesGrow DEF Dated
<1>3. ASSUME NEW r \in kept, NEW q \in all, q.offset > r.offset
      PROVE  q \in kept
  <2>1. q \in records /\ r \in records
    BY <1>1, <1>3 DEF IsNewest
  <2>2. From(all, q) \in SUBSET From(all, r) /\ From(all, r) \in SUBSET all
    BY <1>1, <1>3, <2>1 DEF From
  <2>3. SizeOf(From(all, q)) <= SizeOf(From(all, r))
    <3>1. IsFiniteSet(From(all, r))
      BY <2>2, FS_Subset DEF Dated
    <3> QED
      BY <2>2, <3>1, SizesGrow
  <2>4. base + SizeOf(From(all, r)) <= limit
    BY <1>2, <2>1
  <2>5. base + SizeOf(From(all, q)) <= limit
    BY <1>2, <2>1, <2>3, <2>4
  <2> QED
    BY <1>2, <2>1, <2>5
<1>4. ASSUME NEW q \in records \ kept
      PROVE  base + SizeOf(From(all, q)) > limit
  BY <1>2
<1> QED
  BY <1>1, <1>3, <1>4 DEF IsNewest

(* What a request shows of what was read.                                  *)
LEMMA RequestIsNewest ==
  ASSUME NEW bound, Dated(bound), NEW read, IsNewest(read, bound),
         read # bound => Cardinality(read) = MaxEvents
  PROVE  LET known == Fitted(read)
             sent == Budgeted(known)
         IN /\ known \subseteq bound
            /\ IsNewest(sent, bound)
            /\ \A q \in bound \ sent :
                 \/ Cardinality(sent) = MaxEvents
                 \/ SizeOf(From(bound, q)) > MaxChars
                 \/ RequestOverhead + SizeOf(From(bound, q)) > MaxRequest
<1> DEFINE known == Fitted(read)
           sent == Budgeted(known)
<1>1. read \subseteq bound /\ \A r \in bound : r.offset \in Nat
  BY DEF IsNewest, Dated
<1>2. \A r \in read : SizeOf(From(read, r)) \in Nat
  <2>1. IsFiniteSet(read)
    BY <1>1, FS_Subset DEF Dated
  <2>2. \A r \in read : From(read, r) \in SUBSET read
    BY DEF From
  <2> QED
    BY <2>1, <2>2, SizesGrow
<1>3. known = {r \in read : 0 + SizeOf(From(read, r)) <= MaxChars}
  BY <1>2 DEF Fitted
<1>4. sent = {r \in known : RequestOverhead + SizeOf(From(known, r)) <= MaxRequest}
  BY DEF Budgeted
<1> HIDE DEF known, sent
<1>5. /\ IsNewest(known, bound)
      /\ \A q \in read \ known : 0 + SizeOf(From(bound, q)) > MaxChars
  BY <1>3, ConsumerAssumption, LimitKeepsNewest
<1>6. /\ IsNewest(sent, bound)
      /\ \A q \in known \ sent :
           RequestOverhead + SizeOf(From(bound, q)) > MaxRequest
  BY <1>4, <1>5, ConsumerAssumption, LimitKeepsNewest
<1>7. sent \subseteq known /\ known \subseteq read
  BY <1>3, <1>4
<1>8. \A q \in bound : SizeOf(From(bound, q)) \in Nat
  <2>1. \A q \in bound : From(bound, q) \in SUBSET bound
    BY DEF From
  <2> QED
    BY <2>1, SizesGrow DEF Dated
<1>9. ASSUME NEW q \in bound \ sent, Cardinality(sent) # MaxEvents
      PROVE  \/ SizeOf(From(bound, q)) > MaxChars
             \/ RequestOverhead + SizeOf(From(bound, q)) > MaxRequest
  <2>1. CASE q \in read
    <3>1. CASE q \in known
      BY <1>6, <1>9, <3>1
    <3>2. CASE q \notin known
      BY <1>5, <1>8, <2>1, <3>2
    <3> QED
      BY <3>1, <3>2
  <2>2. CASE q \notin read
    <3>1. Cardinality(read) = MaxEvents
      BY <2>2
    <3>2. PICK r \in read : r \notin sent
      BY <1>7, <1>9, <3>1
    <3>3. r.offset >= q.offset
      BY <1>1, <2>2 DEF IsNewest
    <3>4. /\ From(bound, r) \in SUBSET From(bound, q)
          /\ From(bound, q) \in SUBSET bound
      BY <1>1, <3>3 DEF From
    <3>5. SizeOf(From(bound, r)) <= SizeOf(From(bound, q))
      <4>1. IsFiniteSet(From(bound, q))
        BY <3>4, FS_Subset DEF Dated
      <4> QED
        BY <3>4, <4>1, SizesGrow
    <3>6. SizeOf(From(bound, r)) \in Nat /\ SizeOf(From(bound, q)) \in Nat
      BY <1>1, <1>8
    <3>7. CASE r \in known
      <4>1. RequestOverhead + SizeOf(From(bound, r)) > MaxRequest
        BY <1>6, <3>2, <3>7
      <4> QED
        BY <3>5, <3>6, <4>1, ConsumerAssumption
    <3>8. CASE r \notin known
      <4>1. SizeOf(From(bound, r)) > MaxChars
        BY <1>5, <3>2, <3>6, <3>8
      <4> QED
        BY <3>5, <3>6, <4>1, ConsumerAssumption
    <3> QED
      BY <3>7, <3>8
  <2> QED
    BY <2>1, <2>2
<1>10. known \subseteq bound
  BY <1>5 DEF IsNewest
<1> QED
  BY <1>6, <1>9, <1>10 DEF known, sent

(* What is read of a job's text are the newest records of those the job is *)
(* bound to.                                                               *)
LEMMA ReadIsNewest ==
  ASSUME NEW job, IsJob(job)
  PROVE  LET bound == Bound(job)
             read == EvidenceRecords(job.source, job.start, job.end, MaxBytes,
                                     MaxEvents)
         IN /\ Dated(bound)
            /\ IsNewest(read, bound)
            /\ read # bound => Cardinality(read) = MaxEvents
<1> DEFINE text == job.source
           from == BoundedStart(text, job.start, job.end, MaxBytes)
           lines == LinesBetween(text, from, job.end)
           newest == Newest(lines, MaxEvents)
           bound == Bound(job)
           read == EvidenceRecords(text, job.start, job.end, MaxBytes, MaxEvents)
<1>1. /\ job.start \in Nat /\ job.end \in Nat /\ job.start <= job.end
      /\ job.end = Len(text)
      /\ MaxBytes \in Nat /\ MaxEvents \in Nat \ {0}
  BY ConsumerAssumption DEF IsJob
<1>2. from \in job.start .. job.end /\ from \in Nat
  BY <1>1, ReadingBegins
<1>3. lines = {l \in LinesBetween(text, job.start, job.end) :
                 l[1] >= job.end - MaxBytes}
  <2> HIDE DEF text
  <2> QED
    BY <1>1, LinesBehindStart
<1>4. bound = {Record(text, l) : l \in lines}
  <2> HIDE DEF lines
  <2> QED
    BY <1>3 DEF Bound
<1>5. read = {Record(text, l) : l \in newest}
  <2>1. Smaller(job.end, Len(text)) = job.end
    BY <1>1 DEF Smaller
  <2> QED
    BY <2>1 DEF EvidenceRecords
<1>6. /\ IsFiniteSet(lines)
      /\ \A l \in lines : l[1] \in from .. job.end
      /\ \A l, m \in lines : l[1] = m[1] => l = m
  <2> HIDE DEF from, text
  <2> QED
    BY <1>1, <1>2, LinesByOffset
<1>7. /\ \A l \in newest, m \in lines : m[1] > l[1] => m \in newest
      /\ newest # lines => Cardinality(newest) = MaxEvents
  <2> HIDE DEF from, text
  <2> QED
    BY <1>1, <1>2, NewestAreEnough
<1>8. newest \subseteq lines
  BY DEF Newest
<1> HIDE DEF text, from, lines, newest, bound, read
<1>9. \A l \in lines : Record(text, l).offset = l[1] /\ l[1] \in Nat
  BY <1>1, <1>2, <1>6 DEF Record
<1>10. ASSUME NEW set \in SUBSET lines
       PROVE  LET records == {Record(text, l) : l \in set} IN
              IsFiniteSet(records) /\ Cardinality(records) = Cardinality(set)
  <2> DEFINE f == [l \in set |-> Record(text, l)]
             records == {Record(text, l) : l \in set}
  <2>1. IsFiniteSet(set)
    BY <1>6, FS_Subset
  <2>2. f \in Bijection(set, records)
    <3>1. \A l, m \in set : f[l] = f[m] => l = m
      BY <1>6, <1>9
    <3>2. f \in [set -> records] /\ \A r \in records : \E l \in set : f[l] = r
      OBVIOUS
    <3> HIDE DEF f, records
    <3> QED
      BY <3>1, <3>2 DEF Bijection, Injection, Surjection, IsInjective
  <2> HIDE DEF f, records
  <2>3. IsFiniteSet(records) /\ Cardinality(records) = Cardinality(set)
    BY <2>1, <2>2, FS_Bijection DEF ExistsBijection
  <2> QED
    BY <2>3 DEF records
<1>11. Dated(bound)
  <2>1. IsFiniteSet(bound)
    BY <1>4, <1>10
  <2>2. \A r \in bound : r.offset \in Nat
    BY <1>4, <1>9
  <2>3. ASSUME NEW q \in bound, NEW r \in bound, q.offset = r.offset
        PROVE  q = r
    <3>1. PICK l \in lines, m \in lines : q = Record(text, l) /\ r = Record(text, m)
      BY <1>4
    <3> QED
      BY <1>6, <1>9, <2>3, <3>1
  <2> QED
    BY <2>1, <2>2, <2>3 DEF Dated
<1>12. IsNewest(read, bound)
  <2>1. read \subseteq bound
    BY <1>4, <1>5, <1>8
  <2>2. ASSUME NEW r \in read, NEW q \in bound, q.offset > r.offset
        PROVE  q \in read
    <3>1. PICK l \in newest : r = Record(text, l)
      BY <1>5
    <3>2. PICK m \in lines : q = Record(text, m)
      BY <1>4
    <3>3. m[1] > l[1]
      BY <1>8, <1>9, <2>2, <3>1, <3>2
    <3> QED
      BY <1>5, <1>7, <3>2, <3>3
  <2> QED
    BY <2>1, <2>2 DEF IsNewest
<1>13. ASSUME read # bound
       PROVE  Cardinality(read) = MaxEvents
  <2>1. newest # lines
    BY <1>4, <1>5, <1>13
  <2>2. Cardinality(read) = Cardinality(newest)
    BY <1>5, <1>8, <1>10
  <2> QED
    BY <1>7, <2>1, <2>2
<1> QED
  BY <1>11, <1>12, <1>13 DEF bound, read, text

-----------------------------------------------------------------------------
(* What is known of a job                                                  *)

(* The text has the bytes the job was built of.                            *)
SameWindow(job, text) ==
  /\ job.end <= Len(text)
  /\ \A i \in job.start + 1 .. job.end : text[i] = job.source[i]

(* What was read is what there was to read then, and not nothing.          *)
Evidenced(known, sent, job) ==
  /\ known = Fitted(EvidenceRecords(job.source, job.start, job.end, MaxBytes,
                                    MaxEvents))
  /\ sent = Budgeted(known)
  /\ sent # {}

(* Between the hash of a window and its reading the window is the job's,   *)
(* and what was read of it stays until it is staged.                       *)
EvidenceOf(c) ==
  /\ work[c].step = "checked" /\ ~work[c].torn => SameWindow(inHand[c], transcript)
  /\ work[c].verdict # "open" => work[c].step = "answered"
  /\ (work[c].step = "asked" \/ work[c].verdict = "candidate") /\ ~work[c].torn
       => Evidenced(work[c].known, work[c].sent, inHand[c])

(* ... of every consumer.                                                  *)
EvidenceInv == \A c \in Consumers : EvidenceOf(c)

(* The staged candidates are those that were staged, with what was known.  *)
ArtifactInv ==
  /\ {<<a.key, a.by>> : a \in artifacts} = staged
  /\ \A a \in artifacts :
       a.torn \/ (a.known # {} /\ a.known \subseteq Bound(a.job))

(* Types of the skill files.                                               *)
RestTypes == skills \in SkillStates /\ edits \in 0 .. MaxEdits

(* A consumer at work has a job.                                           *)
LEMMA WorkersHoldJobs ==
  ASSUME WorkTypes, JobsInv, NEW c \in Consumers, work[c].step # "none"
  PROVE  /\ Standing(inHand[c], transcript, replacements)
         /\ IsJob(inHand[c])
         /\ pc[c] \in AtWork
<1>1. pc[c] \in AtWork /\ c \in Procs
  BY DEF WorkTypes, WorkType, Procs
<1>2. inHand[c] # NoJob
  BY <1>1 DEF JobsInv, Holding
<1> QED
  BY <1>1, <1>2 DEF JobsInv, Stands, Standing

(* A window whose transcript was only appended to is the one that was      *)
(* hashed.                                                                 *)
LEMMA ExtendedWindowStands ==
  ASSUME TextTypes, NEW job, Standing(job, transcript, replacements),
         job.edition = replacements, job.hashed
  PROVE  WindowStands(job)
<1>1. /\ job.start \in Nat /\ job.end \in Nat /\ job.end = Len(job.source)
      /\ job.source \in Seq(Bytes) /\ transcript \in Seq(Bytes)
      /\ Len(job.source) <= Len(transcript)
      /\ \A i \in 1 .. Len(job.source) : transcript[i] = job.source[i]
  BY DEF TextTypes, Standing, IsJob, Extended
<1>2. WindowBytes(transcript, job) = WindowBytes(job.source, job)
  <2> DEFINE first == job.start + 1
             last == job.end
             text == job.source
  <2>1. /\ first \in Int /\ last \in Int
        /\ \A i \in first .. last :
             text[i] \in Bytes /\ transcript[i] = text[i]
    BY <1>1
  <2>2. /\ WindowBytes(transcript, job) = SubSeq(transcript, first, last)
        /\ WindowBytes(job.source, job) = SubSeq(text, first, last)
    BY Zenon DEF WindowBytes
  <2> HIDE DEF first, last, text
  <2>3. SubSeq(transcript, first, last) = SubSeq(text, first, last)
    BY <2>1, SameBytes
  <2> QED
    BY <2>2, <2>3
<1> QED
  BY <1>1, <1>2 DEF WindowStands

(* A window that stands has the bytes of the job's.                        *)
LEMMA StandingWindow ==
  ASSUME TextTypes, NEW job, IsJob(job), WindowStands(job)
  PROVE  SameWindow(job, transcript)
<1> DEFINE text == job.source
           first == job.start + 1
           last == job.end
<1>1. /\ text \in Seq(Bytes) /\ transcript \in Seq(Bytes)
      /\ first \in Nat \ {0} /\ last \in Nat
      /\ last <= Len(text) /\ last <= Len(transcript)
  BY DEF TextTypes, IsJob, WindowStands
<1>2. SubSeq(transcript, first, last) = SubSeq(text, first, last)
  BY DEF WindowStands, WindowBytes
<1>3. \A i \in first .. last : transcript[i] = text[i]
  <2> HIDE DEF text, first, last
  <2> QED
    BY <1>1, <1>2, SamePieces
<1> QED
  BY <1>1, <1>3 DEF SameWindow

(* It keeps them while the transcript grows.                               *)
LEMMA WindowGrows ==
  ASSUME TextTypes, UNCHANGED sourceVars \/ TranscriptGrows,
         NEW job, IsJob(job), SameWindow(job, transcript)
  PROVE  SameWindow(job, transcript')
<1>1. CASE UNCHANGED sourceVars
  BY <1>1 DEF sourceVars
<1>2. CASE TranscriptGrows
  <2>1. Extended(transcript, transcript') /\ transcript' \in Seq(Bytes)
    BY <1>2, GrownExtends
  <2>2. /\ job.start \in Nat /\ job.end \in Nat /\ Len(transcript) \in Nat
        /\ Len(transcript') \in Nat
    BY <2>1 DEF IsJob, TextTypes
  <2> QED
    BY <2>1, <2>2 DEF SameWindow, Extended
<1> QED
  BY <1>1, <1>2

(* What is read of such a window is what would have been read of it when   *)
(* the job was built.                                                      *)
LEMMA EvidenceOfWindow ==
  ASSUME TextTypes, NEW job, IsJob(job), SameWindow(job, transcript)
  PROVE  EvidenceRecords(transcript, job.start, job.end, MaxBytes, MaxEvents)
           = EvidenceRecords(job.source, job.start, job.end, MaxBytes, MaxEvents)
<1> DEFINE text == job.source
           first == job.start
           last == job.end
<1>1. /\ text \in Seq(Bytes) /\ transcript \in Seq(Bytes)
      /\ first \in Nat /\ last \in Nat /\ first <= last
      /\ last <= Len(text) /\ last <= Len(transcript)
      /\ \A i \in first + 1 .. last : transcript[i] = text[i]
      /\ MaxBytes \in Nat
  BY ConsumerAssumption DEF TextTypes, IsJob, SameWindow
<1> HIDE DEF text, first, last
<1>2. EvidenceRecords(transcript, first, last, MaxBytes, MaxEvents)
        = EvidenceRecords(text, first, last, MaxBytes, MaxEvents)
  BY <1>1, SameEvidence
<1> QED
  BY <1>2 DEF text, first, last

(* So what it is known by is bound to it.                                  *)
LEMMA EvidenceIsBound ==
  ASSUME NEW job, IsJob(job), NEW known, NEW sent, Evidenced(known, sent, job)
  PROVE  /\ sent # {} /\ known # {} /\ known \subseteq Bound(job)
         /\ IsNewest(sent, Bound(job))
         /\ \A q \in Bound(job) \ sent :
              \/ Cardinality(sent) = MaxEvents
              \/ SizeOf(From(Bound(job), q)) > MaxChars
              \/ RequestOverhead + SizeOf(From(Bound(job), q)) > MaxRequest
<1> DEFINE bound == Bound(job)
           read == EvidenceRecords(job.source, job.start, job.end, MaxBytes,
                                   MaxEvents)
<1>1. /\ Dated(bound)
      /\ IsNewest(read, bound)
      /\ read # bound => Cardinality(read) = MaxEvents
  BY ReadIsNewest
<1>2. known = Fitted(read) /\ sent = Budgeted(known) /\ sent # {}
  BY DEF Evidenced
<1> HIDE DEF bound, read
<1>3. /\ known \subseteq bound
      /\ IsNewest(sent, bound)
      /\ \A q \in bound \ sent :
           \/ Cardinality(sent) = MaxEvents
           \/ SizeOf(From(bound, q)) > MaxChars
           \/ RequestOverhead + SizeOf(From(bound, q)) > MaxRequest
  BY <1>1, <1>2, RequestIsNewest
<1>4. sent \subseteq known
  BY <1>2 DEF Budgeted
<1> QED
  BY <1>2, <1>3, <1>4 DEF bound

(* Evidence stays evidence.                                                *)
LEMMA EvidenceStep ==
  ASSUME TypeOK, WorkTypes, TextTypes, JobsInv, EvidenceInv,
         [ConsumerNext]_allVars
  PROVE  EvidenceInv'
<1>1. \A c \in Consumers : c \in Procs
  BY DEF Procs
<1>2. NoWork.step = "none" /\ NoWork.verdict = "open"
  BY DEF NoWork
<1>3. ASSUME NEW c \in Consumers, work'[c] = work[c], inHand'[c] = inHand[c],
             UNCHANGED sourceVars \/ TranscriptGrows
      PROVE  EvidenceOf(c)'
  <2>1. EvidenceOf(c)
    BY DEF EvidenceInv
  <2>2. ASSUME work[c].step = "checked", ~work[c].torn
        PROVE  SameWindow(inHand[c], transcript')
    <3>1. IsJob(inHand[c]) /\ SameWindow(inHand[c], transcript)
      BY <2>1, <2>2, WorkersHoldJobs DEF EvidenceOf
    <3> QED
      BY <1>3, <3>1, WindowGrows
  <2> QED
    BY <1>3, <2>1, <2>2 DEF EvidenceOf
<1>4. ASSUME NEW c \in Consumers,
             (work'[c].step \in {"none", "leased"} /\ work'[c].verdict = "open")
               \/ (work'[c].step = "answered" /\ work'[c].verdict # "candidate")
      PROVE  EvidenceOf(c)'
  BY <1>4 DEF EvidenceOf
<1>5. CASE Keeping
  <2>1. TakesNoJob /\ KeepWork
    BY <1>5, KeepingSteps
  <2>2. UNCHANGED sourceVars
    BY <1>5 DEF Keeping, SpoolStep, WritesJob, StagesAnswer, SettlesJob,
                CannotSettle, GivesBack
  <2>3. ASSUME NEW c \in Consumers
        PROVE  EvidenceOf(c)'
    <3>1. CASE pc'[c] \in AtWork
      <4>1. work'[c] = work[c] /\ inHand'[c] = inHand[c]
        BY <1>1, <2>1, <3>1 DEF KeepWork, Holding
      <4> QED
        BY <1>3, <2>2, <4>1
    <3>2. CASE pc'[c] \notin AtWork
      <4>1. work'[c] = NoWork
        BY <2>1, <3>2 DEF KeepWork
      <4> QED
        BY <1>2, <1>4, <4>1
    <3> QED
      BY <3>1, <3>2
  <2> QED
    BY <2>3 DEF EvidenceInv
<1>6. ASSUME NEW h \in Hooks, NEW j \in Jobs, BuildsJob(h, j)
      PROVE  EvidenceInv'
  <2>1. \A c \in Consumers : c # h
    BY SpoolAssumption
  <2>2. /\ UNCHANGED work /\ (UNCHANGED sourceVars \/ TranscriptGrows)
        /\ \A c \in Consumers : inHand'[c] = inHand[c]
    BY <1>1, <1>6, <2>1 DEF BuildsJob, JobsInv
  <2> QED
    BY <1>3, <2>2 DEF EvidenceInv
<1>7. ASSUME NEW c \in Consumers, NEW j \in Jobs, LoadsWindow(c, j)
      PROVE  EvidenceInv'
  <2>1. pc[c] = "idle"
    BY <1>7 DEF LoadsWindow, BeginLease
  <2>2. work[c].step = "none" /\ work[c].verdict = "open"
    BY <2>1 DEF WorkTypes, WorkType, AtWork, EvidenceInv, EvidenceOf
  <2>3. /\ UNCHANGED <<work, sourceVars>>
        /\ \A d \in Consumers \ {c} : inHand'[d] = inHand[d]
    BY <1>1, <1>7 DEF LoadsWindow, JobsInv
  <2>4. EvidenceOf(c)'
    BY <1>4, <2>2, <2>3
  <2> QED
    BY <1>3, <2>3, <2>4 DEF EvidenceInv
<1>8. ASSUME NEW c \in Consumers, LeasesJob(c)
      PROVE  EvidenceInv'
  <2>1. /\ work'[c].step = "leased" /\ work'[c].verdict = "open"
        /\ \A d \in Consumers \ {c} : work'[d] = work[d]
        /\ inHand' = inHand
    BY <1>8, Leased
  <2>2. UNCHANGED sourceVars
    BY <1>8 DEF LeasesJob
  <2> QED
    BY <1>3, <1>4, <2>1, <2>2 DEF EvidenceInv
<1>9. ASSUME NEW c \in Consumers, ChecksWindow(c)
      PROVE  EvidenceInv'
  <2>1. UNCHANGED sourceVars \/ TranscriptGrows
    BY <1>9 DEF ChecksWindow
  <2>2. work[c].step = "leased"
    BY <1>9 DEF ChecksWindow
  <2>3. CASE WindowStands(inHand[c])
             /\ Works(c, [work[c] EXCEPT !.step = "checked"])
    <3>1. /\ work'[c].step = "checked"
          /\ work'[c].verdict = work[c].verdict
          /\ \A d \in Consumers \ {c} : work'[d] = work[d]
          /\ inHand' = inHand
      BY <2>3, Checked
    <3>2. IsJob(inHand[c])
      BY <2>2, WorkersHoldJobs
    <3>3. SameWindow(inHand[c], transcript')
      BY <2>1, <2>3, <3>2, StandingWindow, WindowGrows
    <3>4. work[c].verdict = "open"
      BY <2>2 DEF EvidenceInv, EvidenceOf
    <3>5. EvidenceOf(c)'
      BY <3>1, <3>3, <3>4 DEF EvidenceOf
    <3> QED
      BY <1>3, <2>1, <3>1, <3>5 DEF EvidenceInv
  <2>4. CASE Settles(c, "unbound")
    <3>1. /\ work'[c].step = "answered"
          /\ work'[c].verdict = "unbound"
          /\ \A d \in Consumers \ {c} : work'[d] = work[d]
          /\ inHand' = inHand
      BY <2>4, Settlement
    <3> QED
      BY <1>3, <1>4, <2>1, <3>1 DEF EvidenceInv
  <2>5. CASE Works(c, [NoWork EXCEPT !.step = "answered", !.verdict = "unbound",
                                     !.grown = TRUE])
    <3>1. /\ work'[c].step = "answered"
          /\ work'[c].verdict = "unbound"
          /\ \A d \in Consumers \ {c} : work'[d] = work[d]
          /\ inHand' = inHand
      BY <2>5, GrownAway
    <3> QED
      BY <1>3, <1>4, <2>1, <3>1 DEF EvidenceInv
  <2> QED
    BY <1>9, <2>3, <2>4, <2>5 DEF ChecksWindow, JobOf
<1>10. ASSUME NEW c \in Consumers, AsksRunner(c)
       PROVE  EvidenceInv'
  <2>1. UNCHANGED sourceVars /\ work[c].step = "checked"
    BY <1>10 DEF AsksRunner
  <2>2. /\ \A d \in Consumers \ {c} : work'[d] = work[d]
        /\ inHand' = inHand
        /\ \/ work'[c].step = "answered" /\ work'[c].verdict \in {"noop", "invalid"}
           \/ /\ work'[c].step = "asked"
              /\ work'[c].verdict = work[c].verdict
              /\ work'[c].torn = work[c].torn
              /\ work'[c].known
                   = Fitted(EvidenceRecords(transcript, inHand[c].start,
                                            inHand[c].end, MaxBytes, MaxEvents))
              /\ work'[c].sent = Budgeted(work'[c].known)
              /\ work'[c].sent # {}
    BY <1>10, Asked
  <2>3. EvidenceOf(c)'
    <3>1. CASE work'[c].step = "answered" /\ work'[c].verdict \in {"noop", "invalid"}
      BY <1>4, <3>1
    <3>2. CASE work'[c].step = "asked"
      <4>1. work'[c].verdict = "open"
        BY <2>1, <2>2, <3>2 DEF EvidenceInv, EvidenceOf
      <4>2. ASSUME ~work'[c].torn
            PROVE  Evidenced(work'[c].known, work'[c].sent, inHand[c])
        <5>1. ~work[c].torn
          BY <2>2, <3>2, <4>2
        <5>2. SameWindow(inHand[c], transcript) /\ IsJob(inHand[c])
          BY <2>1, <5>1, WorkersHoldJobs DEF EvidenceInv, EvidenceOf
        <5> QED
          BY <2>2, <3>2, <5>2, EvidenceOfWindow DEF Evidenced
      <4> QED
        BY <2>2, <3>2, <4>1, <4>2 DEF EvidenceOf
    <3> QED
      BY <2>2, <3>1, <3>2
  <2> QED
    BY <1>3, <2>1, <2>2, <2>3 DEF EvidenceInv
<1>11. ASSUME NEW c \in Consumers, HearsRunner(c)
       PROVE  EvidenceInv'
  <2>1. UNCHANGED sourceVars /\ work[c].step = "asked"
    BY <1>11 DEF HearsRunner
  <2>2. PICK verdict : Settles(c, verdict)
    BY <1>11, Heard
  <2>3. /\ \A d \in Consumers \ {c} : work'[d] = work[d]
        /\ inHand' = inHand
        /\ work'[c].step = "answered"
        /\ work'[c].verdict = verdict
        /\ verdict = "candidate" => /\ work'[c].sent = work[c].sent
                                    /\ work'[c].known = work[c].known
                                    /\ work'[c].torn = work[c].torn
    BY <2>2, Settlement
  <2>4. EvidenceOf(c)'
    <3>1. CASE verdict = "candidate"
      BY <2>1, <2>3, <3>1 DEF EvidenceInv, EvidenceOf
    <3>2. CASE verdict # "candidate"
      BY <1>4, <2>3, <3>2
    <3> QED
      BY <3>1, <3>2
  <2> QED
    BY <1>3, <2>1, <2>3, <2>4 DEF EvidenceInv
<1>12. CASE Replaced
  <2>1. inHand' = inHand /\ work' = Torn
    BY <1>12 DEF Replaced
  <2>2. ASSUME NEW c \in Consumers
        PROVE  EvidenceOf(c)'
    <3>1. DOMAIN work[c] = DOMAIN NoWork /\ work[c].torn \in BOOLEAN
      BY DEF WorkTypes, WorkType
    <3>2. work'[c] = [work[c] EXCEPT !.torn = @ \/ work[c].step = "checked"]
      BY <2>1 DEF Torn
    <3>3. /\ work'[c].step = work[c].step
          /\ work'[c].verdict = work[c].verdict
          /\ work'[c].known = work[c].known
          /\ work'[c].sent = work[c].sent
      BY <3>1, <3>2 DEF NoWork
    <3>4. work'[c].torn = (work[c].torn \/ work[c].step = "checked")
      BY <3>1, <3>2 DEF NoWork
    <3> QED
      BY <2>1, <3>3, <3>4 DEF EvidenceInv, EvidenceOf
  <2> QED
    BY <2>2 DEF EvidenceInv
<1>13. CASE Grows \/ SkillWritten \/ UNCHANGED allVars
  <2>1. UNCHANGED <<work, inHand>> /\ (UNCHANGED sourceVars \/ TranscriptGrows)
    BY <1>13 DEF Grows, SkillWritten, allVars, extractorVars, workVars
  <2> QED
    BY <1>3, <2>1 DEF EvidenceInv
<1> QED
  BY <1>5, <1>6, <1>7, <1>8, <1>9, <1>10, <1>11, <1>12, <1>13, OtherSteps

(* Artifacts are only added, and with what they were staged from.          *)
LEMMA ArtifactStep ==
  ASSUME TypeOK, WorkTypes, JobsInv, EvidenceInv, ArtifactInv,
         [ConsumerNext]_allVars
  PROVE  ArtifactInv'
<1>1. ASSUME NEW c \in Consumers, StagesAnswer(c)
      PROVE  ArtifactInv'
  <2> DEFINE new == [key |-> arg[c], by |-> c, job |-> inHand[c],
                     known |-> work[c].known, torn |-> work[c].torn]
  <2>1. /\ staged' = staged \cup {<<arg[c], c>>}
        /\ work[c].verdict = "candidate"
        /\ artifacts' = artifacts \cup {new}
    BY <1>1 DEF StagesAnswer, StagesCandidate, JobOf
  <2>2. new.torn \/ (new.known # {} /\ new.known \subseteq Bound(new.job))
    <3>1. CASE ~work[c].torn
      <4>1. work[c].step = "answered"
        BY <2>1 DEF EvidenceInv, EvidenceOf
      <4>2. IsJob(inHand[c])
        BY <4>1, WorkersHoldJobs
      <4>3. Evidenced(work[c].known, work[c].sent, inHand[c])
        BY <2>1, <3>1 DEF EvidenceInv, EvidenceOf
      <4>4. work[c].known # {} /\ work[c].known \subseteq Bound(inHand[c])
        BY <4>2, <4>3, EvidenceIsBound
      <4> QED
        BY <4>4
    <3>2. CASE work[c].torn
      BY <3>2
    <3> QED
      BY <3>1, <3>2
  <2>3. new.key = arg[c] /\ new.by = c
    OBVIOUS
  <2> HIDE DEF new
  <2>4. {<<a.key, a.by>> : a \in artifacts'} = staged'
    BY <2>1, <2>3 DEF ArtifactInv
  <2> QED
    BY <2>1, <2>2, <2>4 DEF ArtifactInv
<1>2. CASE \A c \in Consumers : ~StagesAnswer(c)
  <2>1. UNCHANGED artifacts
    <3>1. ASSUME NEW c \in Consumers, Consumes(c)
          PROVE  UNCHANGED artifacts
      BY <1>2, <3>1 DEF Consumes, LoadsWindow, LeasesJob, ChecksWindow,
                    AsksRunner, HearsRunner, SettlesJob, CannotSettle, GivesBack
    <3>2. ASSUME NEW h \in Hooks, WritesJob(h) \/ \E j \in Jobs : BuildsJob(h, j)
          PROVE  UNCHANGED artifacts
      BY <3>2 DEF WritesJob, BuildsJob
    <3>3. CASE SpoolStep \/ Grows \/ Replaced \/ SkillWritten \/ UNCHANGED allVars
      BY <3>3 DEF SpoolStep, Grows, Replaced, SkillWritten, allVars,
                  extractorVars
    <3> QED
      BY <3>1, <3>2, <3>3 DEF ConsumerNext
  <2>2. UNCHANGED staged
    <3>1. CASE SpoolStep
      BY <3>1, SpoolStepStagesNothing
    <3>2. ASSUME NEW c \in Consumers, Consumes(c)
          PROVE  UNCHANGED staged
      BY <1>2, <3>2 DEF Consumes, LoadsWindow, BeginLease, LeasesJob, Leases,
                    ChecksWindow, AsksRunner, HearsRunner, SettlesJob, Finishes,
                    CannotSettle, FinishRefused, GivesBack, Releases, vars,
                    fileVars
    <3>3. ASSUME NEW h \in Hooks, WritesJob(h) \/ \E j \in Jobs : BuildsJob(h, j)
          PROVE  UNCHANGED staged
      BY <3>3 DEF WritesJob, LooksForJob, BuildsJob, BeginSubmit, fileVars
    <3>4. CASE Grows \/ Replaced \/ SkillWritten \/ UNCHANGED allVars
      BY <3>4 DEF Grows, Replaced, SkillWritten, allVars, vars, fileVars
    <3> QED
      BY <3>1, <3>2, <3>3, <3>4 DEF ConsumerNext
  <2> QED
    BY <2>1, <2>2 DEF ArtifactInv
<1> QED
  BY <1>1, <1>2

(* The rest keeps its types.                                               *)
LEMMA RestStep ==
  ASSUME RestTypes, [ConsumerNext]_allVars
  PROVE  RestTypes'
<1>1. CASE SkillWritten
  BY <1>1, ConsumerAssumption DEF SkillWritten, RestTypes
<1>2. ASSUME NEW c \in Consumers, Consumes(c)
      PROVE  UNCHANGED skillVars
  BY <1>2 DEF Consumes, LoadsWindow, LeasesJob, ChecksWindow, AsksRunner,
              HearsRunner, StagesAnswer, SettlesJob, CannotSettle, GivesBack
<1>3. ASSUME NEW h \in Hooks, WritesJob(h) \/ \E j \in Jobs : BuildsJob(h, j)
      PROVE  UNCHANGED skillVars
  BY <1>3 DEF WritesJob, BuildsJob
<1>4. CASE SpoolStep \/ Grows \/ Replaced \/ UNCHANGED allVars
  <2>1. UNCHANGED skillVars
    BY <1>4 DEF SpoolStep, Grows, Replaced, allVars, extractorVars, skillVars
  <2> QED
    BY <2>1 DEF skillVars, RestTypes
<1> QED
  BY <1>1, <1>2, <1>3, <1>4 DEF ConsumerNext, skillVars, RestTypes

(* A verdict that the window failed keeps its cause.                       *)
LEMMA VerdictStep ==
  ASSUME TypeOK, WorkTypes, TextTypes, JobsInv, EvidenceInv,
         WindowFailsForCause, [ConsumerNext]_allVars
  PROVE  WindowFailsForCause'
<1> DEFINE Cause(c) == \/ inHand[c].edition < replacements
                       \/ ~inHand[c].hashed
                       \/ work[c].grown
<1>1. NoWork.verdict = "open"
  BY DEF NoWork
<1>2. /\ replacements \in Nat /\ replacements' \in Nat
      /\ replacements' \in {replacements, replacements + 1}
  <2>1. replacements \in Nat
    BY ConsumerAssumption DEF TextTypes
  <2>2. replacements' \in {replacements, replacements + 1}
    BY <2>1, TranscriptMoves DEF TranscriptGrows, Replaced, sourceVars
  <2> QED
    BY <2>1, <2>2
<1>3. ASSUME NEW c \in Consumers, work'[c] = work[c], inHand'[c] = inHand[c],
             work'[c].verdict = "unbound"
      PROVE  \/ inHand'[c].edition < replacements'
             \/ ~inHand'[c].hashed
             \/ work'[c].grown
  <2>2. Cause(c)
    BY <1>3 DEF WindowFailsForCause
  <2>3. CASE inHand[c].edition < replacements
    <3>1. inHand[c].edition \in Int
      <4>1. c \in Procs
        BY DEF Procs
      <4>2. NoJob.edition = 0
        BY DEF NoJob
      <4> QED
        BY <4>1, <4>2 DEF JobsInv, Stands, Standing, IsJob
    <3>2. inHand[c].edition < replacements'
      BY <1>2, <2>3, <3>1
    <3> QED
      BY <1>3, <3>2
  <2>4. CASE ~inHand[c].hashed \/ work[c].grown
    BY <1>3, <2>4
  <2> QED
    BY <2>2, <2>3, <2>4
<1> SUFFICES ASSUME NEW c \in Consumers, work'[c].verdict = "unbound"
             PROVE  \/ inHand'[c].edition < replacements'
                    \/ ~inHand'[c].hashed
                    \/ work'[c].grown
  BY DEF WindowFailsForCause
<1>4. c \in Procs
  BY DEF Procs
<1>5. CASE Keeping
  <2>1. TakesNoJob /\ KeepWork
    BY <1>5, KeepingSteps
  <2>2. pc'[c] \in AtWork
    BY <1>1, <2>1 DEF KeepWork
  <2>3. work'[c] = work[c] /\ inHand'[c] = inHand[c]
    BY <1>4, <2>1, <2>2 DEF KeepWork, Holding
  <2> QED
    BY <1>3, <2>3
<1>6. ASSUME NEW h \in Hooks, NEW j \in Jobs, BuildsJob(h, j)
      PROVE  work'[c] = work[c] /\ inHand'[c] = inHand[c]
  <2>1. c # h
    BY SpoolAssumption
  <2> QED
    BY <1>4, <1>6, <2>1 DEF BuildsJob, JobsInv
<1>7. ASSUME NEW d \in Consumers, NEW j \in Jobs, LoadsWindow(d, j)
      PROVE  work'[c] = work[c] /\ inHand'[c] = inHand[c]
  <2>1. /\ UNCHANGED work
        /\ inHand' = [inHand EXCEPT ![d] = onFile[j]]
        /\ pc[d] = "idle"
    BY <1>7 DEF LoadsWindow, BeginLease
  <2>2. c # d
    BY <2>1 DEF WorkTypes, WorkType, AtWork, EvidenceInv, EvidenceOf
  <2> QED
    BY <1>4, <2>1, <2>2 DEF JobsInv
<1>8. ASSUME NEW d \in Consumers, LeasesJob(d)
      PROVE  work'[c] = work[c] /\ inHand'[c] = inHand[c]
  BY <1>8, Leased
<1>9. ASSUME NEW d \in Consumers, ChecksWindow(d)
      PROVE  \/ work'[c] = work[c] /\ inHand'[c] = inHand[c]
             \/ c = d /\ work'[c].verdict = work[c].verdict
                      /\ work[c].step = "leased"
             \/ c = d /\ inHand'[c] = inHand[c] /\ ~WindowStands(inHand[c])
             \/ work'[c].grown
  <2>1. CASE ~WindowStands(inHand[d]) /\ Settles(d, "unbound")
    BY <2>1, Settlement
  <2>2. CASE Works(d, [work[d] EXCEPT !.step = "checked"])
    <3>1. work[d].step = "leased"
      BY <1>9 DEF ChecksWindow
    <3> QED
      BY <2>2, <3>1, Checked
  <2>3. CASE Works(d, [NoWork EXCEPT !.step = "answered", !.verdict = "unbound",
                                     !.grown = TRUE])
    BY <2>3, GrownAway
  <2> QED
    BY <1>9, <2>1, <2>2, <2>3 DEF ChecksWindow, JobOf
<1>10. ASSUME ~WindowStands(inHand[c]), inHand'[c] = inHand[c],
              work[c].step # "none"
       PROVE  inHand'[c].edition < replacements' \/ ~inHand'[c].hashed
  <2>1. Standing(inHand[c], transcript, replacements)
    BY <1>10, WorkersHoldJobs
  <2>2. inHand[c].edition \in Nat /\ inHand[c].edition <= replacements
    BY <2>1 DEF Standing, IsJob
  <2>3. inHand[c].edition # replacements \/ ~inHand[c].hashed
    BY <1>10, <2>1, ExtendedWindowStands
  <2> QED
    BY <1>2, <1>10, <2>2, <2>3
<1>11. ASSUME NEW d \in Consumers, ChecksWindow(d)
       PROVE  \/ inHand'[c].edition < replacements'
              \/ ~inHand'[c].hashed
              \/ work'[c].grown
  <2>1. work[d].step = "leased"
    BY <1>11 DEF ChecksWindow
  <2>2. ~(work'[c].verdict = work[c].verdict /\ work[c].step = "leased")
    BY DEF EvidenceInv, EvidenceOf
  <2> QED
    BY <1>3, <1>9, <1>10, <1>11, <2>1, <2>2
<1>12. ASSUME NEW d \in Consumers, AsksRunner(d) \/ HearsRunner(d)
       PROVE  work'[c] = work[c] /\ inHand'[c] = inHand[c]
  <2>1. work[d].step \in {"checked", "asked"}
    BY <1>12 DEF AsksRunner, HearsRunner
  <2>2. work[d].verdict = "open"
    BY <2>1 DEF EvidenceInv, EvidenceOf
  <2>3. CASE AsksRunner(d)
    BY <2>2, <2>3, Asked
  <2>4. CASE HearsRunner(d)
    <3>1. PICK verdict \in {"noop", "candidate", "invalid", "retry"} :
            Settles(d, verdict)
      BY <2>4, Heard
    <3> QED
      BY <3>1, Settlement
  <2> QED
    BY <1>12, <2>3, <2>4
<1>13. CASE Replaced
  <2>1. inHand' = inHand /\ work' = Torn /\ replacements' = replacements + 1
    BY <1>13 DEF Replaced
  <2>2. work'[c] = [work[c] EXCEPT !.torn = @ \/ work[c].step = "checked"]
    BY <2>1 DEF Torn
  <2>3. DOMAIN work[c] = DOMAIN NoWork
    BY DEF WorkTypes, WorkType
  <2>4. work'[c].verdict = work[c].verdict
    BY <2>2, <2>3 DEF NoWork
  <2>5. work[c].step # "none"
    BY <2>4 DEF EvidenceInv, EvidenceOf
  <2>6. inHand[c].edition \in Nat /\ inHand[c].edition <= replacements
    BY <2>5, WorkersHoldJobs DEF Standing, IsJob
  <2> QED
    BY <1>2, <2>1, <2>6
<1>14. CASE Grows \/ SkillWritten \/ UNCHANGED allVars
  BY <1>3, <1>14 DEF Grows, SkillWritten, allVars, extractorVars, workVars
<1> QED
  BY <1>3, <1>5, <1>6, <1>7, <1>8, <1>11, <1>12, <1>13, <1>14, OtherSteps

-----------------------------------------------------------------------------
(* The invariant                                                           *)

(* What every state of the consumer has.                                   *)
ConsumerInv ==
  /\ TypeOK
  /\ WorkTypes
  /\ TextTypes
  /\ RestTypes
  /\ JobsInv
  /\ EvidenceInv
  /\ ArtifactInv
  /\ WindowFailsForCause

(* The first state has it.                                                 *)
LEMMA ConsumerInvInit == ConsumerInit => ConsumerInv
<1> SUFFICES ASSUME ConsumerInit
             PROVE  ConsumerInv
  OBVIOUS
<1>1. TypeOK
  BY TypesInit DEF ConsumerInit
<1>2. WorkTypes
  BY DEF ConsumerInit, Init, WorkTypes, WorkType, NoWork, Steps, Verdicts,
         SkillStates, AtWork, Procs
<1>3. TextTypes
  BY TextsAreBytes, ConsumerAssumption DEF ConsumerInit, TextTypes
<1>4. RestTypes
  BY ConsumerAssumption DEF ConsumerInit, RestTypes, SkillStates
<1>5. JobsInv
  BY DEF ConsumerInit, Init, JobsInv, Stands, Holding, AtWork
<1>6. EvidenceInv
  BY DEF ConsumerInit, EvidenceInv, EvidenceOf, NoWork
<1>7. ArtifactInv
  BY DEF ConsumerInit, Init, ArtifactInv
<1>8. WindowFailsForCause
  BY DEF ConsumerInit, WindowFailsForCause, NoWork
<1> QED
  BY <1>1, <1>2, <1>3, <1>4, <1>5, <1>6, <1>7, <1>8 DEF ConsumerInv

(* Every step keeps it.                                                    *)
LEMMA ConsumerInvStep ==
  ConsumerInv /\ [ConsumerNext]_allVars => ConsumerInv'
<1> SUFFICES ASSUME ConsumerInv, [ConsumerNext]_allVars
             PROVE  ConsumerInv'
  OBVIOUS
<1>1. TypeOK'
  BY ConsumerStepsInSpool, TypesNext DEF ConsumerInv
<1>2. WorkTypes'
  BY WorkTypesStep DEF ConsumerInv, RestTypes
<1>3. TextTypes'
  BY TextTypesStep DEF ConsumerInv
<1>4. RestTypes'
  BY RestStep DEF ConsumerInv
<1>5. JobsInv'
  BY JobsStep DEF ConsumerInv
<1>6. EvidenceInv'
  BY EvidenceStep DEF ConsumerInv
<1>7. ArtifactInv'
  BY ArtifactStep DEF ConsumerInv
<1>8. WindowFailsForCause'
  BY VerdictStep DEF ConsumerInv
<1> QED
  BY <1>1, <1>2, <1>3, <1>4, <1>5, <1>6, <1>7, <1>8 DEF ConsumerInv

(* So every reachable state has it.                                        *)
LEMMA ConsumerAlways == ConsumerSpec => []ConsumerInv
BY ConsumerInvInit, ConsumerInvStep, PTL DEF ConsumerSpec

-----------------------------------------------------------------------------
(* Theorems                                                                *)

(* Every variable keeps its type, exactly the processes that have a job in *)
(* hand hold one, and what is staged are the artifacts.                    *)
THEOREM ConsumerTypeCorrect == ConsumerSpec => []ConsumerTypeOK
<1> SUFFICES ASSUME ConsumerInv
             PROVE  ConsumerTypeOK
  BY ConsumerAlways, PTL
<1>1. \A j \in jobFile : onFile[j].start \in Nat /\ onFile[j].end \in Nat
  BY DEF ConsumerInv, TypeOK, JobsInv, Stands, Standing, IsJob
<1>2. DOMAIN transcript = 1 .. Len(transcript)
  BY DEF ConsumerInv, TextTypes
<1> QED
  BY <1>1, <1>2 DEF ConsumerInv, ConsumerTypeOK, WorkTypes, WorkType, TextTypes,
                    RestTypes, JobsInv, ArtifactInv

(* A runner sees the newest whole lines of the bytes its job was built of, *)
(* without a gap and as many as the limits leave room for, for any text    *)
(* and any limits, whatever is appended, replaced, pruned and built again  *)
(* meanwhile.                                                              *)
THEOREM NewestEvidenceRead == ConsumerSpec => []NewestEvidence
<1> SUFFICES ASSUME ConsumerInv
             PROVE  NewestEvidence
  BY ConsumerAlways, PTL
<1> SUFFICES ASSUME NEW c \in Consumers, work[c].step = "asked", ~work[c].torn
             PROVE  LET bound == Bound(inHand[c])
                        sent == work[c].sent
                    IN /\ sent # {} /\ sent \subseteq bound
                       /\ \A r \in sent, q \in bound :
                            q.offset > r.offset => q \in sent
                       /\ \A q \in bound \ sent :
                            \/ Cardinality(sent) = MaxEvents
                            \/ SizeOf(From(bound, q)) > MaxChars
                            \/ RequestOverhead + SizeOf(From(bound, q))
                                  > MaxRequest
  BY DEF NewestEvidence
<1>1. IsJob(inHand[c])
  BY WorkersHoldJobs DEF ConsumerInv
<1>2. Evidenced(work[c].known, work[c].sent, inHand[c])
  BY DEF ConsumerInv, EvidenceInv, EvidenceOf
<1> QED
  BY <1>1, <1>2, EvidenceIsBound DEF IsNewest

(* Whatever a receipt offers for review was staged from lines of the bytes *)
(* some job of that key was built of, unless the transcript was replaced   *)
(* at the one moment between the hash of a window and its reading.         *)
THEOREM CandidatesStayBound == ConsumerSpec => []CandidatesAreBound
<1>1. ASSUME ConsumerInv, CandidatesStaged
      PROVE  CandidatesAreBound
  <2> SUFFICES ASSUME NEW j \in Jobs, NEW c \in receipt[j].candidates
               PROVE  LET staging == {a \in artifacts : a.key = j /\ a.by = c}
                      IN /\ staging # {}
                         /\ \A a \in staging :
                              a.torn \/ (a.known # {} /\ a.known \subseteq Bound(a.job))
    BY DEF CandidatesAreBound
  <2>1. <<j, c>> \in staged
    BY <1>1 DEF CandidatesStaged
  <2>2. PICK a \in artifacts : <<a.key, a.by>> = <<j, c>>
    BY <1>1, <2>1 DEF ConsumerInv, ArtifactInv
  <2>3. a.key = j /\ a.by = c
    BY <2>2
  <2> QED
    BY <1>1, <2>3 DEF ConsumerInv, ArtifactInv
<1>2. ConsumerSpec => []CandidatesStaged
  BY ConsumerImplementsSpool, CandidatesAlwaysStaged, PTL
<1> QED
  BY <1>1, <1>2, ConsumerAlways, PTL

(* A consumer only gives a job up for its window when the transcript was   *)
(* replaced since the job was built, or grew at the very moment of a hash, *)
(* however many consumers, appends, crashes and takeovers there are.       *)
THEOREM WindowsFailForCause == ConsumerSpec => []WindowFailsForCause
<1>1. ConsumerInv => WindowFailsForCause
  BY DEF ConsumerInv
<1> QED
  BY <1>1, ConsumerAlways, PTL

(* A run that leaves another skill file behind is neither believed nor     *)
(* repeated, whatever the runner answers.                                  *)
THEOREM ModifiedSkillsAlwaysFail == ConsumerSpec => ModifiedSkillsFail
<1>1. ASSUME TypeOK, WorkTypes, [ConsumerNext]_allVars, NEW c \in Consumers,
             work[c].step = "asked", work'[c].step = "answered",
             skills # work[c].skills
      PROVE  work'[c].verdict = "invalid"
  <2>1. CASE Keeping
    <3>1. work'[c] \in {work[c], NoWork}
      BY <1>1, <2>1, KeepingSteps DEF KeepWork
    <3> QED
      BY <1>1, <3>1 DEF NoWork
  <2>2. CASE UNCHANGED work
    BY <1>1, <2>2
  <2>3. CASE Replaced
    BY <1>1, <2>3 DEF Replaced, Torn, WorkTypes, WorkType, NoWork
  <2>4. ASSUME NEW d \in Consumers, LeasesJob(d)
        PROVE  FALSE
    BY <1>1, <2>4, Leased
  <2>5. ASSUME NEW d \in Consumers, ChecksWindow(d) \/ AsksRunner(d)
        PROVE  FALSE
    <3>1. work[d].step # "asked"
      BY <2>5 DEF ChecksWindow, AsksRunner
    <3>2. \A e \in Consumers \ {d} : work'[e] = work[e]
      BY <1>1, <2>5, Settlement DEF ChecksWindow, AsksRunner, Works, WorkTypes
    <3> QED
      BY <1>1, <3>1, <3>2
  <2>6. ASSUME NEW d \in Consumers, HearsRunner(d)
        PROVE  work'[c].verdict = "invalid"
    <3>1. PICK verdict \in {"noop", "candidate", "invalid", "retry"} :
            /\ Settles(d, verdict)
            /\ skills # work[d].skills => verdict = "invalid"
      BY <1>1, <2>6, Heard
    <3> QED
      BY <1>1, <3>1, Settlement
  <2>7. CASE \/ \E h \in Hooks, j \in Jobs : BuildsJob(h, j)
             \/ \E d \in Consumers, j \in Jobs : LoadsWindow(d, j)
             \/ Grows
             \/ SkillWritten
             \/ UNCHANGED allVars
    <3>1. UNCHANGED work
      BY <2>7 DEF BuildsJob, LoadsWindow, Grows, SkillWritten, allVars,
                  extractorVars, workVars
    <3> QED
      BY <2>2, <3>1
  <2> QED
    BY <1>1, <2>1, <2>3, <2>4, <2>5, <2>6, <2>7, OtherSteps
<1>2. TypeOK /\ WorkTypes /\ [ConsumerNext]_allVars
        => [\A c \in Consumers :
              /\ work[c].step = "asked" /\ work'[c].step = "answered"
              /\ skills # work[c].skills
              => work'[c].verdict = "invalid"]_allVars
  BY <1>1
<1>3. ConsumerInv => TypeOK /\ WorkTypes
  BY DEF ConsumerInv
<1> QED
  BY <1>2, <1>3, ConsumerAlways, PTL DEF ConsumerSpec, ModifiedSkillsFail

=============================================================================
