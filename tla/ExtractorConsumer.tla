------------------------- MODULE ExtractorConsumer -------------------------
(***************************************************************************)
(* The offline consumer of workflowhooker/extractor_consumer.py on top of  *)
(* the spool: what happens between the first look at a job and the receipt *)
(* that settles it. The consumer loads the job once and keeps it in memory *)
(* while it waits for the lease and works. It compares the job's window of *)
(* the transcript with the hash taken when the job was built, opens the    *)
(* transcript again and reads its newest lines, asks a runner that loads   *)
(* two skill files, looks at the skill files again and stages what the     *)
(* answer proposes.                                                        *)
(*                                                                         *)
(* Meanwhile the session appends to its transcript, somebody may replace   *)
(* the transcript or edit a skill, the lease may be lost, and the job file *)
(* may be pruned and built again. Every step is a step of CandidateSpool   *)
(* or leaves the spool alone.                                              *)
(***************************************************************************)
EXTENDS CandidateSpool, EvidenceWindow

CONSTANTS
  Transcripts,     \* the texts a transcript may begin as
  OtherTexts,      \* the texts it may be replaced by
  Appended,        \* a byte the session appends
  WindowStarts,    \* where the windows of jobs may begin
  MaxBytes,        \* max_evidence_bytes
  MaxEvents,       \* max_evidence_events
  MaxChars,        \* what is left of max_tokens_per_job for the evidence
  RequestOverhead, \* the size of a request without evidence
  MaxRequest,      \* the size of a request max_tokens_per_job allows
  MaxAppends,      \* bound: how often the transcript grows
  MaxReplacements, \* bound: how often it is replaced
  MaxEdits         \* bound: how often a skill file is written

ASSUME ConsumerAssumption ==
  /\ \A text \in Transcripts \cup OtherTexts :
       text \in Seq({text[i] : i \in DOMAIN text})
  /\ WindowStarts \subseteq Nat
  /\ MaxBytes \in Nat \ {0}
  /\ MaxEvents \in Nat \ {0}
  /\ MaxChars \in Nat
  /\ RequestOverhead \in Nat
  /\ MaxRequest \in Nat
  /\ MaxAppends \in Nat
  /\ MaxReplacements \in Nat
  /\ MaxEdits \in Nat

VARIABLES
  transcript,   \* the file at source_anchor
  onFile,       \* what each job file says of its window
  inHand,       \* the job each process has in memory
  skills,       \* the canonical skill files
  work,         \* how far each consumer is with its job
  artifacts,    \* the candidates that were staged
  appends,      \* appends so far
  replacements, \* replacements so far
  edits         \* writes of a skill file so far

sourceVars == <<transcript, appends, replacements>>
skillVars == <<skills, edits>>
workVars == <<inHand, work>>
extractorVars == <<sourceVars, onFile, skillVars, workVars, artifacts>>

allVars == <<vars, extractorVars>>

-----------------------------------------------------------------------------
(* State                                                                   *)

(* As the job's extractor_version pins them, the same version with other   *)
(* bytes, or another version.                                              *)
SkillStates == {"pinned", "edited", "other"}

Steps == {"none", "leased", "checked", "asked", "answered"}

(* What consume is about to ask the spool for. "unbound" is a failure for  *)
(* the window, "invalid" one for anything else.                            *)
Verdicts == {"open", "noop", "candidate", "unbound", "invalid", "retry"}

(* torn and grown are histories: the transcript was replaced between the   *)
(* hash of the window and its reading, or grew while it was hashed.        *)
NoWork == [step |-> "none", verdict |-> "open", sent |-> {}, known |-> {},
           skills |-> "pinned", torn |-> FALSE, grown |-> FALSE]

(* A job: source_window_start and source_window_end, whether it has a      *)
(* source_window_content_hash, the transcript this is a hash of, and, as a *)
(* history, how often it had been replaced by then.                        *)
NewJob(start, hashed) ==
  [start |-> start, end |-> Len(transcript), hashed |-> hashed,
   source |-> transcript, edition |-> replacements]

NoJob == [start |-> 0, end |-> -1, hashed |-> FALSE, source |-> <<>>,
          edition |-> 0]

(* A hook has a job in memory until it has looked for the job file, a      *)
(* consumer from its first look at the job to the receipt.                 *)
Holding == {"looking", "checkingJob", "leasing"} \cup AtWork

ConsumerTypeOK ==
  /\ DOMAIN transcript = 1 .. Len(transcript)
  /\ DOMAIN onFile = Jobs
  /\ \A j \in jobFile : onFile[j].start \in Nat /\ onFile[j].end \in Nat
  /\ \A p \in Procs : inHand[p] = NoJob <=> pc[p] \notin Holding
  /\ skills \in SkillStates
  /\ \A c \in Consumers :
       /\ DOMAIN work[c] = DOMAIN NoWork
       /\ work[c].step \in Steps
       /\ work[c].verdict \in Verdicts
       /\ work[c].skills \in SkillStates \ {"other"}
       /\ work[c].torn \in BOOLEAN
       /\ work[c].grown \in BOOLEAN
       /\ work[c].step = "none" <=> pc[c] \notin AtWork
  /\ {<<a.key, a.by>> : a \in artifacts} = staged
  /\ appends \in 0 .. MaxAppends
  /\ replacements \in 0 .. MaxReplacements
  /\ edits \in 0 .. MaxEdits

ConsumerInit ==
  /\ Init
  /\ transcript \in Transcripts
  /\ onFile = [j \in Jobs |-> NoJob]
  /\ inHand = [p \in Procs |-> NoJob]
  /\ skills = "pinned"
  /\ work = [c \in Consumers |-> NoWork]
  /\ artifacts = {}
  /\ appends = 0
  /\ replacements = 0
  /\ edits = 0

(* Mutant: what was read for one job is still there for the next.          *)
KeepAllWork == UNCHANGED workVars

(* A process that is done with a job has forgotten what it had of it.      *)
KeepWork ==
  /\ work' = [c \in Consumers |-> IF pc'[c] \in AtWork THEN work[c] ELSE NoWork]
  /\ inHand' = [p \in Procs |-> IF pc'[p] \in Holding THEN inHand[p] ELSE NoJob]

Works(c, progress) ==
  work' = [work EXCEPT ![c] = progress] /\ UNCHANGED inHand

(* Of the request only a candidate keeps anything.                         *)
Settles(c, verdict) ==
  Works(c, IF verdict = "candidate"
             THEN [work[c] EXCEPT !.step = "answered", !.verdict = verdict]
             ELSE [NoWork EXCEPT !.step = "answered", !.verdict = verdict])

-----------------------------------------------------------------------------
(* A job and its window                                                    *)

WindowBytes(text, job) == SubSeq(text, job.start + 1, job.end)

TranscriptGrows ==
  /\ appends < MaxAppends
  /\ appends' = appends + 1
  /\ transcript' = Append(transcript, Appended)
  /\ UNCHANGED replacements

(* A hook builds its job before it looks for one: the window goes up to    *)
(* the present end of the transcript. When the transcript grows while its  *)
(* bytes are hashed, the file's time changes and the hash is None.         *)
BuildsJob(h, j) ==
  /\ BeginSubmit(h, j)
  /\ \E start \in WindowStarts, hashed \in BOOLEAN :
       /\ start <= Len(transcript)
       /\ inHand' = [inHand EXCEPT ![h] = NewJob(start, hashed)]
       /\ IF hashed THEN UNCHANGED sourceVars ELSE TranscriptGrows
  /\ UNCHANGED <<onFile, skillVars, work, artifacts>>

(* A job file that is there stays as it is.                                *)
WritesJob(h) ==
  /\ LooksForJob(h)
  /\ onFile' = [onFile EXCEPT ![arg[h]] = IF arg[h] \in jobFile
                                            THEN @ ELSE inHand[h]]
  /\ KeepWork
  /\ UNCHANGED <<sourceVars, skillVars, artifacts>>

-----------------------------------------------------------------------------
(* Consuming it                                                            *)

(* The job is loaded before its receipt is looked at, and never again.     *)
LoadsWindow(c, j) ==
  /\ BeginLease(c, j)
  /\ j \in jobFile
  /\ inHand' = [inHand EXCEPT ![c] = onFile[j]]
  /\ UNCHANGED <<sourceVars, onFile, skillVars, work, artifacts>>

LeasesJob(c) ==
  /\ Leases(c)
  /\ Works(c, [NoWork EXCEPT !.step = "leased"])
  /\ UNCHANGED <<sourceVars, onFile, skillVars, artifacts>>

(* Not what is on file meanwhile.                                          *)
JobOf(c) == inHand[c]

(* Mutant: only the length of the transcript is looked at.                 *)
LengthStands(job) == job.hashed /\ job.end <= Len(transcript)

(* Mutant: a window that ends where the transcript ends is truncated.      *)
WindowStandsInside(job) ==
  /\ job.hashed
  /\ job.end < Len(transcript)
  /\ WindowBytes(transcript, job) = WindowBytes(job.source, job)

(* The transcript still has the bytes the job's content hash was taken of. *)
WindowStands(job) ==
  /\ job.hashed
  /\ job.end <= Len(transcript)
  /\ WindowBytes(transcript, job) = WindowBytes(job.source, job)

(* The first half of _bounded_window: the hash of the window, for which    *)
(* the file is opened, read and closed.                                    *)
ChecksWindow(c) ==
  /\ work[c].step = "leased"
  /\ \/ /\ WindowStands(JobOf(c))
        /\ Works(c, [work[c] EXCEPT !.step = "checked"])
        /\ UNCHANGED sourceVars
     \/ /\ ~WindowStands(JobOf(c))
        /\ Settles(c, "unbound")
        /\ UNCHANGED sourceVars
     \/ /\ JobOf(c).hashed
        /\ TranscriptGrows
        /\ Works(c, [NoWork EXCEPT !.step = "answered", !.verdict = "unbound",
                                   !.grown = TRUE])
  /\ UNCHANGED <<vars, onFile, skillVars, artifacts>>

Size(r) == Smaller(Len(r.bytes), MaxChars)

(* So many characters, each counted with the record it is in.              *)
SizeOf(records) ==
  Cardinality({p \in records \X (1 .. MaxChars) : p[2] <= Size(p[1])})

From(records, r) == {q \in records : q.offset >= r.offset}

(* _fit_token_budget: from the newest record on, as many as fit; one that  *)
(* does not fit at all is cut.                                             *)
Fitted(records) == {r \in records : SizeOf(From(records, r)) <= MaxChars}

(* Mutant: the newest records are left out of a request that is too large. *)
BudgetedOldest(records) ==
  {r \in records :
     RequestOverhead + SizeOf({q \in records : q.offset <= r.offset})
       <= MaxRequest}

(* _budgeted_request: the oldest records are left out until it fits.       *)
Budgeted(records) ==
  {r \in records : RequestOverhead + SizeOf(From(records, r)) <= MaxRequest}

(* The second half of _bounded_window opens the transcript again; then the *)
(* skills are read and the request is built.                               *)
AsksRunner(c) ==
  LET job == JobOf(c)
      read == EvidenceRecords(transcript, job.start, job.end, MaxBytes,
                              MaxEvents)
      known == Fitted(read)
      sent == Budgeted(known)
  IN
  /\ work[c].step = "checked"
  /\ IF read = {} THEN Settles(c, "noop")
     ELSE IF skills = "other" \/ sent = {} \/ MaxChars = 0
       THEN Settles(c, "invalid")
     ELSE Works(c, [work[c] EXCEPT !.step = "asked", !.sent = sent,
                                   !.known = known, !.skills = skills])
  /\ UNCHANGED <<vars, sourceVars, onFile, skillVars, artifacts>>

(* Mutant: the skills are only compared when the runner has answered.      *)
SkillsStandForAnswers(c, verdict) ==
  verdict = "retry" \/ skills = work[c].skills

(* _verify_canonical_skills_unchanged comes after the runner, answer or    *)
(* exception.                                                              *)
SkillsStand(c, verdict) == skills = work[c].skills

(* The runner keeps its word or does not, in time or not; it sees nothing  *)
(* but the request.                                                        *)
HearsRunner(c) ==
  /\ work[c].step = "asked"
  /\ \E verdict \in {"noop", "candidate", "invalid", "retry"} :
       Settles(c, IF SkillsStand(c, verdict) THEN verdict ELSE "invalid")
  /\ UNCHANGED <<vars, sourceVars, onFile, skillVars, artifacts>>

(* A valid answer cites known records, which may be more than the request  *)
(* had room for; which of them, nothing depends on.                        *)
StagesAnswer(c) ==
  /\ work[c].verdict = "candidate"
  /\ StagesCandidate(c)
  /\ artifacts' = artifacts \cup
       {[key |-> arg[c], by |-> c, job |-> JobOf(c), known |-> work[c].known,
         torn |-> work[c].torn]}
  /\ KeepWork
  /\ UNCHANGED <<sourceVars, onFile, skillVars>>

(* The status that goes with a verdict.                                    *)
Asks(c, status) ==
  /\ work[c].step = "answered"
  /\ status = CASE work[c].verdict \in {"unbound", "invalid"} -> "failed"
                [] work[c].verdict = "retry" -> "pending"
                [] OTHER -> work[c].verdict
  /\ status = "candidate" => pc[c] = "staged"

SettlesJob(c) ==
  /\ Finishes(c)
  /\ Asks(c, receipt'[arg[c]].status)
  /\ KeepWork
  /\ UNCHANGED <<sourceVars, onFile, skillVars, artifacts>>

(* Refused or not written; what is asked for next changes nothing.         *)
CannotSettle(c) ==
  /\ \E status \in Outcomes(c) :
       /\ Asks(c, status)
       /\ WriteFaults \/ ~MayFinish(arg[c], c, status)
  /\ FinishRefused(c)
  /\ KeepWork
  /\ UNCHANGED <<sourceVars, onFile, skillVars, artifacts>>

(* The runner timed out or broke, or the file system broke the staging.    *)
GivesBack(c) ==
  /\ Asks(c, "pending") \/ (WriteFaults /\ work[c].verdict = "candidate")
  /\ Releases(c)
  /\ KeepWork
  /\ UNCHANGED <<sourceVars, onFile, skillVars, artifacts>>

-----------------------------------------------------------------------------
(* Surroundings                                                            *)

(* Whoever has looked at the window and not read it yet reads another one. *)
Torn == [c \in Consumers |->
           [work[c] EXCEPT !.torn = @ \/ work[c].step = "checked"]]

Grows ==
  /\ TranscriptGrows
  /\ UNCHANGED <<vars, onFile, skillVars, workVars, artifacts>>

Replaced ==
  /\ replacements < MaxReplacements
  /\ replacements' = replacements + 1
  /\ transcript' \in OtherTexts \ {transcript}
  /\ work' = Torn
  /\ UNCHANGED <<vars, onFile, skillVars, inHand, artifacts, appends>>

SkillWritten ==
  /\ edits < MaxEdits
  /\ edits' = edits + 1
  /\ skills' \in SkillStates \ {skills}
  /\ UNCHANGED <<vars, sourceVars, onFile, workVars, artifacts>>

(* The steps of the spool in which no window, answer or skill has a part.  *)
(* The end of a session that has no job of its own only moves budgets and  *)
(* is left out.                                                            *)
SpoolStep ==
  /\ \/ \E h \in Hooks :
          \/ LooksForReceipt(h)
          \/ ReadsReceipt(h)
          \/ LoadsJob(h)
          \/ Reserves(h)
          \/ SavesCheckpoint(h)
     \/ \E c \in Consumers :
          \/ \E j \in Jobs : FinishesUnleased(c, j)
          \/ LeaseRefused(c)
     \/ \E p \in Procs : PruneStep(p) \/ LockTimesOut(p) \/ Crash(p)
     \/ \E j \in Jobs : RecoversExpired(j)
     \/ Tick
  /\ KeepWork
  /\ UNCHANGED <<sourceVars, onFile, skillVars, artifacts>>

Consumes(c) ==
  \/ \E j \in Jobs : LoadsWindow(c, j)
  \/ LeasesJob(c)
  \/ ChecksWindow(c)
  \/ AsksRunner(c)
  \/ HearsRunner(c)
  \/ StagesAnswer(c)
  \/ SettlesJob(c)
  \/ CannotSettle(c)
  \/ GivesBack(c)

ConsumerNext ==
  \/ SpoolStep
  \/ \E h \in Hooks : WritesJob(h) \/ \E j \in Jobs : BuildsJob(h, j)
  \/ \E c \in Consumers : Consumes(c)
  \/ Grows
  \/ Replaced
  \/ SkillWritten

ConsumerSpec == ConsumerInit /\ [][ConsumerNext]_allVars

-----------------------------------------------------------------------------
(* Properties                                                              *)

(* The whole lines that begin in the last MaxBytes of a job's window, as   *)
(* they were when the job was built.                                       *)
Bound(job) ==
  {Record(job.source, line) :
     line \in {l \in LinesBetween(job.source, job.start, job.end) :
                 l[1] >= job.end - MaxBytes}}

(* A runner sees whole lines of the bytes the job was bound to, the newest *)
(* of them without a gap and as many as the limits leave room for, unless  *)
(* the transcript was replaced between the hash of the window and its      *)
(* reading.                                                                *)
NewestEvidence ==
  \A c \in Consumers :
    work[c].step = "asked" /\ ~work[c].torn =>
      LET bound == Bound(inHand[c])
          sent == work[c].sent
      IN /\ sent # {} /\ sent \subseteq bound
         /\ \A r \in sent, q \in bound : q.offset > r.offset => q \in sent
         /\ \A q \in bound \ sent :
              \/ Cardinality(sent) = MaxEvents
              \/ SizeOf(From(bound, q)) > MaxChars
              \/ RequestOverhead + SizeOf(From(bound, q)) > MaxRequest

(* What waits for review was staged from lines its consumer's job was      *)
(* bound to, however often the transcript grew or was replaced before the  *)
(* hash of the window and since its reading, whoever else worked on the    *)
(* job, and though its file may have been pruned and built again.          *)
CandidatesAreBound ==
  \A j \in Jobs : \A c \in receipt[j].candidates :
    LET staging == {a \in artifacts : a.key = j /\ a.by = c}
    IN /\ staging # {}
       /\ \A a \in staging :
            a.torn \/ (a.known # {} /\ a.known \subseteq Bound(a.job))

(* A job only fails for its window when somebody replaced the transcript   *)
(* since the job was built, or it grew at the moment of a hash, then or    *)
(* now: an append at any other time does no harm.                          *)
WindowFailsForCause ==
  \A c \in Consumers :
    work[c].verdict = "unbound" =>
      \/ inHand[c].edition < replacements
      \/ ~inHand[c].hashed
      \/ work[c].grown

(* A run that leaves another skill file behind is neither believed nor     *)
(* repeated: it fails its job.                                             *)
ModifiedSkillsFail ==
  [][\A c \in Consumers :
       /\ work[c].step = "asked" /\ work'[c].step = "answered"
       /\ skills # work[c].skills
       => work'[c].verdict = "invalid"]_allVars

=============================================================================
