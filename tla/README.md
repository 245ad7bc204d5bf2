# WORKFLOWHOOKER: a TLA+ model of its hooks, gates and candidate spool

WORKFLOWHOOKER is a set of short-lived hook processes a coding agent's host starts at
events of a session. They share nothing but files, and the host, other sessions, Git and
the operating system change those files while a hook runs. What can go wrong here is
seldom in one function: it is in the order of loads, locks and saves of several processes,
in a process that dies between two of them, and in a clock that moves meanwhile. That is
what these modules model. Names are those of the code wherever TLA+ allows it, and
`PROJECT.json` names the lines every definition stands for.

## The system

| Part | Source | State | Operations | Talks to |
|---|---|---|---|---|
| Session state | `state.py` | a JSON file per session: rounds of the stop gate, messages sent, time of the last one, idle counters | `load_checked`, `save`, `state_transaction` (flock on a sibling `.lock`) | every hook of the session |
| Stop gate | `gates.py:253-452`, `cli.py:400-442` | none of its own | `evaluate_stop_gate`: clean, one rework round, residual | session state, locks, Git |
| Advisory hooks and checks | `checks/`, `cli.py:274-314,444-482` | idle and disabled flags in the session state | `_run_active_checks`, the message slot, injectors | session state, state sources |
| Lock files | `locks.py` | `LOCK*.txt` files anybody writes | `inspect_locks` | both gates |
| Action guard | `gates.py:61-250`, `decisions.py` | none | `evaluate_action_guard`, `combine_results` | lock files |
| Candidate spool | `candidates.py:831-1375` | job, receipt, checkpoint and candidate files, lock files | `submit`, `lease`, `finish`, `release_for_retry`, `recover_expired`, `prune`, `stage_candidate` | lifecycle hooks, consumers, reviewers |
| Lifecycle controller | `candidates.py:1377-1526` | the session's checkpoint | `handle` for five events | spool, transcripts |
| Extractor consumer | `extractor_consumer.py` | none of its own: the job it loaded, the window it read, the skill files it saw | `consume` | spool, transcripts, skill files, a runner |
| State sources | `sources/`, `protocol.py` | none: a snapshot under construction | the composite and its sources for files, Git, TASKPLAN and goals | the project, other sessions |
| Injectors and scope matching | `injectors.py`, `scope_match.py` | none | goal reminder, loop briefing, policy rules at SessionStart | state sources, a policy registry |
| Configuration, compaction, providers, context lint, legacy queue, command line | the other files | none worth a model | parsing, formatting | |

What makes each part correct, and what is hard about it:

* **Session state and stop gate.** A gate identity (target and session identity) is asked
  for one round of rework at most; the round is on file before the host hears of it; a
  lost, damaged or locked file never turns into a fresh start, and a waiting hook always
  answers. Hard: only the Stop hook of an enabled gate takes the lock, every other hook
  loads and saves the same file without it; saving and unlocking may fail after the
  decision; a hook may be killed anywhere; the project is looked at before the lock is
  awaited.
* **Advisory hooks.** At most `max_messages_per_session` messages, a cooldown apart, and a
  check that switched itself off stays off. Hard: the count is read, used and written
  without a lock.
* **Action guard.** A lock that stands on a target while the guard looks denies the
  action. Hard: the guard lists directories, then reads files, target by target, while
  locks come and go and run out; a worktree's file has a second name in the main clone.
* **Candidate spool.** A lease that runs is nobody else's; budgets of a day and a session
  are kept although retention deletes the evidence they are computed from; a receipt
  follows its lifecycle; its candidates exist. Hard: a pair of files is deleted by two
  unlinks, the second of which may be denied; `submit` looks at files outside every lock;
  calls keep the time they began with through every wait; consumers outlive their leases.
* **Lifecycle controller.** No byte of a transcript is skipped and none is scheduled
  twice. Hard: the horizon is taken before the session's lock, the window's end after it;
  the job and the checkpoint are two files; the transcript grows or is replaced meanwhile.
* **Extractor consumer.** The runner sees the newest whole lines of the bytes its job was
  bound to, and what waits for review cites only such lines; a job is not given up for
  its window because the session went on; a run that edits a skill is neither believed
  nor repeated. Hard: the transcript is opened twice, once for the hash and once for the
  reading; three limits cut the evidence one after the other; the lease may be lost
  between any two steps.
* **State sources and injectors.** A message says nothing that was not so, and what was so
  all the time is in it, however often the project moves during the read and whichever
  sources fail; at SessionStart the rules that bind a directory most closely are shown.
  Hard: a snapshot is many reads at many times; two queries see one task at two times;
  several sources report the same thing, and one of them may be missing.

## The modules

| Module | Models |
|---|---|
| `Locks` | kinds of locks, what protects and what releases one, `inspect_locks` as a function of the files (no state) |
| `LockScope` | the directories of a target in a worktree and its main clone, the scope of a lock file (no state) |
| `ActiveChecks` | the checks and the loop that asks them (no state) |
| `ScopeRules` | candidate scopes of a directory, relations and precedence of rules, the choice of the policy injector (no state) |
| `EvidenceWindow` | which lines of a text are the evidence of a job (no state) |
| `OneRework` | the promise of the stop gate, without files and processes |
| `SessionHooks` | the hook processes of one session and their state file; uses `Locks` and `ActiveChecks`, implements `OneRework` |
| `ReceiptLifecycle` | the promise of a receipt, without files and processes |
| `CandidateSpool` | hooks, consumers, reviewers and retention on the spool; implements `ReceiptLifecycle` |
| `ExtractorConsumer` | what consumers do between a lease and a receipt, on top of `CandidateSpool`; uses `EvidenceWindow`, implements `CandidateSpool` |
| `LifecycleWindows` | the boundary events of one session, its transcripts, windows and checkpoint |
| `ActionGuard` | one guard call among sessions that change locks; uses `Locks` and `LockScope` |
| `ProjectBriefing` | one snapshot of a project that moves, and what is said of it; or one session start, with `ScopeRules` |
| `SessionHooksProofs`, `SessionMessagesProofs` | theorems about the stop gate and about messages |
| `CandidateSpoolProofs`, `CandidateBudgetProofs` | theorems about leases, candidates and the lifecycle, and about budgets |
| `ExtractorConsumerProofs` | theorems about the consumer, and that it is one of the spool's |
| `LifecycleWindowsProofs` | theorems about windows |
| `ActionGuardProofs` | theorems about the guard |
| `ProjectBriefingProofs` | theorems about snapshots and messages, and about the choice of rules |
| `SessionHooksMC`, `CandidateSpoolMC`, `ExtractorConsumerMC`, `LifecycleWindowsMC`, `ActionGuardMC`, `ProjectBriefingMC` | instances for TLC: sets, payloads, texts, symmetry |

How they correspond to the code:

* A hook process is an element of `Stops` or `Advisories` that runs once. Its program
  counter `pc` stands at the places where another process can come between; everything
  from one such place to the next is one action. `view` is the `SessionState` it has in
  memory, `disk` and `damaged` are the file, `lock` is the holder of the flock. The
  integrity digests of the file are the one bit `damaged`. `granted`, `delivered`,
  `forgotten` and `shown` are histories the properties talk about; no guard reads them.
* The evidence of a Stop hook (lock snapshot, worktree, `stop_hook_active`) is any value
  of its set at every evaluation: nothing keeps it still between two hooks.
* In `CandidateSpool` a receipt's load and write under its lock are one action. The places
  where another process gets in are actions of their own: the unlocked looks at the files
  in `submit`, the wait for the budget lock, the two unlinks of `prune`, the work between
  `lease` and `finish`. The session lock, the receipt lock and the budget lock appear as
  the guards `SessionFree`, `ReceiptFree` and `BudgetFree`. `callNow` is the `now` a call
  keeps. A consumer finishes with its own name; a reviewer's `finish` without a lease is
  `FinishesUnleased`. The names of lock files are striped in the code, so unrelated jobs
  may wait for each other; this only removes interleavings.
* In `LifecycleWindows` a horizon is what `stat` says of the transcript. Counters of the
  payload that also enter the hash, and a hash the payload brings itself, are left out.
  `edition` and `size` together are the modification time: every write changes it.
* In `ActionGuard` a lock file is a name (directory, kind, scope) with a content or
  nothing. Extraction of targets is reduced to its three outcomes; a payload or a
  configuration that cannot be read ends like a malformed one. A target is a file, a
  directory (`Directories`), which is then the first one looked at, or the project itself,
  for which every lock counts whatever its scope (`locks.py:180`). A `.git` file that does
  not lead to a main clone (`mainKnown`) leaves every target unknown. A directory that
  cannot be listed (`closed`) either does the same or looks empty: `glob` swallows a
  missing permission, and from Python 3.13 on any error of the listing, before
  `locks.py:261` could see it. That a root is a directory is assumed
  (`RootsAssumption`): the walk of `_ancestors_to_root` does not end for a clone that was
  moved away and is inspected as a whole (`locks.py:150`).
* In `EvidenceWindow` a text is a sequence of bytes of which only the line break is told
  apart, and a line is the pair of its offsets. `ExtractorConsumer` adds to the spool the
  transcript, what the job files say (`onFile`), the job a process has in memory
  (`inHand`), what a consumer found out about it (`work`) and the staged candidates
  (`artifacts`). Every one of its steps is a step of the spool or leaves it alone. A hook
  builds its job before it looks for one (`candidates.py:1490`, then `1026`), and a job
  file that is there stays. A consumer loads the job first of all, before it asks for the
  lease (`extractor_consumer.py:663`), and never again: its file may be pruned and built
  anew under it. A job carries the transcript it was built of: with the window it stands
  for the content hash. Its end is measured and its bytes are hashed in one step, in which
  the transcript may grow; a replacement between the two is not told apart from one before
  or after. `edition`, `torn` and `grown` are histories: how often the transcript had been
  replaced when the job was built, who read another file than the one whose hash was
  compared, and who saw it grow under the hash. The answer of the runner is reduced to its
  verdict. The end of a session without a job of its own (`EndOverlaps`) only moves
  budgets and is left out there.
* In `ProjectBriefing` `turn` and `step` say which source is read and where in its
  `Program`, the order in which its code looks at things. Any step may find the project
  changed since the one before, and any source may raise; what it had found is lost. The
  search for conflict copies looks at two files, one after the other, and these are two
  steps. `seen` and `held` are the facts that were true at some
  time and all the time. A goal file with blank text is one without; tasks without id or
  title are left out. A rename is one line of `git status` with both paths in it, and the
  code takes the text before its first slash (`git.py:56-60`): that is the directory the
  file comes from, but for a file that leaves the project's own directory (`LeavesRoot`) it
  is the file's name, the arrow and the directory it goes to, which is no directory at
  all. `Named` is that text and `Root` stands for the project's own directory. A query of
  tasks is answered in full by the client of TASKPLAN; without a usable client the
  facade is asked (`taskplan.py:86-94`), which may cut a list of more than `FacadeLimit`
  tasks before anyone looks at their project (`Answers`). A task that is taken back from
  active to open between the two queries is in neither answer and does not count as held.
  In `ScopeRules` scopes and paths are sequences of components;
  `max_entries = 0` shows the header and no rule.

## The runs

| Run | Question | Bounds |
|---|---|---|
| `stop_gate` | Is a round granted once, on file before it is told, never dropped, as `OneRework` says? Does a waiting hook answer although the owner hangs (liveness, `PollingSpec`)? | 3 Stop hooks, 2 identities, every kind of lock snapshot, disk faults |
| `stop_gate_mixed` | Does every further round take a save that dropped the first? | 2 Stop and 2 advisory hooks, 1 damage, disk faults |
| `messages` | Cap, cooldown, disabled checks when hooks run one after the other? | 4 hooks, clock to 4 |
| `spool_lifecycle` | Leases, candidates, lifecycle of one job? | 2 consumers, 1 hook, calls that take time, clock to 2 |
| `spool_budgets` | Are the budgets of a day and of a session kept, and the lifecycle, while retention deletes evidence and a session ends? | 2 sessions, 1 job each that may be submitted again, budgets 1, 1 record kept, 2 days |
| `action_guard` | Does a standing lock deny, and is a quiet answer the right one? | 3 lock names, 4 contents, up to 2 targets, files, a directory and the worktree itself, a main clone that is lost or cannot be listed, 1 touch, 1 tick |
| `extraction` | Does a runner see the newest lines of its window, a candidate cite only lines of its job, a job fail only for a cause, an edited skill fail it? | 2 consumers, 1 job, 4 texts whose last five bytes begin inside a line or at one and that have more or longer lines than a request holds; 1 append, 1 replacement, 1 edit, clock to 1 |
| `briefing` | Is anything invented or lost in a message, does the first goal stand, are the closest rules shown? | 2 lock files, one a conflict copy of the other, 2 goal files, 3 changes, two of them renames and one of these out of the root, 3 tasks of the project and 1 foreign one with a limit of 2 and a facade that may cut at 2; 2 moves during the read, any failures; all lists of three rules out of seven, six directories |
| `windows` | Is a byte skipped or scheduled twice, a window inverted? | 3 events, 2 handlers, 2 bytes, two of: rewrite, death, repeated delivery, pruned job |

Three more runs show disagreements between the code and what its documents or tests say;
each is a finding in `PROJECT.json`:

| Run | What happens |
|---|---|
| `stop_gate_stale_save` | an advisory hook overwrites a recorded round with what it loaded before |
| `stop_gate_damage_cleared` | a clean Stop saves a fresh state over a damaged file, and the next one asks again |
| `messages_overlap` | two hooks that overlap both find the last message slot free and both speak |

What the properties of messages and of the guard except, they name. `NothingInvented`
allows the text a file that left the root is listed under (`MovesNamed`) and no other.
`NothingLost` lets a directory be left out only if no line began with it (the fact
`listed`), and a task only for a full list of tasks of its project or when one of the
lists was longer than the facade may return (`Crowded`): the comment at
`taskplan.py:81-85` says that tasks of other projects then hide those of this one.
`StandingLockDenies` is about directories that can be listed, and `QuietAnswer` about a
guard during which nothing moves, the clock included.

Some conditions are those of the instance: `stop_gate` has no advisory hooks, `messages`
runs one hook at a time, `spool_budgets` has calls that take no time
(`SlowCalls = FALSE`), `windows` has one transcript. Those of `HorizonCovered` (only
appended to, no event delivered twice), `WindowsDisjoint` (only appended to, no handler
died), `NewestEvidence` and `CandidatesAreBound` (not replaced between the hash and the
reading) are in the properties. What is lost without them:

* without the exclusion of advisory hooks or damage, `OneRoundPerKey` (the first two runs
  of the table above), and without `OneAtATime`, `MessageCap`: two advisory hooks read the
  same count and use one slot (`messages_overlap`);
* with `SlowCalls`, `DailyBudget`: a lease that waits for a lock over midnight reserves
  for the day it began in, whose evidence a prune of the next day may have deleted;
* a delayed event of an older horizon moves the checkpoint back (`candidates.py:1517`
  compares with the last horizon only), so a second event of a horizon that was scheduled
  gets a job of its own. Its window is empty or disjoint, which is what `WindowsDisjoint`
  checks;
* a handler that dies between `submit` and the save of the checkpoint makes the next job
  begin where the dead one's did;
* a transcript that is replaced after its hash was compared and before it is read gives a
  request of the new bytes: nothing compares them again.

Bounds: `MaxDamage`, `MaxTime`, `MaxAborts`, `MaxWrites`, `MaxSize`, `MaxRewrites`,
`MaxPruned`, `MaxRepeats`, `MaxAppends`, `MaxReplacements`, `MaxEdits` and `MaxMoves` cap
what the environment does, and the state constraint `FewTroubles` of `windows` takes two of
its troubles at a time; nothing else is capped.
Two processes are enough for every race found, and the third in `stop_gate` lets two wait
behind one. Two days and a lease of one unit reach expiry, takeover and midnight. One
record kept of two jobs makes every finish prune. Two bytes put an old, a current and a
later horizon beside each other. Two moves during a snapshot change one thing and change
it back, or change two. Deadlock is not checked because every process ends and
the clock stops at its bound: the system really comes to rest.

Each property of a passing run has a mutant: a definition with a plausible mistake (the
`Mutant:` operators), under which the same run finds the property violated.

Fairness appears once. `PollingFairness` says a Stop hook that waits for the lock goes on
polling: `state_transaction` is a loop with a deadline (`state.py:143-152`) that depends
on nobody. Nothing is assumed of the hook that owns the lock, of the host, or of other
sessions.

## What is proved

Every theorem holds for all values of the constants, under the assumptions of the modules
(`ChecksAssumption`, `HooksAssumption`, `SpoolAssumption`, `ConsumerAssumption`,
`WindowsAssumption`, `RootsAssumption`, `GuardAssumption`, `BriefingAssumption`,
`MaxEntriesAssumption`), which say what kind of values the constants are. Further conditions are in the theorems.

`SessionHooksProofs`: any hooks, keys, checks and lock snapshots, any number of crashes and
failing saves.

* `TypeCorrect`: `TypeOK`, from the inductive `Typing`. The types alone are not inductive:
  that only hooks of an enabled gate reach the transaction (`GateOnly`) must be carried
  along, for a verdict indexes `key`, which advisory hooks do not have.
* `TransactionsExclude`: `OneTransaction`, inductive beside `Typing`.
* `RoundsComeFromTheRecord`: `RoundsNeedForgetting`, with advisory hooks and damages. The
  ledger `granted <= forgotten + (on file)` is not inductive: a Stop hook decides on what
  it loaded and saves later. `LedgerInv` adds that a hook which loaded an unused round, or
  decided to grant it, has room for it in the ledger (`RoomForLoaded`,
  `RoomForDecided`); stale saves in between only make room.
* `OneRoundAlone`, `RecordsStayAlone`, `GateImplementsOneRework`: under `GateAlone` (no
  hook without the lock, no damage) at most one round, blocks on file and granted, no
  record dropped, and `OneRework` implemented. `AloneInv` says that the memory of a hook
  in the transaction is not behind the file, that a round about to be granted is not on
  file, and that a granted round nobody told the host of belongs to one hook.
  `GateAlone` is needed: `stop_gate_stale_save` and `stop_gate_damage_cleared` show what
  happens without it.

`SessionMessagesProofs`: `MessagesStayCapped`, `CooldownAlwaysKept` and `DisabledForGood`,
under `Sequential` (one hook of the session at a time, no damage). `SlotInv` relates what
was shown to the count on file, and for the one hook that runs to the count in its memory:
a message is on file or in the hands of that hook, and a save that fails loses neither.

`CandidateSpoolProofs`: any finite set of jobs, any hooks and consumers, calls that take
as long as they like, crashes, denied writes, lock timeouts.

* `SpoolTypeCorrect`: `TypeOK`.
* `CandidatesAlwaysStaged`: `CandidatesStaged`. A consumer in the state `staged` has staged
  its artifact, the receipt a prune may put back (`removed`) is as good as one on file,
  and the victims of a prune are terminal.
* `LeasesHold`: `LeaseHolds`. The time a call carries is never ahead of the clock.
* `SpoolImplementsLifecycle`: `ImplementsLifecycle`. Under the budget lock only its holder
  prunes, and the pair it is deleting keeps its status for a reader until the job file is
  gone, putting the receipt back was denied, or the prune died (`Visible`).

`CandidateBudgetProofs`: what is on file accounts for the reservations that count.

* `SessionBudgetKept`: the receipts with a reservation of a session whose end nobody has
  seen are at least as many as its reservations. For that no prune may delete one of them
  (`BudgetRelevant`), a deferred receipt must have none, and a checkpoint that says the
  session ended must be late: the end was seen before.
* `DailyBudgetKept`, with `~SlowCalls`: the same for the receipts of today, and a new day
  begins with none.

`ExtractorConsumerProofs`: any texts, limits, jobs and consumers.

* `ConsumerImplementsSpool`: every behaviour of the consumer is one of the spool, so that
  the theorems above hold under it.
* `NewestEvidenceRead`: `NewestEvidence`, and `CandidatesStayBound`: `CandidatesAreBound`.
  Neither is inductive: a runner is asked long after the window was compared, and a
  candidate waits for review long after its job file is gone. `ConsumerInv` carries along
  that the transcript a job was built of is the beginning of the present one unless it was
  replaced, for the jobs on file and those in memory (`JobsInv`); that a consumer which
  compared its window, was not overtaken by a replacement and has not read yet still has
  those bytes before it, and one that did read has the evidence of its job (`EvidenceInv`);
  and that what was staged was read that way (`ArtifactInv`). A job in memory is the same
  from its loading to its receipt, so no step on the job file can hurt.
* What a read returns is said by lemmas about the operators, for any text.
  `LinesByOffset` and `LinesBehindStart`: the pieces the code cuts the tail of the window
  into are the whole lines of the window that begin in its last bytes, wherever the byte
  limit falls. `SameEvidence`: they depend on the bytes of the window only.
  `NewestAreEnough`, `LimitKeepsNewest`, `RequestIsNewest`: each of the three limits keeps
  the newest records without a gap, and `ReadIsNewest` puts them together. The size of a
  request is a cardinality in the model (so many characters, each counted with its
  record), so that more records are no smaller (`SizesGrow`) without an induction.
* `ConsumerTypeCorrect`: `ConsumerTypeOK`, from the parts of `ConsumerInv` about types.
* `WindowsFailForCause`: `WindowFailsForCause`, itself a part of `ConsumerInv`, from
  `JobsInv`.
* `ModifiedSkillsAlwaysFail`: `ModifiedSkillsFail`.

`LifecycleWindowsProofs`: transcripts of any size, any events and handlers, any number of
deaths, repeated deliveries and pruned jobs.

* `WindowTypeCorrect`, `WindowsStayWellFormed`: `TypeOK` and `WindowsWellFormed`.
* `WindowsStayDisjoint`: `WindowsDisjoint`, under `OneTranscript` (all events name one).
  As long as it is only appended to, the checkpoint's offset lies within the transcript,
  at or past the horizon that was scheduled last, and whoever holds the session's lock
  measured at or past that offset and at or past the horizon it waited with.
* `HorizonsAreCovered`: `HorizonCovered`, under `OneTranscript` and `OwnBoundaries` (the
  keys of the events tell them apart, as goal names and epochs do). What lies before the
  checkpoint's offset has been in windows; an answered horizon lies before the offset or
  in the window of the job its event built.

`ActionGuardProofs`: any locks, roots and targets, any number of changes and ticks.

* `GuardTypeCorrect`: `TypeOK`.
* `StandingLocksDeny`: `StandingLockDenies`. A lock that stands untouched, in a directory
  that can be listed, is in the part
  that is still to be looked at or was found (`SeenSoFar`), and a target that was cleared
  has none (`ClearedSoFar`).
* `QuietGuardAnswersRight`: `QuietAnswer`. The decision so far is the combination of what
  the locks define for the targets so far, in whatever order. `ScopeGoverns` is the lemma
  about scopes: the walk of the code, over the directories of a worktree and its main
  clone, finds exactly the locks the definition gives.

`ProjectBriefingProofs`: any project, any order of sources, any files, tasks and limit, any
number of changes during a read.

* `BriefingTypeCorrect`: `BriefingTypeOK`, the limit of the task list included.
* `NothingIsInvented`, `NothingIsLost`, `FirstGoalStands`. `ReadInv` is about a read that is
  not over: what is in the part of the present source and in the snapshot was seen, and
  what a source has passed in its program is in its part (`PartFound`), or in the snapshot
  once the source was merged (`Complete`), if it was held and nothing failed. The places of a
  program are computed once, in the lemmas about `Program`. For `NothingLost` a task that
  was held is in one of the two answers, because it was never taken back, unless a
  list was cut, and then it was `Crowded`: the invariant speaks of the facts in `Stood`,
  which are those held without the tasks once a list was crowded. For `GoalStands`
  a source that read the files finds the standing goal or fails at its file.
* `ClosestRulesShown`: `ClosestRules`, for any registry and directory. `RankIsCloseness`
  takes the code's ranks to the three ways of binding the property names. That the
  `CHOOSE` of the sorted list finds one needs an induction over finite sets; it is made
  with `MinimalSet` (a non-empty set of finite sets has a minimal element), from which
  `SortedList` follows: a smallest set without a sorted list would be one element more
  than a set with one.

Only model-checked: `WaitEnds`, for liveness is out of the prover's reach, and that each
violation run finds what it shows.

Only proved: that a job file pruned and built again, with another window, under a consumer
that loaded it does no harm. The theorems have any number of jobs and records;
`extraction` has one job and keeps its record, as two jobs with retention, texts and
replacements are too many states for a run.

## What is not modelled

* Configuration and its parsing are the constants.
* Compaction output, provider snippets and the context lint are functions of their input.
* The legacy queue and the other sub-commands run alone.
* The location injector asks an optional package about one role after the other.
* Of the extractor consumer: redaction, undecodable bytes, the fields and identifiers of an
  answer, how skill files are found.
* Of state sources: the form of file names, porcelain lines and task records.
* In the lifecycle controller a Stop event and a goal without a reference change nothing
  and are left out, and so are counters and hashes a payload brings itself.

Behaviour that is modelled or known and has no property, because nothing says what it
should be: PreCompact at a new transcript gives it the old one's offset; a second delivery
of an event whose job exists moves the offset beyond that job's window; `submit` looks at
the job file before it waits for the budget lock and never again, so a prune in between
leaves a receipt without its job; a damaged state file is never saved by advisory hooks,
so the message budget does not brake a Stop with `--block` as long as it lasts; a rename
in Git counts as a change of the directory it came from only, and one out of the root as
one of a directory that is none; a session that goes on after its end; a consumer whose
lease ran out may still finish the job after the consumer that took it over has given it
back (`candidates.py:1145` refuses it only as long as another one has the lease); a lease
that waits over midnight counts against the day it began in; a directory of locks that
may not be read looks empty.

## Plan

What is left, in this order:

1. The location injector as further steps of `ProjectBriefing`, with a package that is
   missing or fails for some roles.
2. `LifecycleWindows` under `ExtractorConsumer`, so that windows begin where a checkpoint
   of the model put them.
3. More than one transcript in `windows`, once it is decided what a PreCompact at a new
   one should schedule.
