--------------------------- MODULE CandidateSpool ---------------------------
(***************************************************************************)
(* The durable spool of workflowhooker/candidates.py: immutable job files, *)
(* a receipt file per job, and the processes that share them.              *)
(*                                                                         *)
(* A lifecycle hook submits jobs at a session's boundaries and recovers    *)
(* expired leases at its start; a consumer leases a job, works on it for   *)
(* as long as it likes and finishes or releases it. Two kinds of file lock *)
(* order them: one budget lock around everything that reserves a budget or *)
(* prunes, and a receipt lock around each change of a receipt. A step here *)
(* is what no other process can see half done: a receipt's load and write  *)
(* under its lock are one step, the two unlinks of a pruned pair and the   *)
(* unlocked looks at the files in submit are steps of their own.           *)
(***************************************************************************)
EXTENDS Integers, FiniteSets

CONSTANTS
  Jobs,           \* job keys
  Sessions,
  SessionOf,      \* the session of each job
  EndJobs,        \* the jobs built from a SessionEnd event
  Hooks,          \* lifecycle hook processes
  Consumers,      \* consumer processes; each is its own lease_owner
  MaxPerSession,  \* budget.max_jobs_per_session, 0 for no limit
  MaxPerDay,      \* budget.max_jobs_per_day, 0 for no limit
  MaxRecords,     \* max_records, 0 for no pruning
  LeaseTime,      \* lease_seconds
  DayLength,      \* clock units of a UTC day
  SlowCalls,      \* the clock may advance inside a call
  WriteFaults,    \* replacing or unlinking a file may be denied
  MaxTime,        \* bound: the clock stops here
  MaxAborts       \* bound: how many calls end early

Procs == Hooks \cup Consumers

Nobody == "nobody"

Nothing == "nothing"

(* The None of lease_expires_at and budget_reserved_at.                    *)
Never == -1

(* The argument of no call.                                                *)
AnyJob == CHOOSE j \in Jobs : TRUE

ASSUME SpoolAssumption ==
  /\ SessionOf \in [Jobs -> Sessions]
  /\ Jobs # {}
  /\ IsFiniteSet(Jobs)
  /\ EndJobs \subseteq Jobs
  /\ Hooks \cap Consumers = {}
  /\ Nobody \notin Procs
  /\ Nothing \notin Jobs
  /\ MaxPerSession \in Nat
  /\ MaxPerDay \in Nat
  /\ MaxRecords \in Nat
  /\ LeaseTime \in Nat \ {0}
  /\ DayLength \in Nat \ {0}
  /\ SlowCalls \in BOOLEAN
  /\ WriteFaults \in BOOLEAN
  /\ MaxTime \in Nat
  /\ MaxAborts \in Nat

VARIABLES
  jobFile,     \* the jobs whose job file exists
  receipt,     \* the receipt file of each job
  staged,      \* candidate artifacts: who staged one for which job
  scheduled,   \* the job that each session's checkpoint moved past last
  ended,       \* the sessions whose checkpoint has session_ended_at
  budgetLock,  \* the holder of budget.lock across steps: a prune
  victims,     \* the terminal receipts the prune has yet to look at
  excess,      \* how many it still has to delete
  target,      \* the job whose receipt it has unlinked and whose job not yet
  removed,     \* that receipt
  pc,          \* where each process is
  arg,         \* the job its call is about
  callNow,     \* the time its call works with: when the call began
  now,         \* the wall clock
  aborts,      \* crashes and lock timeouts so far
  reservedOn,  \* history: budget reservations per day
  reservedFor, \* history: budget reservations per session
  endSeen      \* history: the sessions that were seen to end

fileVars == <<jobFile, receipt, staged, scheduled, ended>>
pruneVars == <<budgetLock, victims, excess, target, removed>>
procVars == <<pc, arg, callNow>>
budgetVars == <<reservedOn, reservedFor, endSeen>>
vars == <<fileVars, pruneVars, procVars, now, aborts, budgetVars>>

-----------------------------------------------------------------------------
(* Files                                                                   *)

Statuses == {"pending", "leased", "noop", "candidate", "promoted", "failed",
             "deferred"}

Terminal == {"noop", "promoted", "failed"}

(* Mutant: a job that was refused may still get a candidate.               *)
LateTransitions ==
  [pending   |-> {"noop", "candidate", "failed"},
   leased    |-> {"noop", "candidate", "failed"},
   candidate |-> {"noop", "promoted", "failed"},
   deferred  |-> {"failed"},
   noop |-> {}, promoted |-> {}, failed |-> {"candidate"}, absent |-> {}]

(* Where finish may take a receipt.                                        *)
FinishTransitions ==
  [pending   |-> {"noop", "candidate", "failed"},
   leased    |-> {"noop", "candidate", "failed"},
   candidate |-> {"noop", "promoted", "failed"},
   deferred  |-> {"failed"},
   noop |-> {}, promoted |-> {}, failed |-> {}, absent |-> {}]

(* A receipt file; status "absent" is no file. candidates names who staged *)
(* the candidates it refers to.                                            *)
Receipts ==
  [status: Statuses \cup {"absent"}, owner: Consumers \cup {Nobody},
   expires: Int, reserved: Int, created: Int, candidates: SUBSET Consumers]

NoReceipt ==
  [status |-> "absent", owner |-> Nobody, expires |-> Never,
   reserved |-> Never, created |-> Never, candidates |-> {}]

Exists(j) == receipt[j].status # "absent"

Records == {j \in Jobs : Exists(j)}

Day(t) == t \div DayLength

Days == 0 .. Day(MaxTime)

PCs == {"idle", "looking", "reading", "checkingJob", "loadingJob", "reserving",
        "wantPrune", "pruning", "unlinking", "checkpointing", "leasing",
        "working", "staged"}

(* A consumer at work is in no call, and its next call reads the clock.    *)
InCall == PCs \ {"idle", "working", "staged"}

AtWork == {"working", "staged"}

InPrune == {"pruning", "unlinking"}

TypeOK ==
  /\ jobFile \subseteq Jobs
  /\ receipt \in [Jobs -> Receipts]
  /\ staged \subseteq Jobs \X Consumers
  /\ scheduled \subseteq Jobs
  /\ ended \subseteq Sessions
  /\ budgetLock \in Procs \cup {Nobody}
  /\ victims \subseteq Jobs
  /\ excess \in Int
  /\ target \in Jobs \cup {Nothing}
  /\ removed \in Receipts
  /\ pc \in [Procs -> PCs]
  /\ arg \in [Procs -> Jobs]
  /\ callNow \in [Procs -> 0 .. MaxTime]
  /\ now \in 0 .. MaxTime
  /\ aborts \in 0 .. MaxAborts
  /\ reservedOn \in [Days -> Nat]
  /\ reservedFor \in [Sessions -> Nat]
  /\ endSeen \subseteq Sessions

Init ==
  /\ jobFile = {}
  /\ receipt = [j \in Jobs |-> NoReceipt]
  /\ staged = {}
  /\ scheduled = {}
  /\ ended = {}
  /\ budgetLock = Nobody
  /\ victims = {}
  /\ excess = 0
  /\ target = Nothing
  /\ removed = NoReceipt
  /\ pc = [p \in Procs |-> "idle"]
  /\ arg = [p \in Procs |-> AnyJob]
  /\ callNow = [p \in Procs |-> 0]
  /\ now = 0
  /\ aborts = 0
  /\ reservedOn = [d \in Days |-> 0]
  /\ reservedFor = [s \in Sessions |-> 0]
  /\ endSeen = {}

-----------------------------------------------------------------------------
(* Calls, locks and budgets                                                *)

Goto(p, place) == pc' = [pc EXCEPT ![p] = place]

(* Mutant: the time is rounded up.                                         *)
CallsLater(p, j, place) ==
  /\ arg' = [arg EXCEPT ![p] = j]
  /\ callNow' = [callNow EXCEPT ![p] = now + 1]
  /\ Goto(p, place)

(* A call keeps the time it began with through every wait for a lock.      *)
Calls(p, j, place) ==
  /\ arg' = [arg EXCEPT ![p] = j]
  /\ callNow' = [callNow EXCEPT ![p] = now]
  /\ Goto(p, place)

(* Back to no call at all: its arguments and its time are gone.            *)
Returns(p) ==
  /\ arg' = [arg EXCEPT ![p] = AnyJob]
  /\ callNow' = [callNow EXCEPT ![p] = 0]
  /\ Goto(p, "idle")

ReturnsUnless(p, condition, place) ==
  IF condition THEN Goto(p, place) /\ UNCHANGED <<arg, callNow>>
               ELSE Returns(p)

(* handle holds the session's lock while a boundary event is submitted.    *)
SessionFree(s) == \A h \in Hooks : pc[h] # "idle" => SessionOf[arg[h]] # s

(* A prune holds the receipt lock from the first unlink to the second.     *)
ReceiptFree(j) == target # j

BudgetFree == budgetLock = Nobody

Write(j, r) == receipt' = [receipt EXCEPT ![j] = r]

Settled(j, status) ==
  [receipt[j] EXCEPT !.status = status, !.owner = Nobody, !.expires = Never]

Reserved == {j \in Jobs : Exists(j) /\ receipt[j].reserved # Never}

OverBudget(j, at) ==
  \/ /\ MaxPerSession > 0
     /\ Cardinality({i \in Reserved : SessionOf[i] = SessionOf[j]})
          >= MaxPerSession
  \/ /\ MaxPerDay > 0
     /\ Cardinality({i \in Reserved : Day(receipt[i].reserved) = Day(at)})
          >= MaxPerDay

CountReservation(j, at) ==
  /\ reservedOn' = [reservedOn EXCEPT ![Day(at)] = @ + 1]
  /\ reservedFor' = [reservedFor EXCEPT ![SessionOf[j]] = @ + 1]

-----------------------------------------------------------------------------
(* Submitting a job                                                        *)

(* The boundary that the checkpoint passed last gives no job again.        *)
BeginSubmit(h, j) ==
  /\ pc[h] = "idle"
  /\ j \notin scheduled
  /\ SessionFree(SessionOf[j])
  /\ Calls(h, j, "looking")
  /\ UNCHANGED <<fileVars, pruneVars, now, aborts, budgetVars>>

LooksForReceipt(h) ==
  /\ pc[h] = "looking"
  /\ Goto(h, IF Exists(arg[h]) THEN "reading" ELSE "checkingJob")
  /\ UNCHANGED <<fileVars, pruneVars, arg, callNow, now, aborts, budgetVars>>

(* Receipt and job are both there, "existing", or the spool is corrupt and *)
(* the checkpoint stays where it is.                                       *)
ReadsReceipt(h) ==
  /\ pc[h] = "reading"
  /\ ReceiptFree(arg[h])
  /\ ReturnsUnless(h, Exists(arg[h]) /\ arg[h] \in jobFile, "checkpointing")
  /\ UNCHANGED <<fileVars, pruneVars, now, aborts, budgetVars>>

(* A job without a receipt is one whose submit died or whose prune did.    *)
LooksForJob(h) ==
  /\ pc[h] = "checkingJob"
  /\ Goto(h, IF arg[h] \in jobFile THEN "loadingJob" ELSE "reserving")
  /\ jobFile' = jobFile \cup {arg[h]}
  /\ UNCHANGED <<receipt, staged, scheduled, ended, pruneVars, arg, callNow,
                 now, aborts, budgetVars>>

LoadsJob(h) ==
  /\ pc[h] = "loadingJob"
  /\ ReturnsUnless(h, arg[h] \in jobFile, "reserving")
  /\ UNCHANGED <<fileVars, pruneVars, now, aborts, budgetVars>>

NewReceipt(j, status, at) ==
  [NoReceipt EXCEPT !.status = status, !.created = at,
                    !.reserved = IF status = "pending" THEN at ELSE Never]

(* Under the budget lock; nobody looks at the job file again.              *)
Reserves(h) ==
  LET j == arg[h] IN
  /\ pc[h] = "reserving"
  /\ BudgetFree
  /\ \/ /\ Exists(j)
        /\ Goto(h, "checkpointing")
        /\ UNCHANGED <<receipt, budgetVars>>
     \/ /\ ~Exists(j)
        /\ Goto(h, "wantPrune")
        /\ endSeen' = endSeen \cup {SessionOf[i] : i \in EndJobs \cap {j}}
        /\ IF OverBudget(j, callNow[h])
             THEN /\ Write(j, NewReceipt(j, "deferred", callNow[h]))
                  /\ UNCHANGED <<reservedOn, reservedFor>>
             ELSE /\ Write(j, NewReceipt(j, "pending", callNow[h]))
                  /\ CountReservation(j, callNow[h])
  /\ UNCHANGED <<jobFile, staged, scheduled, ended, pruneVars, arg, callNow,
                 now, aborts>>

SavesCheckpoint(h) ==
  /\ pc[h] = "checkpointing"
  /\ scheduled' = {j \in scheduled : SessionOf[j] # SessionOf[arg[h]]}
                    \cup {arg[h]}
  /\ ended' = ended \cup {SessionOf[i] : i \in EndJobs \cap {arg[h]}}
  /\ Returns(h)
  /\ UNCHANGED <<jobFile, receipt, staged, pruneVars, now, aborts, budgetVars>>

(* A SessionEnd whose horizon is scheduled already only marks the end.     *)
EndOverlaps(h, s) ==
  /\ pc[h] = "idle"
  /\ SessionFree(s)
  /\ \E j \in scheduled : SessionOf[j] = s
  /\ ended' = ended \cup {s}
  /\ endSeen' = endSeen \cup {s}
  /\ UNCHANGED <<jobFile, receipt, staged, scheduled, pruneVars, procVars, now,
                 aborts, reservedOn, reservedFor>>

-----------------------------------------------------------------------------
(* Pruning                                                                 *)

(* Where submit and finish go on when prune returns.                       *)
BackToCaller(p) == ReturnsUnless(p, p \in Hooks, "checkpointing")

Surplus == Cardinality(Records) - MaxRecords

PruneNotNeeded(p) ==
  /\ pc[p] = "wantPrune"
  /\ MaxRecords = 0 \/ (BudgetFree /\ Surplus <= 0)
  /\ BackToCaller(p)
  /\ UNCHANGED <<fileVars, pruneVars, now, aborts, budgetVars>>

(* Mutant: a candidate that waits for review is old enough to go.          *)
PrunableUnreviewed(j) == receipt[j].status \in Terminal \cup {"candidate"}

Prunable(j) == receipt[j].status \in Terminal

BeginPrune(p) ==
  /\ pc[p] = "wantPrune"
  /\ MaxRecords # 0
  /\ BudgetFree
  /\ Surplus > 0
  /\ budgetLock' = p
  /\ victims' = {j \in Jobs : Prunable(j)}
  /\ excess' = Surplus
  /\ Goto(p, "pruning")
  /\ UNCHANGED <<fileVars, target, removed, arg, callNow, now, aborts,
                 budgetVars>>

(* Mutant: retention forgets the day a budget was used on.                 *)
SessionRelevant(j, at) ==
  \/ j \notin jobFile
  \/ /\ receipt[j].reserved # Never
     /\ MaxPerSession > 0 /\ SessionOf[j] \notin ended /\ j \notin EndJobs

(* Mutant: retention forgets the session that used a budget.               *)
DayRelevant(j, at) ==
  \/ j \notin jobFile
  \/ /\ receipt[j].reserved # Never
     /\ MaxPerDay > 0 /\ Day(receipt[j].reserved) = Day(at)

(* A receipt stays while deleting it could reopen a budget; without its    *)
(* job nobody knows which budget that is.                                  *)
BudgetRelevant(j, at) ==
  \/ j \notin jobFile
  \/ /\ receipt[j].reserved # Never
     /\ \/ MaxPerDay > 0 /\ Day(receipt[j].reserved) = Day(at)
        \/ MaxPerSession > 0 /\ SessionOf[j] \notin ended /\ j \notin EndJobs

(* list_receipts sorts by age; equally old ones come in any order here.    *)
Oldest(j) == \A i \in victims : receipt[j].created <= receipt[i].created

KeepsVictim(p) ==
  /\ pc[p] = "pruning"
  /\ excess > 0
  /\ \E j \in victims :
       /\ Oldest(j)
       /\ BudgetRelevant(j, callNow[p]) \/ WriteFaults
       /\ victims' = victims \ {j}
  /\ UNCHANGED <<fileVars, budgetLock, excess, target, removed, procVars, now,
                 aborts, budgetVars>>

UnlinksReceipt(p) ==
  /\ pc[p] = "pruning"
  /\ excess > 0
  /\ \E j \in victims :
       /\ Oldest(j)
       /\ ~BudgetRelevant(j, callNow[p])
       /\ victims' = victims \ {j}
       /\ target' = j
       /\ removed' = receipt[j]
       /\ Write(j, NoReceipt)
  /\ Goto(p, "unlinking")
  /\ UNCHANGED <<jobFile, staged, scheduled, ended, budgetLock, excess, arg,
                 callNow, now, aborts, budgetVars>>

UnlinksJob(p) ==
  /\ pc[p] = "unlinking"
  /\ jobFile' = jobFile \ {target}
  /\ excess' = excess - 1
  /\ target' = Nothing
  /\ removed' = NoReceipt
  /\ Goto(p, "pruning")
  /\ UNCHANGED <<receipt, staged, scheduled, ended, budgetLock, victims, arg,
                 callNow, now, aborts, budgetVars>>

(* The receipt is put back if that write is not denied as well.            *)
RestoresReceipt(p) ==
  /\ WriteFaults
  /\ pc[p] = "unlinking"
  /\ \/ Write(target, removed)
     \/ UNCHANGED receipt
  /\ target' = Nothing
  /\ removed' = NoReceipt
  /\ Goto(p, "pruning")
  /\ UNCHANGED <<jobFile, staged, scheduled, ended, budgetLock, victims,
                 excess, arg, callNow, now, aborts, budgetVars>>

EndPrune(p) ==
  /\ pc[p] = "pruning"
  /\ excess <= 0 \/ victims = {}
  /\ budgetLock' = Nobody
  /\ victims' = {}
  /\ excess' = 0
  /\ BackToCaller(p)
  /\ UNCHANGED <<fileVars, target, removed, now, aborts,
                 budgetVars>>

-----------------------------------------------------------------------------
(* Consuming a job                                                         *)

BeginLease(c, j) ==
  /\ pc[c] = "idle"
  /\ Exists(j)
  /\ Calls(c, j, "leasing")
  /\ UNCHANGED <<fileVars, pruneVars, now, aborts, budgetVars>>

(* Mutant: a lease is taken over whenever somebody asks.                   *)
AlwaysLeasable(j, at) ==
  receipt[j].status \in {"pending", "deferred", "leased"}

(* Not leased by anybody whose lease still runs, that of the caller too.   *)
Leasable(j, at) ==
  \/ receipt[j].status \in {"pending", "deferred"}
  \/ /\ receipt[j].status = "leased"
     /\ receipt[j].expires <= at

(* A deferred job needs a budget now, and its job file to know it.         *)
BudgetRefused(j, at) ==
  receipt[j].status = "deferred" /\ (j \notin jobFile \/ OverBudget(j, at))

LeaseRefused(c) ==
  LET j == arg[c] IN
  /\ pc[c] = "leasing"
  /\ BudgetFree
  /\ ~Leasable(j, callNow[c]) \/ BudgetRefused(j, callNow[c])
  /\ Returns(c)
  /\ UNCHANGED <<fileVars, pruneVars, now, aborts, budgetVars>>

Leases(c) ==
  LET j == arg[c]
      at == callNow[c]
      deferred == receipt[j].status = "deferred"
  IN
  /\ pc[c] = "leasing"
  /\ BudgetFree
  /\ Leasable(j, at)
  /\ ~BudgetRefused(j, at)
  /\ Write(j, [receipt[j] EXCEPT !.status = "leased", !.owner = c,
                                 !.expires = at + LeaseTime,
                                 !.reserved = IF deferred THEN at ELSE @])
  /\ IF deferred THEN CountReservation(j, at)
                 ELSE UNCHANGED <<reservedOn, reservedFor>>
  /\ callNow' = [callNow EXCEPT ![c] = 0]
  /\ Goto(c, "working")
  /\ UNCHANGED <<jobFile, staged, scheduled, ended, pruneVars, arg, now,
                 aborts, endSeen>>

(* Mutant: the receipt is finished before the artifact is written.         *)
StagesNothing(c) ==
  /\ pc[c] = "working"
  /\ Goto(c, "staged")
  /\ UNCHANGED <<fileVars, pruneVars, arg, callNow, now, aborts, budgetVars>>

(* The runner answered with something to keep.                             *)
StagesCandidate(c) ==
  /\ pc[c] = "working"
  /\ staged' = staged \cup {<<arg[c], c>>}
  /\ Goto(c, "staged")
  /\ UNCHANGED <<jobFile, receipt, scheduled, ended, pruneVars, arg, callNow,
                 now, aborts, budgetVars>>

MayFinish(j, owner, status) ==
  /\ ReceiptFree(j)
  /\ ~(receipt[j].status = "leased" /\ receipt[j].owner # owner)
  /\ status \in FinishTransitions[receipt[j].status]

(* What a consumer at work asks for: nothing to keep, an answer that does  *)
(* not validate, or the candidate it staged.                               *)
Outcomes(c) ==
  IF pc[c] = "staged" THEN {"candidate"} ELSE {"noop", "failed"}

(* finish with the consumer's own name; afterwards it prunes.              *)
Finishes(c) ==
  LET j == arg[c] IN
  /\ pc[c] \in AtWork
  /\ \E status \in Outcomes(c) :
       /\ MayFinish(j, c, status)
       /\ Write(j, [Settled(j, status) EXCEPT
                      !.candidates = IF status = "candidate" THEN {c} ELSE @])
  /\ Calls(c, j, "wantPrune")
  /\ UNCHANGED <<jobFile, staged, scheduled, ended, pruneVars, now, aborts,
                 budgetVars>>

(* Refused: somebody else's lease, no such transition, no receipt any      *)
(* more. Denied: the old receipt stays and the consumer comes back later.  *)
FinishRefused(c) ==
  /\ pc[c] \in AtWork
  /\ \/ WriteFaults
     \/ /\ ReceiptFree(arg[c])
        /\ \E status \in Outcomes(c) : ~MayFinish(arg[c], c, status)
  /\ Returns(c)
  /\ UNCHANGED <<fileVars, pruneVars, now, aborts, budgetVars>>

(* release_for_retry, after a timeout or an error of the runner.           *)
Releases(c) ==
  LET j == arg[c]
      own == receipt[j].status = "leased" /\ receipt[j].owner = c
  IN
  /\ pc[c] \in AtWork
  /\ ReceiptFree(j)
  /\ IF own THEN Write(j, Settled(j, "pending")) ELSE UNCHANGED receipt
  /\ Returns(c)
  /\ UNCHANGED <<jobFile, staged, scheduled, ended, pruneVars, now, aborts,
                 budgetVars>>

(* finish without a lease: a reviewer decides on a candidate, a consumer   *)
(* turns a job's privacy class or a lost artifact down.                    *)
FinishesUnleased(c, j) ==
  /\ pc[c] = "idle"
  /\ \E status \in Terminal :
       /\ MayFinish(j, Nobody, status)
       /\ receipt[j].status = "candidate" \/ status = "failed"
       /\ Write(j, Settled(j, status))
  /\ Calls(c, j, "wantPrune")
  /\ UNCHANGED <<jobFile, staged, scheduled, ended, pruneVars, now, aborts,
                 budgetVars>>

(* recover_expired at a SessionStart, for one receipt. The time it works   *)
(* with may be older than now, which recovers fewer.                       *)
RecoversExpired(j) ==
  /\ ReceiptFree(j)
  /\ receipt[j].status = "leased"
  /\ receipt[j].expires <= now
  /\ Write(j, Settled(j, IF j \in jobFile THEN "pending" ELSE "failed"))
  /\ UNCHANGED <<jobFile, staged, scheduled, ended, pruneVars, procVars, now,
                 aborts, budgetVars>>

-----------------------------------------------------------------------------
(* Surroundings                                                            *)

(* A call that has waited two seconds for the budget lock raises.          *)
LockTimesOut(p) ==
  /\ aborts < MaxAborts
  /\ pc[p] \in {"reserving", "wantPrune", "leasing"}
  /\ ~BudgetFree
  /\ aborts' = aborts + 1
  /\ Returns(p)
  /\ UNCHANGED <<fileVars, pruneVars, now, budgetVars>>

(* The kernel releases the locks of a killed process.                      *)
Crash(p) ==
  /\ aborts < MaxAborts
  /\ pc[p] # "idle"
  /\ aborts' = aborts + 1
  /\ Returns(p)
  /\ IF budgetLock = p
       THEN /\ budgetLock' = Nobody
            /\ victims' = {}
            /\ excess' = 0
            /\ target' = Nothing
            /\ removed' = NoReceipt
       ELSE UNCHANGED pruneVars
  /\ UNCHANGED <<fileVars, now, budgetVars>>

Tick ==
  /\ now < MaxTime
  /\ SlowCalls \/ \A p \in Procs : pc[p] \notin InCall
  /\ now' = now + 1
  /\ UNCHANGED <<fileVars, pruneVars, procVars, aborts, budgetVars>>

HookStep(h) ==
  \/ \E j \in Jobs : BeginSubmit(h, j)
  \/ LooksForReceipt(h)
  \/ ReadsReceipt(h)
  \/ LooksForJob(h)
  \/ LoadsJob(h)
  \/ Reserves(h)
  \/ SavesCheckpoint(h)
  \/ \E s \in Sessions : EndOverlaps(h, s)

ConsumerStep(c) ==
  \/ \E j \in Jobs : BeginLease(c, j) \/ FinishesUnleased(c, j)
  \/ LeaseRefused(c)
  \/ Leases(c)
  \/ StagesCandidate(c)
  \/ Finishes(c)
  \/ FinishRefused(c)
  \/ Releases(c)

PruneStep(p) ==
  \/ PruneNotNeeded(p)
  \/ BeginPrune(p)
  \/ KeepsVictim(p)
  \/ UnlinksReceipt(p)
  \/ UnlinksJob(p)
  \/ RestoresReceipt(p)
  \/ EndPrune(p)

Next ==
  \/ \E h \in Hooks : HookStep(h)
  \/ \E c \in Consumers : ConsumerStep(c)
  \/ \E p \in Procs : PruneStep(p) \/ LockTimesOut(p) \/ Crash(p)
  \/ \E j \in Jobs : RecoversExpired(j)
  \/ Tick

Spec == Init /\ [][Next]_vars

-----------------------------------------------------------------------------
(* Properties                                                              *)

(* A lease that still runs is not handed to anybody else: whoever takes a  *)
(* leased job over finds it expired, whatever time its call began at.      *)
LeaseHolds ==
  [][\A j \in Jobs :
       /\ receipt[j].status = "leased"
       /\ receipt'[j].status = "leased"
       /\ receipt'[j] # receipt[j]
       => receipt[j].expires <= now]_vars

(* No day gets more reservations than the daily budget, whatever retention *)
(* deletes and deferred jobs get later.                                    *)
DailyBudget == MaxPerDay > 0 => \A d \in Days : reservedOn[d] <= MaxPerDay

(* A session gets no more reservations than its budget until it ends;      *)
(* its end closes the budget, and retention may forget what it used.       *)
SessionBudget ==
  MaxPerSession > 0 =>
    \A s \in Sessions \ endSeen : reservedFor[s] <= MaxPerSession

(* A receipt that points to candidates points to staged ones, and one that *)
(* waits for review points to some.                                        *)
CandidatesStaged ==
  \A j \in Jobs :
    /\ \A c \in receipt[j].candidates : <<j, c>> \in staged
    /\ receipt[j].status \in {"candidate", "promoted"}
         => receipt[j].candidates # {}

(* What a receipt says of its job, a pair that is being deleted included.  *)
Visible(j) == IF target = j THEN removed.status ELSE receipt[j].status

Lifecycle ==
  INSTANCE ReceiptLifecycle WITH status <- [j \in Jobs |-> Visible(j)]

(* The receipts behave as the lifecycle of a job says.                     *)
ImplementsLifecycle == Lifecycle!Spec

=============================================================================
