------------------------ MODULE CandidateSpoolProofs ------------------------
(***************************************************************************)
(* Theorems about CandidateSpool for any finite set of jobs, any sets of   *)
(* hooks and consumers, all budgets, and any number of crashes, denied     *)
(* writes and lock timeouts, with calls that take as long as they like.    *)
(***************************************************************************)
EXTENDS CandidateSpool, FiniteSetTheorems, TLAPS

-----------------------------------------------------------------------------
(* Types                                                                   *)

(* The absence of a receipt is a value of its variable.                    *)
LEMMA NoReceiptType == NoReceipt \in Receipts
  BY DEF NoReceipt, Receipts, Never

(* A changed receipt file leaves receipts.                                 *)
LEMMA WriteType ==
  ASSUME TypeOK, NEW j \in Jobs, NEW r \in Receipts, Write(j, r)
  PROVE  receipt' \in [Jobs -> Receipts]
  BY DEF TypeOK, Write

(* So does a settled one.                                                  *)
LEMMA SettledType ==
  ASSUME TypeOK, NEW j \in Jobs, NEW status \in Statuses
  PROVE  Settled(j, status) \in Receipts
<1>1. receipt[j] \in Receipts /\ status \in Statuses \cup {"absent"}
  BY DEF TypeOK
<1>2. Never \in Int
  BY DEF Never
<1> QED
  BY <1>1, <1>2 DEF Settled, Receipts

(* A new one is a receipt as well.                                         *)
LEMMA NewReceiptType ==
  ASSUME NEW j, NEW status \in Statuses, NEW at \in Int
  PROVE  NewReceipt(j, status, at) \in Receipts
<1>1. status \in Statuses \cup {"absent"}
  OBVIOUS
<1>2. (IF status = "pending" THEN at ELSE Never) \in Int
  BY DEF Never
<1> QED
  BY <1>1, <1>2, NoReceiptType DEF NewReceipt, Receipts

(* And one that finish gave its candidate.                                 *)
LEMMA FinishedType ==
  ASSUME TypeOK, NEW j \in Jobs, NEW status \in Statuses,
         NEW c \in Consumers
  PROVE  [Settled(j, status) EXCEPT
            !.candidates = IF status = "candidate" THEN {c} ELSE @]
           \in Receipts
<1>1. Settled(j, status) \in Receipts
  BY SettledType
<1> QED
  BY <1>1 DEF Receipts

(* A call that begins, moves on or returns leaves processes.               *)
LEMMA ProcTypes ==
  ASSUME TypeOK, NEW p \in Procs,
         \/ \E j \in Jobs, place \in PCs : Calls(p, j, place)
         \/ Returns(p)
         \/ \E condition \in BOOLEAN, place \in PCs :
              ReturnsUnless(p, condition, place)
         \/ \E place \in PCs : Goto(p, place) /\ UNCHANGED <<arg, callNow>>
         \/ BackToCaller(p)
  PROVE  /\ pc' \in [Procs -> PCs]
         /\ arg' \in [Procs -> Jobs]
         /\ callNow' \in [Procs -> 0 .. MaxTime]
<1>1. AnyJob \in Jobs
  BY SpoolAssumption DEF AnyJob
<1>2. 0 \in 0 .. MaxTime /\ "idle" \in PCs
  BY SpoolAssumption DEF PCs
<1>3. "checkpointing" \in PCs
  BY DEF PCs
<1> QED
  BY <1>1, <1>2, <1>3
     DEF TypeOK, Calls, Returns, ReturnsUnless, BackToCaller, Goto

(* A reservation leaves counts.                                            *)
LEMMA CountType ==
  ASSUME TypeOK, NEW j \in Jobs, NEW at, CountReservation(j, at)
  PROVE  /\ reservedOn' \in [Days -> Nat]
         /\ reservedFor' \in [Sessions -> Nat]
<1>1. ASSUME NEW S, NEW f \in [S -> Nat], NEW k
      PROVE  [f EXCEPT ![k] = @ + 1] \in [S -> Nat]
  <2>1. CASE k \in S
    <3>1. f[k] + 1 \in Nat
      BY <2>1
    <3> QED
      BY <2>1, <3>1
  <2>2. CASE k \notin S
    BY <2>2
  <2> QED
    BY <2>1, <2>2
<1> QED
  BY <1>1 DEF TypeOK, CountReservation

(* The surplus of records is a number.                                     *)
LEMMA SurplusType == Surplus \in Int
<1>1. IsFiniteSet(Records)
  BY SpoolAssumption, FS_Subset DEF Records
<1> QED
  BY <1>1, FS_CardinalityType, SpoolAssumption DEF Surplus

(* Init gives every variable its type.                                     *)
LEMMA TypesInit == Init => TypeOK
<1> SUFFICES ASSUME Init
             PROVE  TypeOK
  OBVIOUS
<1>1. AnyJob \in Jobs
  BY SpoolAssumption DEF AnyJob
<1>2. /\ now \in 0 .. MaxTime
      /\ aborts \in 0 .. MaxAborts
      /\ callNow \in [Procs -> 0 .. MaxTime]
  BY SpoolAssumption DEF Init
<1> QED
  BY <1>1, <1>2, NoReceiptType DEF Init, TypeOK, PCs

(* A lifecycle hook keeps the types.                                       *)
LEMMA TypesHook ==
  ASSUME TypeOK, NEW h \in Hooks, HookStep(h)
  PROVE  TypeOK'
<1> h \in Procs
  BY DEF Procs
<1> USE DEF fileVars, pruneVars, budgetVars
<1>1. ASSUME NEW j \in Jobs, BeginSubmit(h, j)
      PROVE  TypeOK'
  <2>1. "looking" \in PCs
    BY DEF PCs
  <2> QED
    BY <1>1, <2>1, ProcTypes DEF BeginSubmit, TypeOK
<1>2. CASE LooksForReceipt(h)
  <2>1. /\ pc' \in [Procs -> PCs]
        /\ arg' \in [Procs -> Jobs]
        /\ callNow' \in [Procs -> 0 .. MaxTime]
    BY <1>2, ProcTypes DEF LooksForReceipt, PCs
  <2> QED
    BY <1>2, <2>1 DEF LooksForReceipt, TypeOK
<1>3. CASE ReadsReceipt(h)
  <2>1. /\ pc' \in [Procs -> PCs]
        /\ arg' \in [Procs -> Jobs]
        /\ callNow' \in [Procs -> 0 .. MaxTime]
    <3>1. "checkpointing" \in PCs /\ (Exists(arg[h]) /\ arg[h] \in jobFile) \in BOOLEAN
      BY DEF PCs
    <3> QED
      BY <1>3, <3>1, ProcTypes DEF ReadsReceipt
  <2> QED
    BY <1>3, <2>1 DEF ReadsReceipt, TypeOK
<1>4. CASE LooksForJob(h)
  <2>1. /\ pc' \in [Procs -> PCs]
        /\ arg' \in [Procs -> Jobs]
        /\ callNow' \in [Procs -> 0 .. MaxTime]
    BY <1>4, ProcTypes DEF LooksForJob, PCs
  <2> QED
    BY <1>4, <2>1 DEF LooksForJob, TypeOK
<1>5. CASE LoadsJob(h)
  <2>1. /\ pc' \in [Procs -> PCs]
        /\ arg' \in [Procs -> Jobs]
        /\ callNow' \in [Procs -> 0 .. MaxTime]
    <3>1. "reserving" \in PCs /\ (arg[h] \in jobFile) \in BOOLEAN
      BY DEF PCs
    <3> QED
      BY <1>5, <3>1, ProcTypes DEF LoadsJob
  <2> QED
    BY <1>5, <2>1 DEF LoadsJob, TypeOK
<1>6. CASE Reserves(h)
  <2>1. arg[h] \in Jobs /\ callNow[h] \in Int
    BY SpoolAssumption DEF TypeOK
  <2>2. /\ pc' \in [Procs -> PCs]
        /\ arg' \in [Procs -> Jobs]
        /\ callNow' \in [Procs -> 0 .. MaxTime]
    BY <1>6, ProcTypes DEF Reserves, PCs
  <2>3. \A status \in Statuses :
          NewReceipt(arg[h], status, callNow[h]) \in Receipts
    BY <2>1, NewReceiptType
  <2>4. receipt' \in [Jobs -> Receipts]
    BY <1>6, <2>1, <2>3, WriteType DEF Reserves, Statuses, TypeOK
  <2>5. reservedOn' \in [Days -> Nat] /\ reservedFor' \in [Sessions -> Nat]
    BY <1>6, <2>1, CountType DEF Reserves, TypeOK
  <2>6. endSeen' \subseteq Sessions
    BY <1>6, <2>1, SpoolAssumption DEF Reserves, TypeOK
  <2> QED
    BY <1>6, <2>2, <2>4, <2>5, <2>6 DEF Reserves, TypeOK
<1>7. CASE SavesCheckpoint(h)
  <2>1. /\ pc' \in [Procs -> PCs]
        /\ arg' \in [Procs -> Jobs]
        /\ callNow' \in [Procs -> 0 .. MaxTime]
    BY <1>7, ProcTypes DEF SavesCheckpoint
  <2>2. scheduled' \subseteq Jobs /\ ended' \subseteq Sessions
    BY <1>7, SpoolAssumption DEF SavesCheckpoint, TypeOK
  <2> QED
    BY <1>7, <2>1, <2>2 DEF SavesCheckpoint, TypeOK
<1>8. ASSUME NEW s \in Sessions, EndOverlaps(h, s)
      PROVE  TypeOK'
  BY <1>8 DEF EndOverlaps, TypeOK, procVars
<1> QED
  BY <1>1, <1>2, <1>3, <1>4, <1>5, <1>6, <1>7, <1>8 DEF HookStep

(* A consumer keeps the types.                                             *)
LEMMA TypesConsumer ==
  ASSUME TypeOK, NEW c \in Consumers, ConsumerStep(c)
  PROVE  TypeOK'
<1> c \in Procs
  BY DEF Procs
<1> USE DEF fileVars, pruneVars, budgetVars
<1>1. ASSUME NEW j \in Jobs, BeginLease(c, j)
      PROVE  TypeOK'
  <2>1. "leasing" \in PCs
    BY DEF PCs
  <2> QED
    BY <1>1, <2>1, ProcTypes DEF BeginLease, TypeOK
<1>2. ASSUME NEW j \in Jobs, FinishesUnleased(c, j)
      PROVE  TypeOK'
  <2>1. "wantPrune" \in PCs /\ Terminal \subseteq Statuses
    BY DEF PCs, Terminal, Statuses
  <2>2. receipt' \in [Jobs -> Receipts]
    BY <1>2, <2>1, SettledType, WriteType DEF FinishesUnleased
  <2>3. /\ pc' \in [Procs -> PCs]
        /\ arg' \in [Procs -> Jobs]
        /\ callNow' \in [Procs -> 0 .. MaxTime]
    BY <1>2, <2>1, ProcTypes DEF FinishesUnleased
  <2> QED
    BY <1>2, <2>2, <2>3 DEF FinishesUnleased, TypeOK
<1>3. CASE LeaseRefused(c)
  <2>1. /\ pc' \in [Procs -> PCs]
        /\ arg' \in [Procs -> Jobs]
        /\ callNow' \in [Procs -> 0 .. MaxTime]
    BY <1>3, ProcTypes DEF LeaseRefused
  <2> QED
    BY <1>3, <2>1 DEF LeaseRefused, TypeOK
<1>4. CASE Leases(c)
  <2>1. /\ arg[c] \in Jobs
        /\ callNow[c] \in Int
        /\ callNow[c] + LeaseTime \in Int
        /\ receipt[arg[c]] \in Receipts
    BY SpoolAssumption DEF TypeOK
  <2>2. receipt' \in [Jobs -> Receipts]
    <3> DEFINE r == [receipt[arg[c]] EXCEPT
                       !.status = "leased", !.owner = c,
                       !.expires = callNow[c] + LeaseTime,
                       !.reserved = IF receipt[arg[c]].status = "deferred"
                                      THEN callNow[c] ELSE @]
    <3>1. r \in Receipts
      BY <2>1 DEF Receipts, Statuses
    <3>2. Write(arg[c], r)
      BY <1>4 DEF Leases
    <3> QED
      BY <2>1, <3>1, <3>2, WriteType
  <2>3. reservedOn' \in [Days -> Nat] /\ reservedFor' \in [Sessions -> Nat]
    BY <1>4, <2>1, CountType DEF Leases, TypeOK
  <2>5. /\ pc' \in [Procs -> PCs]
        /\ callNow' \in [Procs -> 0 .. MaxTime]
    BY <1>4, SpoolAssumption DEF Leases, TypeOK, Goto, PCs
  <2> QED
    BY <1>4, <2>2, <2>3, <2>5 DEF Leases, TypeOK
<1>5. CASE StagesCandidate(c)
  <2>1. /\ pc' \in [Procs -> PCs]
        /\ arg' \in [Procs -> Jobs]
        /\ callNow' \in [Procs -> 0 .. MaxTime]
    BY <1>5, ProcTypes DEF StagesCandidate, PCs
  <2>2. staged' \subseteq Jobs \X Consumers
    BY <1>5 DEF StagesCandidate, TypeOK
  <2> QED
    BY <1>5, <2>1, <2>2 DEF StagesCandidate, TypeOK
<1>6. CASE Finishes(c)
  <2>1. "wantPrune" \in PCs /\ Outcomes(c) \subseteq Statuses
    BY DEF PCs, Outcomes, Statuses
  <2>2. arg[c] \in Jobs
    BY DEF TypeOK
  <2>3. receipt' \in [Jobs -> Receipts]
    BY <1>6, <2>1, <2>2, FinishedType, WriteType DEF Finishes
  <2>4. /\ pc' \in [Procs -> PCs]
        /\ arg' \in [Procs -> Jobs]
        /\ callNow' \in [Procs -> 0 .. MaxTime]
    BY <1>6, <2>1, <2>2, ProcTypes DEF Finishes
  <2> QED
    BY <1>6, <2>3, <2>4 DEF Finishes, TypeOK
<1>7. CASE FinishRefused(c)
  <2>1. /\ pc' \in [Procs -> PCs]
        /\ arg' \in [Procs -> Jobs]
        /\ callNow' \in [Procs -> 0 .. MaxTime]
    BY <1>7, ProcTypes DEF FinishRefused
  <2> QED
    BY <1>7, <2>1 DEF FinishRefused, TypeOK
<1>8. CASE Releases(c)
  <2>1. arg[c] \in Jobs /\ "pending" \in Statuses
    BY DEF TypeOK, Statuses
  <2>2. receipt' \in [Jobs -> Receipts]
    BY <1>8, <2>1, SettledType, WriteType DEF Releases, TypeOK
  <2>3. /\ pc' \in [Procs -> PCs]
        /\ arg' \in [Procs -> Jobs]
        /\ callNow' \in [Procs -> 0 .. MaxTime]
    BY <1>8, ProcTypes DEF Releases
  <2> QED
    BY <1>8, <2>2, <2>3 DEF Releases, TypeOK
<1> QED
  BY <1>1, <1>2, <1>3, <1>4, <1>5, <1>6, <1>7, <1>8 DEF ConsumerStep

(* A prune keeps the types.                                                *)
LEMMA TypesPrune ==
  ASSUME TypeOK, NEW p \in Procs, PruneStep(p)
  PROVE  TypeOK'
<1> USE DEF fileVars, pruneVars, budgetVars
<1>1. "checkpointing" \in PCs /\ "pruning" \in PCs /\ "unlinking" \in PCs
  BY DEF PCs
<1>2. CASE PruneNotNeeded(p)
  <2>1. /\ pc' \in [Procs -> PCs]
        /\ arg' \in [Procs -> Jobs]
        /\ callNow' \in [Procs -> 0 .. MaxTime]
    BY <1>1, <1>2, ProcTypes DEF PruneNotNeeded
  <2> QED
    BY <1>2, <2>1 DEF PruneNotNeeded, TypeOK
<1>3. CASE BeginPrune(p)
  <2>1. /\ pc' \in [Procs -> PCs]
        /\ arg' \in [Procs -> Jobs]
        /\ callNow' \in [Procs -> 0 .. MaxTime]
    BY <1>1, <1>3, ProcTypes DEF BeginPrune
  <2>2. excess' \in Int
    BY <1>3, SurplusType DEF BeginPrune
  <2> QED
    BY <1>3, <2>1, <2>2 DEF BeginPrune, TypeOK
<1>4. CASE KeepsVictim(p)
  BY <1>4 DEF KeepsVictim, TypeOK, procVars
<1>5. CASE UnlinksReceipt(p)
  <2>1. PICK j \in victims : /\ victims' = victims \ {j}
                             /\ target' = j
                             /\ removed' = receipt[j]
                             /\ Write(j, NoReceipt)
    BY <1>5 DEF UnlinksReceipt
  <2>2. j \in Jobs
    BY DEF TypeOK
  <2>3. /\ pc' \in [Procs -> PCs]
        /\ arg' \in [Procs -> Jobs]
        /\ callNow' \in [Procs -> 0 .. MaxTime]
    BY <1>1, <1>5, ProcTypes DEF UnlinksReceipt
  <2>4. receipt' \in [Jobs -> Receipts]
    BY <2>1, <2>2, NoReceiptType, WriteType
  <2> QED
    BY <1>5, <2>1, <2>2, <2>3, <2>4 DEF UnlinksReceipt, TypeOK
<1>6. CASE UnlinksJob(p)
  <2>1. /\ pc' \in [Procs -> PCs]
        /\ arg' \in [Procs -> Jobs]
        /\ callNow' \in [Procs -> 0 .. MaxTime]
    BY <1>1, <1>6, ProcTypes DEF UnlinksJob
  <2> QED
    BY <1>6, <2>1, NoReceiptType DEF UnlinksJob, TypeOK
<1>7. CASE RestoresReceipt(p)
  <2>1. /\ pc' \in [Procs -> PCs]
        /\ arg' \in [Procs -> Jobs]
        /\ callNow' \in [Procs -> 0 .. MaxTime]
    BY <1>1, <1>7, ProcTypes DEF RestoresReceipt
  <2>2. receipt' \in [Jobs -> Receipts]
    BY <1>7 DEF RestoresReceipt, Write, TypeOK
  <2> QED
    BY <1>7, <2>1, <2>2, NoReceiptType DEF RestoresReceipt, TypeOK
<1>8. CASE EndPrune(p)
  <2>1. /\ pc' \in [Procs -> PCs]
        /\ arg' \in [Procs -> Jobs]
        /\ callNow' \in [Procs -> 0 .. MaxTime]
    BY <1>1, <1>8, ProcTypes DEF EndPrune
  <2> QED
    BY <1>8, <2>1 DEF EndPrune, TypeOK
<1> QED
  BY <1>2, <1>3, <1>4, <1>5, <1>6, <1>7, <1>8 DEF PruneStep

(* So do the clock, the recovery of leases and the calls that end early.   *)
LEMMA TypesRest ==
  ASSUME TypeOK,
         \/ \E p \in Procs : LockTimesOut(p) \/ Crash(p)
         \/ \E j \in Jobs : RecoversExpired(j)
         \/ Tick
  PROVE  TypeOK'
<1> USE DEF fileVars, pruneVars, budgetVars
<1> USE SpoolAssumption
<1>1. ASSUME NEW p \in Procs, LockTimesOut(p)
      PROVE  TypeOK'
  <2>1. /\ pc' \in [Procs -> PCs]
        /\ arg' \in [Procs -> Jobs]
        /\ callNow' \in [Procs -> 0 .. MaxTime]
    BY <1>1, ProcTypes DEF LockTimesOut
  <2> QED
    BY <1>1, <2>1 DEF LockTimesOut, TypeOK
<1>2. ASSUME NEW p \in Procs, Crash(p)
      PROVE  TypeOK'
  <2>1. /\ pc' \in [Procs -> PCs]
        /\ arg' \in [Procs -> Jobs]
        /\ callNow' \in [Procs -> 0 .. MaxTime]
    BY <1>2, ProcTypes DEF Crash
  <2>2. aborts' \in 0 .. MaxAborts
    BY <1>2 DEF Crash, TypeOK
  <2> QED
    BY <1>2, <2>1, <2>2, NoReceiptType DEF Crash, TypeOK
<1>3. ASSUME NEW j \in Jobs, RecoversExpired(j)
      PROVE  TypeOK'
  <2>1. receipt' \in [Jobs -> Receipts]
    BY <1>3, SettledType, WriteType DEF RecoversExpired, Statuses
  <2> QED
    BY <1>3, <2>1 DEF RecoversExpired, TypeOK, procVars
<1>4. CASE Tick
  BY <1>4 DEF Tick, TypeOK, procVars
<1> QED
  BY <1>1, <1>2, <1>3, <1>4

(* Every step keeps the types.                                             *)
LEMMA TypesNext == TypeOK /\ [Next]_vars => TypeOK'
<1> SUFFICES ASSUME TypeOK, [Next]_vars
             PROVE  TypeOK'
  OBVIOUS
<1>1. CASE UNCHANGED vars
  BY <1>1 DEF vars, fileVars, pruneVars, procVars, budgetVars, TypeOK
<1>2. CASE Next
  BY <1>2, TypesHook, TypesConsumer, TypesPrune, TypesRest DEF Next
<1> QED
  BY <1>1, <1>2

(* Whatever the processes do, every file, lock, clock and process of the   *)
(* spool stays what it is: receipts only ever hold what the code writes.   *)
THEOREM SpoolTypeCorrect == Spec => []TypeOK
  BY TypesInit, TypesNext, PTL DEF Spec

-----------------------------------------------------------------------------
(* The inductive invariant                                                 *)

(* A process prunes exactly while it holds the budget lock, and one that   *)
(* is between the two unlinks has a target.                                *)
LockHeld ==
  /\ \A p \in Procs : pc[p] \in InPrune <=> budgetLock = p
  /\ \A p \in Procs :
       pc[p] = "unlinking" <=> budgetLock = p /\ target # Nothing
  /\ BudgetFree => target = Nothing /\ victims = {}

(* A prune only ever deletes what is decided: what it has yet to look at   *)
(* cannot change any more, and what it has unlinked has no receipt now.    *)
VictimsDecided ==
  /\ \A j \in victims : receipt[j].status \in Terminal
  /\ target # Nothing => /\ receipt[target].status = "absent"
                         /\ removed.status \in Terminal

(* No call works with a time that is yet to come.                          *)
TimesPast == \A p \in Procs : callNow[p] <= now

(* Candidates are staged before anything refers to them, a consumer at     *)
(* work and a receipt that may be put back included.                       *)
StagedFirst ==
  /\ CandidatesStaged
  /\ target # Nothing =>
       /\ \A c \in removed.candidates : <<target, c>> \in staged
       /\ removed.status = "promoted" => removed.candidates # {}
  /\ \A c \in Consumers : pc[c] = "staged" => <<arg[c], c>> \in staged

SpoolInv ==
  /\ TypeOK
  /\ LockHeld
  /\ VictimsDecided
  /\ TimesPast
  /\ StagedFirst

(* Init gives the invariant.                                               *)
LEMMA SpoolInit == Init => SpoolInv
<1> SUFFICES ASSUME Init
             PROVE  SpoolInv
  OBVIOUS
<1>1. TypeOK
  BY TypesInit
<1>2. LockHeld
  BY SpoolAssumption DEF Init, LockHeld, InPrune, Procs
<1>3. VictimsDecided
  BY DEF Init, VictimsDecided
<1>4. TimesPast
  BY DEF Init, TimesPast
<1>5. StagedFirst
  BY DEF Init, StagedFirst, CandidatesStaged, NoReceipt, Procs
<1> QED
  BY <1>1, <1>2, <1>3, <1>4, <1>5 DEF SpoolInv

-----------------------------------------------------------------------------
(* Steps outside a prune                                                   *)

(* A process goes from one place outside a prune to another.               *)
StaysOut(p) ==
  /\ pc[p] \notin InPrune
  /\ \E place \in PCs \ InPrune : Goto(p, place)
  /\ UNCHANGED pruneVars

(* The step of a hook.                                                     *)
LEMMA HookStaysOut ==
  ASSUME TypeOK, NEW h \in Hooks, HookStep(h)
  PROVE  StaysOut(h)
<1> h \in Procs
  BY DEF Procs
<1>1. ASSUME UNCHANGED pc, pc[h] \in PCs \ InPrune
      PROVE  \E place \in PCs \ InPrune : Goto(h, place)
  BY <1>1 DEF Goto, TypeOK
<1>2. ASSUME NEW place \in {"idle", "looking", "reading", "checkingJob",
                            "loadingJob", "reserving", "wantPrune",
                            "checkpointing"}
      PROVE  place \in PCs \ InPrune
  BY DEF PCs, InPrune
<1> USE DEF StaysOut, InPrune
<1>3. ASSUME NEW j \in Jobs, BeginSubmit(h, j)
      PROVE  StaysOut(h)
  BY <1>2, <1>3 DEF BeginSubmit, Calls
<1>4. CASE LooksForReceipt(h)
  BY <1>2, <1>4 DEF LooksForReceipt
<1>5. CASE ReadsReceipt(h)
  BY <1>2, <1>5 DEF ReadsReceipt, ReturnsUnless, Returns
<1>6. CASE LooksForJob(h)
  BY <1>2, <1>6 DEF LooksForJob
<1>7. CASE LoadsJob(h)
  BY <1>2, <1>7 DEF LoadsJob, ReturnsUnless, Returns
<1>8. CASE Reserves(h)
  BY <1>2, <1>8 DEF Reserves
<1>9. CASE SavesCheckpoint(h)
  BY <1>2, <1>9 DEF SavesCheckpoint, Returns
<1>10. ASSUME NEW s \in Sessions, EndOverlaps(h, s)
       PROVE  StaysOut(h)
  BY <1>1, <1>2, <1>10 DEF EndOverlaps, procVars
<1> QED
  BY <1>3, <1>4, <1>5, <1>6, <1>7, <1>8, <1>9, <1>10 DEF HookStep

(* The step of a consumer.                                                 *)
LEMMA ConsumerStaysOut ==
  ASSUME TypeOK, NEW c \in Consumers, ConsumerStep(c)
  PROVE  StaysOut(c)
<1>1. ASSUME NEW place \in {"idle", "leasing", "working", "staged",
                            "wantPrune"}
      PROVE  place \in PCs \ InPrune
  BY DEF PCs, InPrune
<1> USE DEF StaysOut, InPrune, AtWork
<1>2. ASSUME NEW j \in Jobs, BeginLease(c, j)
      PROVE  StaysOut(c)
  BY <1>1, <1>2 DEF BeginLease, Calls
<1>3. ASSUME NEW j \in Jobs, FinishesUnleased(c, j)
      PROVE  StaysOut(c)
  BY <1>1, <1>3 DEF FinishesUnleased, Calls
<1>4. CASE LeaseRefused(c)
  BY <1>1, <1>4 DEF LeaseRefused, Returns
<1>5. CASE Leases(c)
  BY <1>1, <1>5 DEF Leases
<1>6. CASE StagesCandidate(c)
  BY <1>1, <1>6 DEF StagesCandidate
<1>7. CASE Finishes(c)
  BY <1>1, <1>7 DEF Finishes, Calls
<1>8. CASE FinishRefused(c)
  BY <1>1, <1>8 DEF FinishRefused, Returns
<1>9. CASE Releases(c)
  BY <1>1, <1>9 DEF Releases, Returns
<1> QED
  BY <1>2, <1>3, <1>4, <1>5, <1>6, <1>7, <1>8, <1>9 DEF ConsumerStep

(* Who stays out leaves the lock where it is.                              *)
LEMMA OutKeepsLock ==
  ASSUME TypeOK, LockHeld, NEW p \in Procs, StaysOut(p)
  PROVE  LockHeld'
<1>1. /\ pc'[p] \notin InPrune
      /\ \A q \in Procs \ {p} : pc'[q] = pc[q]
  BY DEF StaysOut, Goto, TypeOK
<1> QED
  BY <1>1 DEF StaysOut, LockHeld, pruneVars, InPrune, BudgetFree

(* Every step keeps the lock with the process that prunes.                 *)
LEMMA LockStep ==
  ASSUME SpoolInv, [Next]_vars
  PROVE  LockHeld'
<1> TypeOK /\ LockHeld
  BY DEF SpoolInv
<1> USE SpoolAssumption
<1>1. ASSUME NEW h \in Hooks, HookStep(h)
      PROVE  LockHeld'
  BY <1>1, HookStaysOut, OutKeepsLock DEF Procs
<1>2. ASSUME NEW c \in Consumers, ConsumerStep(c)
      PROVE  LockHeld'
  BY <1>2, ConsumerStaysOut, OutKeepsLock DEF Procs
<1>3. ASSUME NEW p \in Procs, PruneStep(p)
      PROVE  LockHeld'
  <2> USE DEF pruneVars, InPrune, Goto, TypeOK, LockHeld, BudgetFree
  <2>1. CASE PruneNotNeeded(p)
    <3>1. StaysOut(p)
      BY <2>1 DEF PruneNotNeeded, StaysOut, BackToCaller, ReturnsUnless,
                  Returns, PCs
    <3> QED
      BY <3>1, OutKeepsLock
  <2>2. CASE BeginPrune(p)
    BY <2>2 DEF BeginPrune
  <2>3. CASE KeepsVictim(p)
    BY <2>3 DEF KeepsVictim, procVars
  <2>4. CASE UnlinksReceipt(p)
    BY <2>4 DEF UnlinksReceipt
  <2>5. CASE UnlinksJob(p)
    BY <2>5 DEF UnlinksJob
  <2>6. CASE RestoresReceipt(p)
    BY <2>6 DEF RestoresReceipt
  <2>7. CASE EndPrune(p)
    BY <2>7 DEF EndPrune, BackToCaller, ReturnsUnless, Returns
  <2> QED
    BY <1>3, <2>1, <2>2, <2>3, <2>4, <2>5, <2>6, <2>7 DEF PruneStep
<1>4. ASSUME NEW p \in Procs, LockTimesOut(p)
      PROVE  LockHeld'
  <2>1. StaysOut(p)
    BY <1>4 DEF LockTimesOut, StaysOut, Returns, PCs, InPrune
  <2> QED
    BY <2>1, OutKeepsLock
<1>5. ASSUME NEW p \in Procs, Crash(p)
      PROVE  LockHeld'
  BY <1>5 DEF Crash, Returns, Goto, TypeOK, LockHeld, BudgetFree, InPrune,
              pruneVars
<1>6. ASSUME NEW j \in Jobs, RecoversExpired(j)
      PROVE  LockHeld'
  BY <1>6 DEF RecoversExpired, LockHeld, BudgetFree, pruneVars, procVars
<1>7. CASE Tick \/ UNCHANGED vars
  BY <1>7 DEF Tick, vars, LockHeld, BudgetFree, pruneVars, procVars
<1> QED
  BY <1>1, <1>2, <1>3, <1>4, <1>5, <1>6, <1>7 DEF Next

(* No call takes a time from the future with it.                           *)
LEMMA TimeStep ==
  ASSUME SpoolInv, [Next]_vars
  PROVE  TimesPast'
<1> TypeOK /\ TimesPast
  BY DEF SpoolInv
<1> USE SpoolAssumption
<1>1. ASSUME NEW p \in Procs, UNCHANGED now,
             callNow' = callNow \/ callNow' = [callNow EXCEPT ![p] = 0]
               \/ callNow' = [callNow EXCEPT ![p] = now]
      PROVE  TimesPast'
  BY <1>1 DEF TypeOK, TimesPast
<1>2. ASSUME NEW h \in Hooks, HookStep(h)
      PROVE  TimesPast'
  BY <1>1, <1>2
     DEF HookStep, Procs, BeginSubmit, LooksForReceipt, ReadsReceipt,
         LooksForJob, LoadsJob, Reserves, SavesCheckpoint, EndOverlaps, Calls,
         Returns, ReturnsUnless, procVars
<1>3. ASSUME NEW c \in Consumers, ConsumerStep(c)
      PROVE  TimesPast'
  BY <1>1, <1>3
     DEF ConsumerStep, Procs, BeginLease, FinishesUnleased, LeaseRefused,
         Leases, StagesCandidate, Finishes, FinishRefused, Releases, Calls,
         Returns
<1>4. ASSUME NEW p \in Procs, PruneStep(p) \/ LockTimesOut(p) \/ Crash(p)
      PROVE  TimesPast'
  BY <1>1, <1>4
     DEF PruneStep, PruneNotNeeded, BeginPrune, KeepsVictim, UnlinksReceipt,
         UnlinksJob, RestoresReceipt, EndPrune, LockTimesOut, Crash,
         BackToCaller, Returns, ReturnsUnless, procVars
<1>5. ASSUME NEW j \in Jobs, RecoversExpired(j)
      PROVE  TimesPast'
  BY <1>5 DEF RecoversExpired, TimesPast, procVars
<1>6. CASE Tick
  BY <1>6 DEF Tick, TypeOK, TimesPast, procVars
<1>7. CASE UNCHANGED vars
  BY <1>7 DEF vars, TimesPast, procVars
<1> QED
  BY <1>2, <1>3, <1>4, <1>5, <1>6, <1>7 DEF Next

-----------------------------------------------------------------------------
(* What happens to a receipt                                               *)

Moves(j, r, from, to) == receipt[j].status \in from /\ r.status \in to

Untouched(j, r) == r.candidates = receipt[j].candidates

Submitted(j, r) ==
  Moves(j, r, {"absent"}, {"pending", "deferred"}) /\ r.candidates = {}

TakenOver(j, r) ==
  /\ Moves(j, r, {"pending", "deferred", "leased"}, {"leased"})
  /\ receipt[j].status = "leased" => receipt[j].expires <= now
  /\ Untouched(j, r)

GivenBack(j, r) == Moves(j, r, {"leased"}, {"pending"}) /\ Untouched(j, r)

Kept(j, r) ==
  /\ Moves(j, r, {"pending", "leased"}, {"candidate"})
  /\ \E c \in Consumers : r.candidates = {c} /\ <<j, c>> \in staged

TurnedDown(j, r) ==
  /\ \/ Moves(j, r, {"pending", "leased"}, {"noop"})
     \/ Moves(j, r, {"pending", "leased", "deferred"}, {"failed"})
  /\ Untouched(j, r)

Reviewed(j, r) == Moves(j, r, {"candidate"}, Terminal) /\ Untouched(j, r)

(* What anybody but a prune may write to a receipt.                        *)
Lawful(j, r) ==
  \/ Submitted(j, r)
  \/ TakenOver(j, r)
  \/ GivenBack(j, r)
  \/ Kept(j, r)
  \/ TurnedDown(j, r)
  \/ Reviewed(j, r)

(* A step outside a prune: one lawful write, or none, and no prune is in   *)
(* the middle of the pair that is written.                                 *)
WritesLawfully ==
  \/ UNCHANGED receipt
  \/ \E j \in Jobs, r \in Receipts :
       ReceiptFree(j) /\ Lawful(j, r) /\ Write(j, r)

(* A hook writes the receipt of a job that has none.                       *)
LEMMA HookLawful ==
  ASSUME SpoolInv, NEW h \in Hooks, HookStep(h)
  PROVE  WritesLawfully
<1> TypeOK /\ LockHeld
  BY DEF SpoolInv
<1>1. CASE Reserves(h)
  <2> DEFINE j == arg[h]
             new(status) == NewReceipt(j, status, callNow[h])
  <2>1. j \in Jobs /\ callNow[h] \in Int
    BY SpoolAssumption DEF TypeOK, Procs
  <2>2. CASE UNCHANGED receipt
    BY <2>2 DEF WritesLawfully
  <2>3. CASE /\ ~Exists(j)
             /\ \E status \in {"pending", "deferred"} : Write(j, new(status))
    <3>1. PICK status \in {"pending", "deferred"} : Write(j, new(status))
      BY <2>3
    <3>2. new(status) \in Receipts
      BY <2>1, NewReceiptType DEF Statuses
    <3>3. Submitted(j, new(status))
      BY <2>3 DEF Submitted, Moves, NewReceipt, NoReceipt, Exists
    <3>4. ReceiptFree(j)
      BY <1>1, <2>1, SpoolAssumption
         DEF Reserves, LockHeld, BudgetFree, ReceiptFree
    <3> QED
      BY <2>1, <3>1, <3>2, <3>3, <3>4 DEF WritesLawfully, Lawful
  <2> QED
    BY <1>1, <2>2, <2>3 DEF Reserves
<1>2. CASE ~Reserves(h)
  BY <1>2
     DEF HookStep, BeginSubmit, LooksForReceipt, ReadsReceipt, LooksForJob,
         LoadsJob, SavesCheckpoint, EndOverlaps, WritesLawfully, fileVars
<1> QED
  BY <1>1, <1>2

(* A settled receipt has the candidates and the status it should have.     *)
LEMMA SettledLawful ==
  ASSUME TypeOK, NEW j \in Jobs, NEW status \in Statuses
  PROVE  /\ Settled(j, status).status = status
         /\ Settled(j, status).candidates = receipt[j].candidates
         /\ Settled(j, status).reserved = receipt[j].reserved
<1>1. receipt[j] \in Receipts
  BY DEF TypeOK
<1> QED
  BY <1>1 DEF Settled, Receipts

(* A consumer leases, finishes, gives back or turns down.                  *)
LEMMA ConsumerLawful ==
  ASSUME SpoolInv, NEW c \in Consumers, ConsumerStep(c)
  PROVE  WritesLawfully
<1> /\ TypeOK
    /\ LockHeld
    /\ TimesPast
    /\ StagedFirst
  BY DEF SpoolInv
<1> DEFINE j == arg[c]
<1> c \in Procs
  BY DEF Procs
<1>1. /\ j \in Jobs
      /\ receipt[j] \in Receipts
      /\ callNow[c] \in Int
      /\ now \in Int
      /\ callNow[c] <= now
  BY SpoolAssumption DEF TypeOK, TimesPast
<1> HIDE DEF j
<1>2. CASE Leases(c)
  <2> DEFINE r == [receipt[j] EXCEPT
                     !.status = "leased", !.owner = c,
                     !.expires = callNow[c] + LeaseTime,
                     !.reserved = IF receipt[j].status = "deferred"
                                    THEN callNow[c] ELSE @]
  <2>1. Write(j, r) /\ Leasable(j, callNow[c]) /\ BudgetFree
    BY <1>2 DEF Leases, j
  <2>2. /\ r \in Receipts
        /\ r.status = "leased"
        /\ r.candidates = receipt[j].candidates
    <3>1. callNow[c] + LeaseTime \in Int
      BY <1>1, SpoolAssumption
    <3> QED
      BY <1>1, <3>1 DEF Receipts, Statuses
  <2>3. receipt[j].expires \in Int
    BY <1>1 DEF Receipts
  <2>4. TakenOver(j, r)
    BY <1>1, <2>1, <2>2, <2>3 DEF TakenOver, Moves, Untouched, Leasable
  <2>5. ReceiptFree(j)
    BY <1>1, <2>1, SpoolAssumption DEF LockHeld, ReceiptFree
  <2> QED
    BY <1>1, <2>1, <2>2, <2>4, <2>5 DEF WritesLawfully, Lawful
<1>3. CASE Finishes(c)
  <2> DEFINE r(status) ==
               [Settled(j, status) EXCEPT
                  !.candidates = IF status = "candidate" THEN {c} ELSE @]
  <2>1. PICK status \in Outcomes(c) : MayFinish(j, c, status)
                                        /\ Write(j, r(status))
    BY <1>3 DEF Finishes, j
  <2>2. status \in Statuses
    BY DEF Outcomes, Statuses
  <2>3. Settled(j, status) \in Receipts
    BY <1>1, <2>2, SettledType
  <2>4. /\ r(status) \in Receipts
        /\ r(status).status = status
        /\ r(status).candidates =
             IF status = "candidate" THEN {c} ELSE receipt[j].candidates
    BY <1>1, <2>2, <2>3, SettledLawful, FinishedType DEF Receipts
  <2>5. ReceiptFree(j) /\ status \in FinishTransitions[receipt[j].status]
    BY <2>1 DEF MayFinish
  <2>6. receipt[j].status \in Statuses \cup {"absent"}
    BY <1>1 DEF Receipts
  <2>7. CASE status = "candidate"
    <3>1. pc[c] = "staged"
      BY <1>3, <2>7 DEF Finishes, Outcomes, AtWork
    <3>2. <<j, c>> \in staged
      BY <3>1 DEF StagedFirst, j
    <3>3. receipt[j].status \in {"pending", "leased"}
      BY <2>5, <2>6, <2>7 DEF FinishTransitions, Statuses
    <3>4. Kept(j, r(status))
      BY <2>4, <2>7, <3>2, <3>3 DEF Kept, Moves
    <3> QED
      BY <1>1, <2>1, <2>4, <2>5, <3>4 DEF WritesLawfully, Lawful
  <2>8. CASE status # "candidate"
    <3>1. status \in {"noop", "failed"}
      BY <2>8 DEF Outcomes
    <3>2. \/ receipt[j].status \in {"pending", "leased", "candidate"}
          \/ receipt[j].status = "deferred" /\ status = "failed"
      BY <2>5, <2>6, <3>1 DEF FinishTransitions, Statuses
    <3>3. TurnedDown(j, r(status)) \/ Reviewed(j, r(status))
      BY <2>4, <2>8, <3>1, <3>2
         DEF TurnedDown, Reviewed, Moves, Untouched, Terminal
    <3> QED
      BY <1>1, <2>1, <2>4, <2>5, <3>3 DEF WritesLawfully, Lawful
  <2> QED
    BY <2>7, <2>8
<1>4. CASE Releases(c)
  <2>1. CASE UNCHANGED receipt
    BY <2>1 DEF WritesLawfully
  <2>2. CASE /\ receipt[j].status = "leased"
             /\ Write(j, Settled(j, "pending"))
    <3>1. "pending" \in Statuses
      BY DEF Statuses
    <3>2. /\ GivenBack(j, Settled(j, "pending"))
          /\ Settled(j, "pending") \in Receipts
      BY <1>1, <2>2, <3>1, SettledLawful, SettledType
         DEF GivenBack, Moves, Untouched
    <3>3. ReceiptFree(j)
      BY <1>4 DEF Releases, j
    <3> QED
      BY <1>1, <2>2, <3>2, <3>3 DEF WritesLawfully, Lawful
  <2> QED
    BY <1>4, <2>1, <2>2 DEF Releases, j
<1>5. ASSUME NEW i \in Jobs, FinishesUnleased(c, i)
      PROVE  WritesLawfully
  <2>1. PICK status \in Terminal :
          /\ MayFinish(i, Nobody, status)
          /\ receipt[i].status = "candidate" \/ status = "failed"
          /\ Write(i, Settled(i, status))
    BY <1>5 DEF FinishesUnleased
  <2>2. status \in Statuses
    BY DEF Terminal, Statuses
  <2>3. /\ receipt[i].status \in Statuses \cup {"absent"}
        /\ ReceiptFree(i)
        /\ status \in FinishTransitions[receipt[i].status]
    BY <2>1 DEF MayFinish, TypeOK, Receipts
  <2>4. /\ Settled(i, status) \in Receipts
        /\ Settled(i, status).status = status
        /\ Untouched(i, Settled(i, status))
    BY <2>2, SettledLawful, SettledType DEF Untouched
  <2>5. \/ receipt[i].status = "candidate"
        \/ receipt[i].status \in {"pending", "leased", "deferred"}
             /\ status = "failed"
    BY <2>1, <2>3 DEF FinishTransitions, Statuses
  <2>6. TurnedDown(i, Settled(i, status)) \/ Reviewed(i, Settled(i, status))
    BY <2>4, <2>5 DEF TurnedDown, Reviewed, Moves
  <2> QED
    BY <2>1, <2>3, <2>4, <2>6 DEF WritesLawfully, Lawful
<1>6. CASE UNCHANGED receipt
  BY <1>6 DEF WritesLawfully
<1>7. CASE (\E i \in Jobs : BeginLease(c, i)) \/ LeaseRefused(c)
             \/ StagesCandidate(c) \/ FinishRefused(c)
  BY <1>6, <1>7
     DEF BeginLease, LeaseRefused, StagesCandidate, FinishRefused, fileVars
<1> QED
  BY <1>2, <1>3, <1>4, <1>5, <1>7 DEF ConsumerStep

(* The recovery gives an expired lease back, or turns down a job whose     *)
(* file is lost.                                                           *)
LEMMA RecoveryLawful ==
  ASSUME SpoolInv, NEW j \in Jobs, RecoversExpired(j)
  PROVE  WritesLawfully
<1> TypeOK
  BY DEF SpoolInv
<1>1. PICK status \in {"pending", "failed"} : Write(j, Settled(j, status))
  BY DEF RecoversExpired
<1>2. status \in Statuses
  BY DEF Statuses
<1>3. /\ Settled(j, status) \in Receipts
      /\ Settled(j, status).status = status
      /\ Untouched(j, Settled(j, status))
  BY <1>2, SettledLawful, SettledType DEF Untouched
<1>4. Lawful(j, Settled(j, status))
  BY <1>3 DEF RecoversExpired, Lawful, GivenBack, TurnedDown, Moves
<1> QED
  BY <1>1, <1>3, <1>4 DEF WritesLawfully, RecoversExpired

(* A lawful write changes nothing that is decided and nothing a prune has  *)
(* unlinked.                                                               *)
LEMMA LawfulKeepsVictims ==
  ASSUME TypeOK, VictimsDecided, WritesLawfully, UNCHANGED pruneVars
  PROVE  VictimsDecided'
<1>1. CASE UNCHANGED receipt
  BY <1>1 DEF VictimsDecided, pruneVars
<1>2. CASE \E j \in Jobs, r \in Receipts :
             ReceiptFree(j) /\ Lawful(j, r) /\ Write(j, r)
  <2>1. PICK j \in Jobs, r \in Receipts :
          ReceiptFree(j) /\ Lawful(j, r) /\ Write(j, r)
    BY <1>2
  <2>2. receipt[j].status \notin Terminal
    BY <2>1 DEF Lawful, Submitted, TakenOver, GivenBack, Kept, TurnedDown,
                Reviewed, Moves, Terminal
  <2>3. \A i \in Jobs \ {j} : receipt'[i] = receipt[i]
    BY <2>1 DEF Write, TypeOK
  <2> QED
    BY <2>1, <2>2, <2>3 DEF VictimsDecided, ReceiptFree, TypeOK, pruneVars
<1> QED
  BY <1>1, <1>2 DEF WritesLawfully

(* And it refers to no candidate that is not staged.                       *)
LEMMA LawfulKeepsCandidates ==
  ASSUME TypeOK, CandidatesStaged, WritesLawfully, staged \subseteq staged'
  PROVE  CandidatesStaged'
<1>1. CASE UNCHANGED receipt
  BY <1>1 DEF CandidatesStaged
<1>2. CASE \E j \in Jobs, r \in Receipts :
             ReceiptFree(j) /\ Lawful(j, r) /\ Write(j, r)
  <2>1. PICK j \in Jobs, r \in Receipts : Lawful(j, r) /\ Write(j, r)
    BY <1>2
  <2>2. /\ receipt'[j] = r
        /\ \A i \in Jobs \ {j} : receipt'[i] = receipt[i]
    BY <2>1 DEF Write, TypeOK
  <2>3. /\ \A c \in r.candidates : <<j, c>> \in staged
        /\ r.status \in {"candidate", "promoted"} => r.candidates # {}
    BY <2>1 DEF Lawful, Submitted, TakenOver, GivenBack, Kept, TurnedDown,
                Reviewed, Moves, Untouched, Terminal, CandidatesStaged
  <2> QED
    BY <2>2, <2>3 DEF CandidatesStaged
<1> QED
  BY <1>1, <1>2 DEF WritesLawfully

(* Every step keeps what a prune may delete decided.                       *)
LEMMA VictimStep ==
  ASSUME SpoolInv, [Next]_vars
  PROVE  VictimsDecided'
<1> TypeOK /\ LockHeld /\ VictimsDecided
  BY DEF SpoolInv
<1> USE SpoolAssumption
<1>1. ASSUME NEW h \in Hooks, HookStep(h)
      PROVE  VictimsDecided'
  BY <1>1, HookStaysOut, HookLawful, LawfulKeepsVictims DEF StaysOut
<1>2. ASSUME NEW c \in Consumers, ConsumerStep(c)
      PROVE  VictimsDecided'
  BY <1>2, ConsumerStaysOut, ConsumerLawful, LawfulKeepsVictims DEF StaysOut
<1>3. ASSUME NEW j \in Jobs, RecoversExpired(j)
      PROVE  VictimsDecided'
  BY <1>3, RecoveryLawful, LawfulKeepsVictims DEF RecoversExpired
<1>4. ASSUME NEW p \in Procs, PruneStep(p)
      PROVE  VictimsDecided'
  <2> USE DEF VictimsDecided, fileVars, pruneVars
  <2>1. CASE PruneNotNeeded(p)
    BY <2>1 DEF PruneNotNeeded
  <2>2. CASE BeginPrune(p)
    BY <2>2 DEF BeginPrune, Prunable, LockHeld
  <2>3. CASE KeepsVictim(p)
    BY <2>3 DEF KeepsVictim
  <2>4. CASE UnlinksReceipt(p)
    <3>1. PICK j \in victims : /\ victims' = victims \ {j}
                               /\ target' = j
                               /\ removed' = receipt[j]
                               /\ Write(j, NoReceipt)
      BY <2>4 DEF UnlinksReceipt
    <3>2. /\ j \in Jobs
          /\ receipt'[j] = NoReceipt
          /\ \A i \in Jobs \ {j} : receipt'[i] = receipt[i]
      BY <3>1 DEF TypeOK, Write
    <3>3. NoReceipt.status = "absent"
      BY DEF NoReceipt
    <3> QED
      BY <3>1, <3>2, <3>3 DEF TypeOK
  <2>5. CASE UnlinksJob(p)
    BY <2>5 DEF UnlinksJob
  <2>6. CASE RestoresReceipt(p)
    <3>1. target \in Jobs
      BY <2>6 DEF RestoresReceipt, LockHeld, TypeOK
    <3>2. target \notin victims
      BY <3>1 DEF Terminal
    <3>3. \A i \in Jobs \ {target} : receipt'[i] = receipt[i]
      BY <2>6 DEF RestoresReceipt, Write, TypeOK
    <3> QED
      BY <2>6, <3>2, <3>3 DEF RestoresReceipt, TypeOK
  <2>7. CASE EndPrune(p)
    BY <2>7 DEF EndPrune
  <2> QED
    BY <1>4, <2>1, <2>2, <2>3, <2>4, <2>5, <2>6, <2>7 DEF PruneStep
<1>5. ASSUME NEW p \in Procs, LockTimesOut(p) \/ Crash(p)
      PROVE  VictimsDecided'
  BY <1>5 DEF LockTimesOut, Crash, VictimsDecided, fileVars, pruneVars
<1>6. CASE Tick \/ UNCHANGED vars
  BY <1>6 DEF Tick, vars, VictimsDecided, fileVars, pruneVars
<1> QED
  BY <1>1, <1>2, <1>3, <1>4, <1>5, <1>6 DEF Next

(* A consumer that has staged its candidate keeps it while it is at work.  *)
LEMMA WorkIsStaged ==
  ASSUME SpoolInv, [Next]_vars
  PROVE  /\ staged \subseteq staged'
         /\ \A c \in Consumers : pc'[c] = "staged" => <<arg'[c], c>> \in staged'
<1> TypeOK /\ StagedFirst
  BY DEF SpoolInv
<1> DEFINE Staged == \A c \in Consumers :
                       pc'[c] = "staged" => <<arg'[c], c>> \in staged'
<1> USE DEF fileVars
<1>1. ASSUME NEW p \in Procs, UNCHANGED staged,
             \E place \in PCs \ {"staged"} : Goto(p, place),
             \A q \in Procs \ {p} : arg'[q] = arg[q]
      PROVE  staged \subseteq staged' /\ Staged
  BY <1>1 DEF Goto, TypeOK, StagedFirst, Procs
<1>2. CASE UNCHANGED <<staged, pc, arg>>
  BY <1>2 DEF StagedFirst
<1>3. ASSUME NEW h \in Hooks, HookStep(h)
      PROVE  staged \subseteq staged' /\ Staged
  <2>1. UNCHANGED staged /\ \A q \in Procs \ {h} : arg'[q] = arg[q]
    BY <1>3 DEF HookStep, BeginSubmit, LooksForReceipt, ReadsReceipt,
                LooksForJob, LoadsJob, Reserves, SavesCheckpoint, EndOverlaps,
                Calls, Returns, ReturnsUnless, procVars, TypeOK
  <2>2. h \in Procs /\ UNCHANGED staged
    BY <2>1 DEF Procs
  <2>3. (\E place \in PCs \ {"staged"} : Goto(h, place)) \/ UNCHANGED <<pc, arg>>
    BY <1>3 DEF HookStep, BeginSubmit, LooksForReceipt, ReadsReceipt,
                LooksForJob, LoadsJob, Reserves, SavesCheckpoint, EndOverlaps,
                Calls, Returns, ReturnsUnless, procVars, PCs
  <2> QED
    BY <1>1, <1>2, <2>1, <2>2, <2>3
<1>4. ASSUME NEW c \in Consumers, ConsumerStep(c)
      PROVE  staged \subseteq staged' /\ Staged
  <2>1. c \in Procs
    BY DEF Procs
  <2>2. CASE StagesCandidate(c)
    BY <2>1, <2>2 DEF StagesCandidate, Goto, TypeOK, StagedFirst, Procs
  <2>3. CASE ~StagesCandidate(c)
    <3>1. UNCHANGED staged /\ \A q \in Procs \ {c} : arg'[q] = arg[q]
      BY <1>4, <2>3
         DEF ConsumerStep, BeginLease, FinishesUnleased, LeaseRefused, Leases,
             Finishes, FinishRefused, Releases, Calls, Returns, TypeOK
    <3>2. \E place \in PCs \ {"staged"} : Goto(c, place)
      BY <1>4, <2>3
         DEF ConsumerStep, BeginLease, FinishesUnleased, LeaseRefused, Leases,
             Finishes, FinishRefused, Releases, Calls, Returns, PCs
    <3> QED
      BY <1>1, <2>1, <3>1, <3>2
  <2> QED
    BY <2>2, <2>3
<1>5. ASSUME NEW p \in Procs, PruneStep(p) \/ LockTimesOut(p) \/ Crash(p)
      PROVE  staged \subseteq staged' /\ Staged
  <2>1. UNCHANGED staged /\ \A q \in Procs \ {p} : arg'[q] = arg[q]
    BY <1>5 DEF PruneStep, PruneNotNeeded, BeginPrune, KeepsVictim,
                UnlinksReceipt, UnlinksJob, RestoresReceipt, EndPrune,
                LockTimesOut, Crash, BackToCaller, Returns, ReturnsUnless,
                procVars, TypeOK
  <2>2. (\E place \in PCs \ {"staged"} : Goto(p, place)) \/ UNCHANGED <<pc, arg>>
    BY <1>5 DEF PruneStep, PruneNotNeeded, BeginPrune, KeepsVictim,
                UnlinksReceipt, UnlinksJob, RestoresReceipt, EndPrune,
                LockTimesOut, Crash, BackToCaller, Returns, ReturnsUnless,
                procVars, PCs
  <2> QED
    BY <1>1, <1>2, <2>1, <2>2
<1>6. CASE Tick \/ (\E j \in Jobs : RecoversExpired(j)) \/ UNCHANGED vars
  BY <1>2, <1>6 DEF Tick, RecoversExpired, vars, procVars
<1> QED
  BY <1>3, <1>4, <1>5, <1>6 DEF Next

(* Every step keeps candidates staged first.                               *)
LEMMA StagedStep ==
  ASSUME SpoolInv, [Next]_vars
  PROVE  StagedFirst'
<1> TypeOK /\ LockHeld /\ StagedFirst
  BY DEF SpoolInv
<1> USE SpoolAssumption
<1> DEFINE RemovedStaged ==
             target # Nothing =>
               /\ \A c \in removed.candidates : <<target, c>> \in staged
               /\ removed.status = "promoted" => removed.candidates # {}
<1> SUFFICES CandidatesStaged' /\ RemovedStaged'
  BY WorkIsStaged DEF StagedFirst
<1>1. staged \subseteq staged' /\ CandidatesStaged /\ RemovedStaged
  BY WorkIsStaged DEF StagedFirst
<1>2. ASSUME WritesLawfully, UNCHANGED pruneVars
      PROVE  CandidatesStaged' /\ RemovedStaged'
  BY <1>1, <1>2, LawfulKeepsCandidates DEF pruneVars
<1>3. CASE \/ \E h \in Hooks : HookStep(h)
           \/ \E c \in Consumers : ConsumerStep(c)
           \/ \E j \in Jobs : RecoversExpired(j)
  BY <1>2, <1>3, HookStaysOut, HookLawful, ConsumerStaysOut, ConsumerLawful,
     RecoveryLawful DEF StaysOut, RecoversExpired
<1>4. ASSUME NEW p \in Procs, PruneStep(p)
      PROVE  CandidatesStaged' /\ RemovedStaged'
  <2>1. CASE PruneNotNeeded(p) \/ BeginPrune(p) \/ KeepsVictim(p) \/ EndPrune(p)
    <3>1. UNCHANGED <<receipt, target, removed>>
      BY <2>1 DEF PruneNotNeeded, BeginPrune, KeepsVictim, EndPrune, fileVars,
                  pruneVars
    <3> QED
      BY <1>1, <3>1 DEF CandidatesStaged
  <2>2. CASE UnlinksReceipt(p)
    <3>1. PICK j \in victims : /\ target' = j
                               /\ removed' = receipt[j]
                               /\ Write(j, NoReceipt)
      BY <2>2 DEF UnlinksReceipt
    <3>2. /\ j \in Jobs
          /\ receipt'[j] = NoReceipt
          /\ \A i \in Jobs \ {j} : receipt'[i] = receipt[i]
      BY <3>1 DEF TypeOK, Write
    <3>3. NoReceipt.status = "absent" /\ NoReceipt.candidates = {}
      BY DEF NoReceipt
    <3>4. CandidatesStaged'
      BY <1>1, <3>2, <3>3 DEF CandidatesStaged
    <3>5. RemovedStaged'
      BY <1>1, <3>1, <3>2 DEF CandidatesStaged
    <3> QED
      BY <3>4, <3>5
  <2>3. CASE UnlinksJob(p)
    BY <1>1, <2>3 DEF UnlinksJob, CandidatesStaged
  <2>4. CASE RestoresReceipt(p)
    <3>1. target \in Jobs /\ target # Nothing
      BY <2>4 DEF RestoresReceipt, LockHeld, TypeOK
    <3>2. /\ \A i \in Jobs \ {target} : receipt'[i] = receipt[i]
          /\ receipt'[target] \in {receipt[target], removed}
      BY <2>4, <3>1 DEF RestoresReceipt, Write, TypeOK
    <3>3. removed.status # "candidate"
      BY <3>1 DEF SpoolInv, VictimsDecided, Terminal
    <3>4. CandidatesStaged'
      BY <1>1, <3>1, <3>2, <3>3 DEF CandidatesStaged
    <3>5. RemovedStaged'
      BY <2>4 DEF RestoresReceipt
    <3> QED
      BY <3>4, <3>5
  <2> QED
    BY <1>4, <2>1, <2>2, <2>3, <2>4 DEF PruneStep
<1>5. ASSUME NEW p \in Procs, LockTimesOut(p) \/ Crash(p)
      PROVE  CandidatesStaged' /\ RemovedStaged'
  <2>1. UNCHANGED receipt /\ (target' = Nothing \/ UNCHANGED <<target, removed>>)
    BY <1>5 DEF LockTimesOut, Crash, fileVars, pruneVars
  <2> QED
    BY <1>1, <2>1 DEF CandidatesStaged
<1>6. CASE Tick \/ UNCHANGED vars
  BY <1>1, <1>6 DEF Tick, vars, fileVars, pruneVars, CandidatesStaged
<1> QED
  BY <1>3, <1>4, <1>5, <1>6 DEF Next

(* The invariant is inductive.                                             *)
LEMMA SpoolInvStep == SpoolInv /\ [Next]_vars => SpoolInv'
  BY TypesNext, LockStep, VictimStep, TimeStep, StagedStep DEF SpoolInv

(* So it always holds.                                                     *)
LEMMA SpoolAlways == Spec => []SpoolInv
  BY SpoolInit, SpoolInvStep, PTL DEF Spec

(* Through crashes, denied writes, lost leases and retention, a receipt    *)
(* that points to candidates points to staged ones, and a job that waits   *)
(* for review or was promoted has some.                                    *)
THEOREM CandidatesAlwaysStaged == Spec => []CandidatesStaged
<1>1. SpoolInv => CandidatesStaged
  BY DEF SpoolInv, StagedFirst
<1> QED
  BY <1>1, SpoolAlways, PTL

-----------------------------------------------------------------------------
(* Leases                                                                  *)

(* However long a call waits and whatever time it carries, a lease goes to *)
(* the next consumer only when it has expired.                             *)
THEOREM LeasesHold == Spec => LeaseHolds
<1> DEFINE Held ==
      \A j \in Jobs :
        /\ receipt[j].status = "leased"
        /\ receipt'[j].status = "leased"
        /\ receipt'[j] # receipt[j]
        => receipt[j].expires <= now
<1>1. SpoolInv /\ [Next]_vars => [Held]_vars
  <2> SUFFICES ASSUME SpoolInv, [Next]_vars
               PROVE  Held
    OBVIOUS
  <2> TypeOK /\ LockHeld
    BY DEF SpoolInv
  <2>1. ASSUME WritesLawfully
        PROVE  Held
    <3>1. CASE UNCHANGED receipt
      BY <3>1
    <3>2. ASSUME NEW j \in Jobs, NEW r \in Receipts, Lawful(j, r), Write(j, r)
          PROVE  Held
      <4>1. /\ receipt'[j] = r
            /\ \A i \in Jobs \ {j} : receipt'[i] = receipt[i]
        BY <3>2 DEF Write, TypeOK
      <4>2. receipt[j].status = "leased" /\ r.status = "leased"
              => receipt[j].expires <= now
        BY <3>2 DEF Lawful, Submitted, TakenOver, GivenBack, Kept, TurnedDown,
                    Reviewed, Moves, Terminal
      <4> QED
        BY <4>1, <4>2
    <3> QED
      BY <2>1, <3>1, <3>2 DEF WritesLawfully
  <2>2. ASSUME NEW p \in Procs, PruneStep(p) \/ LockTimesOut(p) \/ Crash(p)
        PROVE  Held
    <3>1. CASE UNCHANGED receipt
      BY <3>1
    <3>2. CASE UnlinksReceipt(p)
      BY <3>2 DEF UnlinksReceipt, Write, NoReceipt, TypeOK
    <3>3. CASE RestoresReceipt(p)
      <4>1. receipt[target].status = "absent" /\ target \in Jobs
        BY <3>3 DEF RestoresReceipt, LockHeld, SpoolInv, VictimsDecided, TypeOK
      <4>2. \A i \in Jobs \ {target} : receipt'[i] = receipt[i]
        BY <3>3 DEF RestoresReceipt, Write, TypeOK
      <4> QED
        BY <4>1, <4>2
    <3> QED
      BY <2>2, <3>1, <3>2, <3>3
         DEF PruneStep, PruneNotNeeded, BeginPrune, KeepsVictim, UnlinksJob,
             EndPrune, LockTimesOut, Crash, fileVars
  <2>3. CASE Tick \/ UNCHANGED vars
    BY <2>3 DEF Tick, vars, fileVars
  <2> QED
    BY <2>1, <2>2, <2>3, HookLawful, ConsumerLawful, RecoveryLawful DEF Next
<1> QED
  BY <1>1, SpoolAlways, PTL DEF Spec, LeaseHolds

-----------------------------------------------------------------------------
(* The lifecycle of a job                                                  *)

(* Every step of the spool is a step of the lifecycle or none that a       *)
(* reader of the receipts sees: deleting a pair is one step for it, which  *)
(* happens when the job file goes, when putting the receipt back is        *)
(* denied, or when the prune is killed in between.                         *)
THEOREM SpoolImplementsLifecycle == Spec => ImplementsLifecycle
<1> DEFINE seen == [j \in Jobs |-> Visible(j)]
<1>1. Init => Lifecycle!Init
  BY SpoolAssumption DEF Init, Lifecycle!Init, Visible, NoReceipt
<1>2. SpoolInv /\ [Next]_vars => [Lifecycle!Next]_seen
  <2> SUFFICES ASSUME SpoolInv, [Next]_vars
               PROVE  Lifecycle!Next \/ UNCHANGED seen
    OBVIOUS
  <2> TypeOK /\ LockHeld /\ VictimsDecided
    BY DEF SpoolInv
  <2> USE SpoolAssumption
  <2>1. ASSUME UNCHANGED <<receipt, target, removed>>
        PROVE  UNCHANGED seen
    BY <2>1 DEF Visible
  <2>2. ASSUME WritesLawfully, UNCHANGED pruneVars
        PROVE  Lifecycle!Next \/ UNCHANGED seen
    <3>1. CASE UNCHANGED receipt
      BY <2>1, <2>2, <3>1 DEF pruneVars
    <3>2. ASSUME NEW j \in Jobs, NEW r \in Receipts, ReceiptFree(j),
                 Lawful(j, r), Write(j, r)
          PROVE  Lifecycle!Next
      <4>1. seen[j] = receipt[j].status
        BY <3>2 DEF Visible, ReceiptFree
      <4>2. seen' = [seen EXCEPT ![j] = r.status]
        BY <2>2, <3>2 DEF Visible, ReceiptFree, Write, TypeOK, pruneVars
      <4>3. \E from, to \in SUBSET (Statuses \cup {"absent"}) :
              /\ Lifecycle!Becomes(j, from, to) => Lifecycle!Next
              /\ receipt[j].status \in from /\ r.status \in to
        BY <3>2
           DEF Lawful, Submitted, TakenOver, GivenBack, Kept, TurnedDown,
               Reviewed, Moves, Terminal, Statuses, Lifecycle!Next,
               Lifecycle!Submit, Lifecycle!Lease, Lifecycle!GiveBack,
               Lifecycle!Extract, Lifecycle!Refuse, Lifecycle!Review,
               Lifecycle!Open, Lifecycle!Decided
      <4> QED
        BY <4>1, <4>2, <4>3 DEF Lifecycle!Becomes
    <3> QED
      BY <2>2, <3>1, <3>2 DEF WritesLawfully
  <2>3. ASSUME target \in Jobs, target' = Nothing,
               receipt' = receipt \/ Write(target, removed)
        PROVE  Lifecycle!Next \/ UNCHANGED seen
    <3>1. /\ target # Nothing
          /\ receipt[target].status = "absent"
          /\ removed.status \in Terminal
      BY <2>3 DEF VictimsDecided
    <3>2. seen[target] = removed.status
      BY <2>3 DEF Visible
    <3>3. CASE receipt' = receipt
      <4>1. seen' = [seen EXCEPT ![target] = "absent"]
        BY <2>3, <3>1, <3>3 DEF Visible
      <4>2. Lifecycle!Forget(target)
        BY <2>3, <3>1, <3>2, <4>1
           DEF Terminal, Lifecycle!Forget, Lifecycle!Becomes,
               Lifecycle!Decided
      <4> QED
        BY <2>3, <4>2 DEF Lifecycle!Next
    <3>4. CASE Write(target, removed)
      BY <2>3, <3>1, <3>4 DEF Visible, Write, TypeOK
    <3> QED
      BY <2>3, <3>3, <3>4
  <2>4. CASE \/ \E h \in Hooks : HookStep(h)
             \/ \E c \in Consumers : ConsumerStep(c)
             \/ \E j \in Jobs : RecoversExpired(j)
    BY <2>2, <2>4, HookStaysOut, HookLawful, ConsumerStaysOut, ConsumerLawful,
       RecoveryLawful DEF StaysOut, RecoversExpired
  <2>5. ASSUME NEW p \in Procs, PruneStep(p)
        PROVE  Lifecycle!Next \/ UNCHANGED seen
    <3>1. CASE PruneNotNeeded(p) \/ BeginPrune(p) \/ KeepsVictim(p)
                 \/ EndPrune(p)
      BY <2>1, <3>1 DEF PruneNotNeeded, BeginPrune, KeepsVictim, EndPrune,
                        fileVars, pruneVars
    <3>2. CASE UnlinksReceipt(p)
      <4>1. PICK j \in victims : /\ target' = j
                                 /\ removed' = receipt[j]
                                 /\ Write(j, NoReceipt)
        BY <3>2 DEF UnlinksReceipt
      <4>2. target = Nothing
        BY <3>2 DEF UnlinksReceipt, LockHeld, InPrune
      <4> QED
        BY <4>1, <4>2 DEF Visible, Write, TypeOK
    <3>3. CASE UnlinksJob(p) \/ RestoresReceipt(p)
      <4>1. target \in Jobs
        BY <3>3 DEF UnlinksJob, RestoresReceipt, LockHeld, TypeOK
      <4> QED
        BY <2>3, <3>3, <4>1 DEF UnlinksJob, RestoresReceipt
    <3> QED
      BY <2>5, <3>1, <3>2, <3>3 DEF PruneStep
  <2>6. ASSUME NEW p \in Procs, LockTimesOut(p) \/ Crash(p)
        PROVE  Lifecycle!Next \/ UNCHANGED seen
    <3>1. CASE UNCHANGED <<target, removed>>
      BY <2>1, <2>6, <3>1 DEF LockTimesOut, Crash, fileVars
    <3>2. CASE ~UNCHANGED <<target, removed>>
      <4>1. receipt' = receipt /\ target' = Nothing
        BY <2>6, <3>2 DEF LockTimesOut, Crash, fileVars, pruneVars
      <4>2. CASE target = Nothing
        BY <4>1, <4>2 DEF Visible
      <4>3. CASE target \in Jobs
        BY <2>3, <4>1, <4>3
      <4> QED
        BY <4>2, <4>3 DEF TypeOK
    <3> QED
      BY <3>1, <3>2
  <2>7. CASE Tick \/ UNCHANGED vars
    BY <2>1, <2>7 DEF Tick, vars, fileVars, pruneVars
  <2> QED
    BY <2>4, <2>5, <2>6, <2>7 DEF Next
<1> QED
  BY <1>1, <1>2, SpoolAlways, PTL DEF Spec, ImplementsLifecycle, Lifecycle!Spec

=============================================================================
