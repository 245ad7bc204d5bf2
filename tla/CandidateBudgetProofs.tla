------------------------ MODULE CandidateBudgetProofs ------------------------
(***************************************************************************)
(* Theorems about the budgets of CandidateSpool: what is on file always    *)
(* accounts for every reservation that still counts.                       *)
(***************************************************************************)
EXTENDS CandidateSpoolProofs

-----------------------------------------------------------------------------
(* The session budget                                                      *)

(* Whoever acts on a SessionEnd knows that the session has ended: the job  *)
(* of the event exists, or its submit has come past the reservation.       *)
PastReservation == {"reading", "wantPrune", "checkpointing"} \cup InPrune

EndsSeen ==
  /\ ended \subseteq endSeen
  /\ \A j \in EndJobs : Exists(j) \/ target = j => SessionOf[j] \in endSeen
  /\ \A h \in Hooks :
       pc[h] \in PastReservation /\ arg[h] \in EndJobs
         => SessionOf[arg[h]] \in endSeen

(* A deferred job has not used anything.                                   *)
DeferredIsFree ==
  \A j \in Jobs : receipt[j].status = "deferred" => receipt[j].reserved = Never

SpentBy(s) == {i \in Reserved : SessionOf[i] = s}

(* Until a session ends, every reservation it was given is still on file.  *)
SpentOnFile ==
  MaxPerSession > 0 =>
    \A s \in Sessions \ endSeen : reservedFor[s] <= Cardinality(SpentBy(s))

BudgetInv ==
  /\ SpoolInv
  /\ EndsSeen
  /\ DeferredIsFree
  /\ SpentOnFile
  /\ SessionBudget

(* The receipts that count are finitely many.                              *)
LEMMA SpentFinite ==
  ASSUME NEW s
  PROVE  IsFiniteSet(SpentBy(s)) /\ Cardinality(SpentBy(s)) \in Nat
<1>1. SpentBy(s) \subseteq Jobs
  BY DEF SpentBy, Reserved
<1> QED
  BY <1>1, SpoolAssumption, FS_Subset, FS_CardinalityType

(* Nothing is spent at first.                                              *)
LEMMA BudgetInit == Init => BudgetInv
<1> SUFFICES ASSUME Init
             PROVE  BudgetInv
  OBVIOUS
<1>1. SpoolInv
  BY SpoolInit
<1>2. EndsSeen
  BY SpoolAssumption
     DEF Init, EndsSeen, Exists, NoReceipt, PastReservation, InPrune, Procs
<1>3. DeferredIsFree
  BY DEF Init, DeferredIsFree, NoReceipt
<1>4. SpentOnFile
  BY SpentFinite DEF Init, SpentOnFile
<1>5. SessionBudget
  BY SpoolAssumption DEF Init, SessionBudget
<1> QED
  BY <1>1, <1>2, <1>3, <1>4, <1>5 DEF BudgetInv

(* Where no reservation is given and none of a running session is lost,    *)
(* the budget is kept.                                                     *)
LEMMA ReservationsKept ==
  ASSUME BudgetInv, UNCHANGED reservedFor, endSeen \subseteq endSeen',
         MaxPerSession > 0 =>
           \A i \in Reserved : SessionOf[i] \notin endSeen' => i \in Reserved'
  PROVE  SpentOnFile' /\ SessionBudget'
<1> SUFFICES ASSUME MaxPerSession > 0, NEW s \in Sessions \ endSeen'
             PROVE  /\ reservedFor[s] <= Cardinality(SpentBy(s)')
                    /\ reservedFor[s] <= MaxPerSession
  BY DEF SpentOnFile, SessionBudget
<1>1. reservedFor[s] <= Cardinality(SpentBy(s)) /\ reservedFor[s] <= MaxPerSession
  BY DEF BudgetInv, SpentOnFile, SessionBudget
<1>2. SpentBy(s) \subseteq SpentBy(s)'
  BY DEF SpentBy
<1>3. SpentBy(s)' \subseteq Jobs
  BY DEF SpentBy, Reserved
<1>4. /\ IsFiniteSet(SpentBy(s)')
      /\ Cardinality(SpentBy(s)') \in Nat
      /\ Cardinality(SpentBy(s)) \in Nat
      /\ Cardinality(SpentBy(s)) <= Cardinality(SpentBy(s)')
  BY <1>2, <1>3, SpentFinite, SpoolAssumption, FS_Subset, FS_CardinalityType
<1>5. reservedFor[s] \in Nat
  BY DEF BudgetInv, SpoolInv, TypeOK
<1> QED
  BY <1>1, <1>4, <1>5

(* A reservation that the budget allows keeps it.                          *)
LEMMA ReservationFits ==
  ASSUME BudgetInv, NEW j \in Jobs, NEW at, NEW r \in Receipts,
         j \notin Reserved, ~OverBudget(j, at), CountReservation(j, at),
         Write(j, r), r.status # "absent", r.reserved # Never,
         endSeen \subseteq endSeen'
  PROVE  SpentOnFile' /\ SessionBudget'
<1> TypeOK
  BY DEF BudgetInv, SpoolInv
<1> SUFFICES ASSUME MaxPerSession > 0, NEW s \in Sessions \ endSeen'
             PROVE  /\ reservedFor'[s] <= Cardinality(SpentBy(s)')
                    /\ reservedFor'[s] <= MaxPerSession
  BY DEF SpentOnFile, SessionBudget
<1>1. /\ reservedFor[s] <= Cardinality(SpentBy(s))
      /\ reservedFor[s] <= MaxPerSession
      /\ reservedFor[s] \in Nat
  BY DEF BudgetInv, SpentOnFile, SessionBudget, TypeOK
<1>2. IsFiniteSet(SpentBy(s)) /\ Cardinality(SpentBy(s)) \in Nat
  BY SpentFinite
<1>3. Reserved' = Reserved \cup {j}
  BY DEF Reserved, Exists, Write, TypeOK
<1>4. CASE SessionOf[j] = s
  <2>1. reservedFor'[s] = reservedFor[s] + 1
    BY <1>4 DEF CountReservation, TypeOK
  <2>2. SpentBy(s)' = SpentBy(s) \cup {j} /\ j \notin SpentBy(s)
    BY <1>3, <1>4 DEF SpentBy
  <2>3. Cardinality(SpentBy(s)') = Cardinality(SpentBy(s)) + 1
    BY <1>2, <2>2, FS_AddElement
  <2>4. ~(Cardinality(SpentBy(s)) >= MaxPerSession)
    BY <1>4 DEF OverBudget, SpentBy
  <2> QED
    BY <1>1, <1>2, <2>1, <2>3, <2>4, SpoolAssumption
<1>5. CASE SessionOf[j] # s
  <2>1. reservedFor'[s] = reservedFor[s]
    BY <1>5 DEF CountReservation, TypeOK
  <2>2. SpentBy(s)' = SpentBy(s)
    BY <1>3, <1>5 DEF SpentBy
  <2> QED
    BY <1>1, <2>1, <2>2
<1> QED
  BY <1>4, <1>5

(* A receipt is settled: its reservation stays on file with it.            *)
Settles ==
  \E j \in Jobs, r \in Receipts :
    /\ Exists(j)
    /\ r.status \in Statuses \ {"deferred"}
    /\ r.reserved = receipt[j].reserved
    /\ Write(j, r)

(* Whoever finishes, gives back or recovers settles a receipt.             *)
LEMMA FinishSettles ==
  ASSUME SpoolInv,
         \/ \E c \in Consumers :
              \/ Finishes(c)
              \/ Releases(c)
              \/ \E j \in Jobs : FinishesUnleased(c, j)
         \/ \E j \in Jobs : RecoversExpired(j)
  PROVE  Settles \/ UNCHANGED receipt
<1> TypeOK
  BY DEF SpoolInv
<1>1. ASSUME NEW j \in Jobs, Exists(j),
             NEW status \in Statuses \ {"deferred"},
             Write(j, Settled(j, status))
      PROVE  Settles
  <2>1. Settled(j, status) \in Receipts
    BY SettledType
  <2> QED
    BY <1>1, <2>1, SettledLawful DEF Settles
<1>2. ASSUME NEW j \in Jobs, NEW owner, NEW status, MayFinish(j, owner, status)
      PROVE  Exists(j)
  BY <1>2 DEF MayFinish, FinishTransitions, Exists
<1>3. ASSUME NEW c \in Consumers, Finishes(c)
      PROVE  Settles
  <2> DEFINE j == arg[c]
             r(status) ==
               [Settled(j, status) EXCEPT
                  !.candidates = IF status = "candidate" THEN {c} ELSE @]
  <2>1. PICK status \in Outcomes(c) : MayFinish(j, c, status)
                                        /\ Write(j, r(status))
    BY <1>3 DEF Finishes
  <2>2. status \in Statuses \ {"deferred"} /\ j \in Jobs
    BY DEF Outcomes, Statuses, TypeOK, Procs
  <2>3. Settled(j, status) \in Receipts
    BY <2>2, SettledType
  <2>4. /\ r(status) \in Receipts
        /\ r(status).status = status
        /\ r(status).reserved = receipt[j].reserved
    BY <2>2, <2>3, SettledLawful, FinishedType DEF Receipts
  <2> HIDE DEF j, r
  <2> QED
    BY <1>2, <2>1, <2>2, <2>4 DEF Settles
<1>4. ASSUME NEW c \in Consumers, Releases(c)
      PROVE  Settles \/ UNCHANGED receipt
  <2>1. arg[c] \in Jobs /\ "pending" \in Statuses \ {"deferred"}
    BY DEF Statuses, TypeOK, Procs
  <2> QED
    BY <1>1, <1>4, <2>1 DEF Releases, Exists
<1>5. ASSUME NEW c \in Consumers, NEW j \in Jobs, FinishesUnleased(c, j)
      PROVE  Settles
  <2>1. Terminal \subseteq Statuses \ {"deferred"}
    BY DEF Terminal, Statuses
  <2> QED
    BY <1>1, <1>2, <1>5, <2>1 DEF FinishesUnleased
<1>6. ASSUME NEW j \in Jobs, RecoversExpired(j)
      PROVE  Settles
  <2>1. {"pending", "failed"} \subseteq Statuses \ {"deferred"}
    BY DEF Statuses
  <2> QED
    BY <1>1, <1>6, <2>1 DEF RecoversExpired, Exists
<1> QED
  BY <1>3, <1>4, <1>5, <1>6

(* The parts of the invariant that speak of receipts alone.                *)
OnFile ==
  /\ \A j \in EndJobs : Exists(j) \/ target = j => SessionOf[j] \in endSeen
  /\ DeferredIsFree
  /\ SpentOnFile
  /\ SessionBudget

(* A settled receipt keeps them.                                           *)
LEMMA SettlesKeeps ==
  ASSUME BudgetInv, Settles \/ UNCHANGED receipt,
         UNCHANGED <<target, reservedFor, endSeen>>
  PROVE  OnFile'
<1> TypeOK
  BY DEF BudgetInv, SpoolInv
<1>1. /\ \A i \in Jobs : Exists(i)' <=> Exists(i)
      /\ \A i \in Jobs : receipt'[i].reserved = receipt[i].reserved
      /\ \A i \in Jobs : receipt'[i].status = "deferred"
                           => receipt[i].status = "deferred"
  <2>1. CASE UNCHANGED receipt
    BY <2>1 DEF Exists
  <2>2. CASE Settles
    <3>1. PICK j \in Jobs, r \in Receipts :
            /\ Exists(j)
            /\ r.status \in Statuses \ {"deferred"}
            /\ r.reserved = receipt[j].reserved
            /\ Write(j, r)
      BY <2>2 DEF Settles
    <3>2. /\ receipt'[j] = r
          /\ \A i \in Jobs \ {j} : receipt'[i] = receipt[i]
      BY <3>1 DEF Write, TypeOK
    <3> QED
      BY <3>1, <3>2 DEF Exists, Statuses
  <2> QED
    BY <2>1, <2>2
<1>2. Reserved' = Reserved
  BY <1>1 DEF Reserved
<1>3. SpentOnFile' /\ SessionBudget'
  BY <1>2, ReservationsKept
<1>4. \A j \in EndJobs : Exists(j)' \/ target' = j => SessionOf[j] \in endSeen'
  BY <1>1, SpoolAssumption DEF BudgetInv, EndsSeen
<1>5. DeferredIsFree'
  BY <1>1 DEF BudgetInv, DeferredIsFree
<1> QED
  BY <1>3, <1>4, <1>5 DEF OnFile

(* So does a new receipt, deferred or reserved.                            *)
LEMMA ReservesKeeps ==
  ASSUME BudgetInv, NEW h \in Hooks, Reserves(h)
  PROVE  OnFile'
<1> TypeOK
  BY DEF BudgetInv, SpoolInv
<1> USE DEF pruneVars, budgetVars
<1> DEFINE j == arg[h]
           at == callNow[h]
<1>1. CASE UNCHANGED <<receipt, budgetVars>>
  <2>1. UNCHANGED target
    BY DEF Reserves
  <2> QED
    BY <1>1, <2>1, SettlesKeeps
<1>2. CASE ~Exists(j)
  <2>1. /\ j \in Jobs
        /\ at \in Int
        /\ at # Never
    BY SpoolAssumption DEF TypeOK, Procs, Never
  <2>2. /\ target' = target
        /\ endSeen' = endSeen \cup {SessionOf[i] : i \in EndJobs \cap {j}}
    BY <1>2 DEF Reserves
  <2>3. PICK status \in {"pending", "deferred"} :
          /\ Write(j, NewReceipt(j, status, at))
          /\ status = "deferred" => UNCHANGED reservedFor
          /\ status = "pending" => ~OverBudget(j, at) /\ CountReservation(j, at)
    BY <1>2 DEF Reserves
  <2> DEFINE r == NewReceipt(j, status, at)
  <2>4. /\ r \in Receipts
        /\ r.status = status
        /\ r.reserved = IF status = "pending" THEN at ELSE Never
    <3>1. r \in Receipts
      BY <2>1, NewReceiptType DEF Statuses
    <3> QED
      BY <3>1 DEF NewReceipt, NoReceipt
  <2> HIDE DEF r, at
  <2>5. /\ receipt'[j] = r
        /\ \A i \in Jobs \ {j} : receipt'[i] = receipt[i]
    BY <2>1, <2>3 DEF Write, TypeOK, r
  <2>6. \A i \in EndJobs : Exists(i)' \/ target' = i => SessionOf[i] \in endSeen'
    BY <2>1, <2>2, <2>5, SpoolAssumption DEF BudgetInv, EndsSeen, Exists
  <2>7. DeferredIsFree'
    BY <2>1, <2>4, <2>5 DEF BudgetInv, DeferredIsFree
  <2>8. SpentOnFile' /\ SessionBudget'
    <3>1. CASE status = "deferred"
      <4>1. Reserved \subseteq Reserved'
        BY <1>2, <2>5 DEF Reserved, Exists
      <4> QED
        BY <2>2, <2>3, <3>1, <4>1, ReservationsKept
    <3>2. CASE status = "pending"
      <4>1. j \notin Reserved
        BY <1>2 DEF Reserved
      <4>2. r.status # "absent" /\ r.reserved # Never
        BY <2>1, <2>4, <3>2
      <4> QED
        BY <2>1, <2>2, <2>3, <2>4, <3>2, <4>1, <4>2, ReservationFits DEF r
    <3> QED
      BY <3>1, <3>2
  <2> QED
    BY <2>6, <2>7, <2>8 DEF OnFile
<1> QED
  BY <1>1, <1>2 DEF Reserves

(* And a lease, which may have to reserve for a deferred job.              *)
LEMMA LeasesKeeps ==
  ASSUME BudgetInv, NEW c \in Consumers, Leases(c)
  PROVE  OnFile'
<1> TypeOK
  BY DEF BudgetInv, SpoolInv
<1> USE DEF pruneVars
<1> DEFINE j == arg[c]
           at == callNow[c]
           deferred == receipt[j].status = "deferred"
           r == [receipt[j] EXCEPT !.status = "leased", !.owner = c,
                                   !.expires = at + LeaseTime,
                                   !.reserved = IF deferred THEN at ELSE @]
<1>1. /\ j \in Jobs
      /\ receipt[j] \in Receipts
      /\ at \in Int
      /\ at + LeaseTime \in Int
      /\ at # Never
  BY SpoolAssumption DEF TypeOK, Procs, Never
<1>2. /\ Write(j, r)
      /\ Leasable(j, at)
      /\ ~BudgetRefused(j, at)
      /\ IF deferred THEN CountReservation(j, at) ELSE UNCHANGED reservedFor
      /\ UNCHANGED <<target, endSeen>>
  BY DEF Leases
<1>3. /\ r \in Receipts
      /\ r.status = "leased"
      /\ r.reserved = IF deferred THEN at ELSE receipt[j].reserved
  BY <1>1 DEF Receipts, Statuses
<1>4. Exists(j)
  BY <1>2 DEF Leasable, Exists
<1> HIDE DEF r, at, j
<1>5. CASE ~deferred
  <2>1. Settles
    BY <1>1, <1>2, <1>3, <1>4, <1>5 DEF Settles, Statuses
  <2> QED
    BY <1>2, <1>5, <2>1, SettlesKeeps
<1>6. CASE deferred
  <2>1. /\ receipt'[j] = r
        /\ \A i \in Jobs \ {j} : receipt'[i] = receipt[i]
    BY <1>1, <1>2 DEF Write, TypeOK
  <2>2. j \notin Reserved
    BY <1>1, <1>6 DEF Reserved, BudgetInv, DeferredIsFree
  <2>3. ~OverBudget(j, at)
    BY <1>2, <1>6 DEF BudgetRefused
  <2>4. SpentOnFile' /\ SessionBudget'
    BY <1>1, <1>2, <1>3, <1>6, <2>2, <2>3, ReservationFits
  <2>5. \A i \in EndJobs : Exists(i)' \/ target' = i => SessionOf[i] \in endSeen'
    BY <1>2, <1>4, <2>1, SpoolAssumption DEF BudgetInv, EndsSeen, Exists
  <2>6. DeferredIsFree'
    BY <1>3, <2>1 DEF BudgetInv, DeferredIsFree
  <2> QED
    BY <2>4, <2>5, <2>6 DEF OnFile
<1> QED
  BY <1>5, <1>6

(* A prune deletes no reservation of a running session.                    *)
LEMMA PruneKeeps ==
  ASSUME BudgetInv, NEW p \in Procs, PruneStep(p)
  PROVE  OnFile'
<1> TypeOK /\ LockHeld
  BY DEF BudgetInv, SpoolInv
<1> USE DEF fileVars, pruneVars, budgetVars
<1>1. UNCHANGED <<reservedFor, endSeen>>
  BY DEF PruneStep, PruneNotNeeded, BeginPrune, KeepsVictim, UnlinksReceipt,
         UnlinksJob, RestoresReceipt, EndPrune
<1>2. CASE PruneNotNeeded(p) \/ BeginPrune(p) \/ KeepsVictim(p) \/ EndPrune(p)
  <2>1. UNCHANGED <<receipt, target>>
    BY <1>2 DEF PruneNotNeeded, BeginPrune, KeepsVictim, EndPrune
  <2> QED
    BY <1>1, <2>1, SettlesKeeps
<1>3. CASE UnlinksReceipt(p)
  <2>1. PICK j \in victims : /\ ~BudgetRelevant(j, callNow[p])
                             /\ target' = j
                             /\ Write(j, NoReceipt)
    BY <1>3 DEF UnlinksReceipt
  <2>2. /\ j \in Jobs
        /\ receipt'[j] = NoReceipt
        /\ \A i \in Jobs \ {j} : receipt'[i] = receipt[i]
    BY <2>1 DEF Write, TypeOK
  <2>3. Exists(j)
    BY <2>1 DEF BudgetInv, SpoolInv, VictimsDecided, Terminal, Exists
  <2>4. MaxPerSession > 0 /\ j \in Reserved => SessionOf[j] \in endSeen
    BY <2>1, <2>3 DEF BudgetRelevant, Reserved, BudgetInv, EndsSeen
  <2>5. SpentOnFile' /\ SessionBudget'
    <3>1. Reserved \ {j} \subseteq Reserved'
      BY <2>2 DEF Reserved, Exists
    <3> QED
      BY <1>1, <2>4, <3>1, ReservationsKept
  <2>6. \A i \in EndJobs : Exists(i)' \/ target' = i => SessionOf[i] \in endSeen'
    BY <1>1, <2>1, <2>2, <2>3, SpoolAssumption
       DEF BudgetInv, EndsSeen, Exists, NoReceipt
  <2>7. DeferredIsFree'
    BY <2>2 DEF BudgetInv, DeferredIsFree, NoReceipt
  <2> QED
    BY <2>5, <2>6, <2>7 DEF OnFile
<1>4. CASE UnlinksJob(p) \/ RestoresReceipt(p)
  <2>1. /\ target \in Jobs
        /\ target' = Nothing
        /\ UNCHANGED receipt \/ Write(target, removed)
    BY <1>4 DEF UnlinksJob, RestoresReceipt, LockHeld, TypeOK
  <2>2. /\ receipt[target].status = "absent"
        /\ removed.status \in Terminal
    BY <2>1, SpoolAssumption DEF BudgetInv, SpoolInv, VictimsDecided
  <2>3. /\ \A i \in Jobs \ {target} : receipt'[i] = receipt[i]
        /\ receipt'[target] \in {receipt[target], removed}
    BY <2>1 DEF Write, TypeOK
  <2>4. SpentOnFile' /\ SessionBudget'
    <3>1. Reserved \subseteq Reserved'
      BY <2>2, <2>3 DEF Reserved, Exists
    <3> QED
      BY <1>1, <3>1, ReservationsKept
  <2>5. \A i \in EndJobs : Exists(i)' \/ target' = i => SessionOf[i] \in endSeen'
    BY <1>1, <2>1, <2>3, SpoolAssumption DEF BudgetInv, EndsSeen, Exists
  <2>6. DeferredIsFree'
    BY <2>2, <2>3 DEF BudgetInv, DeferredIsFree, Terminal
  <2> QED
    BY <2>4, <2>5, <2>6 DEF OnFile
<1> QED
  BY <1>2, <1>3, <1>4 DEF PruneStep

(* Every step keeps what the receipts on file say of the budgets.          *)
LEMMA OnFileStep ==
  ASSUME BudgetInv, [Next]_vars
  PROVE  OnFile'
<1> SpoolInv /\ OnFile
  BY DEF BudgetInv, EndsSeen, OnFile
<1> USE DEF fileVars, pruneVars, budgetVars
<1>1. ASSUME NEW h \in Hooks, HookStep(h), ~Reserves(h)
      PROVE  OnFile'
  <2>1. UNCHANGED <<receipt, target, reservedFor>> /\ endSeen \subseteq endSeen'
    BY <1>1 DEF HookStep, BeginSubmit, LooksForReceipt, ReadsReceipt,
                LooksForJob, LoadsJob, SavesCheckpoint, EndOverlaps
  <2>2. SpentOnFile' /\ SessionBudget'
    BY <2>1, ReservationsKept DEF Reserved, Exists
  <2> QED
    BY <2>1, <2>2 DEF OnFile, DeferredIsFree, Exists
<1>2. ASSUME NEW c \in Consumers, ConsumerStep(c), ~Leases(c)
      PROVE  OnFile'
  <2>1. Settles \/ UNCHANGED receipt
    BY <1>2, FinishSettles
       DEF ConsumerStep, BeginLease, LeaseRefused, StagesCandidate,
           FinishRefused
  <2>2. UNCHANGED <<target, reservedFor, endSeen>>
    BY <1>2 DEF ConsumerStep, BeginLease, LeaseRefused, StagesCandidate,
                FinishRefused, Finishes, FinishesUnleased, Releases
  <2> QED
    BY <2>1, <2>2, SettlesKeeps
<1>3. ASSUME NEW j \in Jobs, RecoversExpired(j)
      PROVE  OnFile'
  <2>1. UNCHANGED <<target, reservedFor, endSeen>>
    BY <1>3 DEF RecoversExpired
  <2> QED
    BY <1>3, <2>1, FinishSettles, SettlesKeeps
<1>4. ASSUME NEW p \in Procs, LockTimesOut(p) \/ Crash(p)
      PROVE  OnFile'
  <2>1. /\ UNCHANGED <<receipt, reservedFor, endSeen>>
        /\ target' = target \/ target' = Nothing
    BY <1>4 DEF LockTimesOut, Crash
  <2>2. SpentOnFile' /\ SessionBudget'
    BY <2>1, ReservationsKept DEF Reserved, Exists
  <2> QED
    BY <2>1, <2>2, SpoolAssumption DEF OnFile, DeferredIsFree, Exists
<1>5. CASE Tick \/ UNCHANGED vars
  <2>1. UNCHANGED <<receipt, target, reservedFor, endSeen>>
    BY <1>5 DEF Tick, vars
  <2> QED
    BY <2>1, SettlesKeeps
<1> QED
  BY <1>1, <1>2, <1>3, <1>4, <1>5, ReservesKeeps, LeasesKeeps, PruneKeeps
     DEF Next

(* Every step keeps the ends known to those who act on them.               *)
LEMMA EndsStep ==
  ASSUME BudgetInv, [Next]_vars
  PROVE  EndsSeen'
<1> TypeOK /\ EndsSeen
  BY DEF BudgetInv, SpoolInv
<1> USE SpoolAssumption DEF fileVars, budgetVars
<1> DEFINE HooksKnow ==
             \A h \in Hooks :
               pc[h] \in PastReservation /\ arg[h] \in EndJobs
                 => SessionOf[arg[h]] \in endSeen
<1> SUFFICES ended' \subseteq endSeen' /\ HooksKnow'
  BY OnFileStep DEF OnFile, EndsSeen
<1>1. ended \subseteq endSeen /\ HooksKnow
  BY DEF EndsSeen
<1>2. ASSUME NEW p \in Procs, endSeen \subseteq endSeen',
             \A q \in Procs \ {p} : pc'[q] = pc[q] /\ arg'[q] = arg[q],
             p \in Hooks /\ pc'[p] \in PastReservation /\ arg'[p] \in EndJobs
               => SessionOf[arg'[p]] \in endSeen'
      PROVE  HooksKnow'
  BY <1>1, <1>2 DEF Procs
<1>3. ASSUME NEW h \in Hooks, HookStep(h)
      PROVE  ended' \subseteq endSeen' /\ HooksKnow'
  <2>1. h \in Procs /\ arg[h] \in Jobs
    BY DEF Procs, TypeOK
  <2>2. /\ endSeen \subseteq endSeen'
        /\ \A q \in Procs \ {h} : pc'[q] = pc[q] /\ arg'[q] = arg[q]
    BY <1>3 DEF HookStep, BeginSubmit, LooksForReceipt, ReadsReceipt,
                LooksForJob, LoadsJob, Reserves, SavesCheckpoint, EndOverlaps,
                Calls, Returns, ReturnsUnless, Goto, procVars, TypeOK
  <2>3. ASSUME NEW place, Goto(h, place),
               place \in PastReservation /\ arg'[h] \in EndJobs
                 => SessionOf[arg'[h]] \in endSeen'
        PROVE  HooksKnow'
    <3>1. pc'[h] = place
      BY <2>1, <2>3 DEF Goto, TypeOK
    <3> QED
      BY <1>2, <2>1, <2>2, <2>3, <3>1
  <2>4. ASSUME NEW place \in {"idle", "looking", "checkingJob", "loadingJob",
                              "reserving"}, Goto(h, place)
        PROVE  HooksKnow'
    BY <2>3, <2>4 DEF PastReservation, InPrune
  <2>5. ASSUME NEW j \in Jobs, BeginSubmit(h, j)
        PROVE  ended' \subseteq endSeen' /\ HooksKnow'
    BY <1>1, <2>4, <2>5 DEF BeginSubmit, Calls
  <2>6. CASE LooksForReceipt(h)
    <3>1. CASE Exists(arg[h])
      <4>1. Goto(h, "reading") /\ UNCHANGED <<arg, ended, endSeen>>
        BY <2>6, <3>1 DEF LooksForReceipt
      <4>2. arg[h] \in EndJobs => SessionOf[arg[h]] \in endSeen
        BY <3>1 DEF EndsSeen
      <4> QED
        BY <1>1, <2>3, <4>1, <4>2
    <3>2. CASE ~Exists(arg[h])
      BY <1>1, <2>4, <2>6, <3>2 DEF LooksForReceipt
    <3> QED
      BY <3>1, <3>2
  <2>7. CASE ReadsReceipt(h)
    <3>1. \/ Goto(h, "idle")
          \/ Goto(h, "checkpointing") /\ UNCHANGED arg
      BY <2>7 DEF ReadsReceipt, ReturnsUnless, Returns
    <3>2. arg[h] \in EndJobs => SessionOf[arg[h]] \in endSeen
      BY <2>7 DEF ReadsReceipt, EndsSeen, PastReservation
    <3> QED
      BY <1>1, <2>2, <2>3, <2>4, <2>7, <3>1, <3>2 DEF ReadsReceipt
  <2>8. CASE LooksForJob(h) \/ LoadsJob(h)
    BY <1>1, <2>4, <2>8 DEF LooksForJob, LoadsJob, ReturnsUnless, Returns
  <2>9. CASE Reserves(h)
    <3>1. arg[h] \in EndJobs => SessionOf[arg[h]] \in endSeen'
      BY <2>9 DEF Reserves, EndsSeen
    <3>2. UNCHANGED arg /\ \E place : Goto(h, place)
      BY <2>9 DEF Reserves
    <3> QED
      BY <1>1, <2>2, <2>3, <2>9, <3>1, <3>2 DEF Reserves
  <2>10. CASE SavesCheckpoint(h)
    <3>1. arg[h] \in EndJobs => SessionOf[arg[h]] \in endSeen
      BY <2>10 DEF SavesCheckpoint, EndsSeen, PastReservation
    <3> QED
      BY <1>1, <2>4, <2>10, <3>1 DEF SavesCheckpoint, Returns
  <2>11. ASSUME NEW s \in Sessions, EndOverlaps(h, s)
         PROVE  ended' \subseteq endSeen' /\ HooksKnow'
    BY <1>1, <2>11 DEF EndOverlaps, procVars
  <2> QED
    BY <1>3, <2>5, <2>6, <2>7, <2>8, <2>9, <2>10, <2>11 DEF HookStep
<1>4. ASSUME NEW c \in Consumers, ConsumerStep(c)
      PROVE  ended' \subseteq endSeen' /\ HooksKnow'
  <2>1. c \in Procs /\ c \notin Hooks
    BY DEF Procs
  <2>2. /\ UNCHANGED <<ended, endSeen>>
        /\ \A q \in Procs \ {c} : pc'[q] = pc[q] /\ arg'[q] = arg[q]
    BY <1>4 DEF ConsumerStep, BeginLease, FinishesUnleased, LeaseRefused,
                Leases, StagesCandidate, Finishes, FinishRefused, Releases,
                Calls, Returns, Goto, TypeOK
  <2> QED
    BY <1>1, <1>2, <2>1, <2>2
<1>5. ASSUME NEW p \in Procs, PruneStep(p) \/ LockTimesOut(p) \/ Crash(p)
      PROVE  ended' \subseteq endSeen' /\ HooksKnow'
  <2>1. /\ UNCHANGED <<ended, endSeen>>
        /\ \A q \in Procs \ {p} : pc'[q] = pc[q] /\ arg'[q] = arg[q]
    BY <1>5 DEF PruneStep, PruneNotNeeded, BeginPrune, KeepsVictim,
                UnlinksReceipt, UnlinksJob, RestoresReceipt, EndPrune,
                LockTimesOut, Crash, BackToCaller, Returns, ReturnsUnless,
                procVars, Goto, TypeOK
  <2>2. pc'[p] = "idle" \/ (pc[p] \in PastReservation /\ arg'[p] = arg[p])
    BY <1>5 DEF PruneStep, PruneNotNeeded, BeginPrune, KeepsVictim,
                UnlinksReceipt, UnlinksJob, RestoresReceipt, EndPrune,
                LockTimesOut, Crash, BackToCaller, Returns, ReturnsUnless,
                procVars, Goto, TypeOK, PastReservation, InPrune
  <2>3. "idle" \notin PastReservation
    BY DEF PastReservation, InPrune
  <2> QED
    BY <1>1, <1>2, <2>1, <2>2, <2>3
<1>6. CASE Tick \/ (\E j \in Jobs : RecoversExpired(j)) \/ UNCHANGED vars
  BY <1>1, <1>6 DEF Tick, RecoversExpired, vars, procVars
<1> QED
  BY <1>3, <1>4, <1>5, <1>6 DEF Next

(* The budget invariant is inductive.                                      *)
LEMMA BudgetStep == BudgetInv /\ [Next]_vars => BudgetInv'
<1> SUFFICES ASSUME BudgetInv, [Next]_vars
             PROVE  BudgetInv'
  OBVIOUS
<1>1. SpoolInv'
  BY SpoolInvStep DEF BudgetInv
<1> QED
  BY <1>1, OnFileStep, EndsStep DEF BudgetInv, OnFile

(* Until its end is seen, a session gets no more reservations than its     *)
(* budget: by however many hooks and consumers, whatever retention deletes,*)
(* whatever is denied or killed on the way, and however long calls take.   *)
THEOREM SessionBudgetKept == Spec => []SessionBudget
<1>1. BudgetInv => SessionBudget
  BY DEF BudgetInv
<1> QED
  BY <1>1, BudgetInit, BudgetStep, PTL DEF Spec

-----------------------------------------------------------------------------
(* The daily budget                                                        *)

(* Calls are short: the clock does not move inside one.                    *)
CallsAreNow == \A p \in Procs : pc[p] \in InCall => callNow[p] = now

SpentOn(d) == {i \in Reserved : Day(receipt[i].reserved) = d}

(* Every reservation of today is still on file, and there is none of a day *)
(* that is yet to come.                                                    *)
TodayOnFile ==
  /\ MaxPerDay > 0 =>
       \A d \in Days :
         d = Day(now) => reservedOn[d] <= Cardinality(SpentOn(d))
  /\ \A d \in Days : d > Day(now) => reservedOn[d] = 0

DailyInv ==
  /\ BudgetInv
  /\ CallsAreNow
  /\ TodayOnFile
  /\ DailyBudget

(* The receipts that count are finitely many.                              *)
LEMMA SpentOnFinite ==
  ASSUME NEW d
  PROVE  IsFiniteSet(SpentOn(d)) /\ Cardinality(SpentOn(d)) \in Nat
<1>1. SpentOn(d) \subseteq Jobs
  BY DEF SpentOn, Reserved
<1> QED
  BY <1>1, SpoolAssumption, FS_Subset, FS_CardinalityType

(* The day of a time is a number, and time does not go back a day.         *)
LEMMA DayMonotone ==
  ASSUME NEW s \in Nat, NEW t \in Nat, s <= t
  PROVE  Day(s) \in Nat /\ Day(t) \in Nat /\ Day(s) <= Day(t)
  BY SpoolAssumption DEF Day

(* Nothing is spent at first.                                              *)
LEMMA DailyInit == Init => DailyInv
<1> SUFFICES ASSUME Init
             PROVE  DailyInv
  OBVIOUS
<1>1. BudgetInv
  BY BudgetInit
<1>2. CallsAreNow
  BY DEF Init, CallsAreNow
<1>3. TodayOnFile
  BY SpentOnFinite DEF Init, TodayOnFile
<1>4. DailyBudget
  BY SpoolAssumption DEF Init, DailyBudget
<1> QED
  BY <1>1, <1>2, <1>3, <1>4 DEF DailyInv

(* While calls are short, each works with the time it is.                  *)
LEMMA CallsStep ==
  ASSUME ~SlowCalls, DailyInv, [Next]_vars
  PROVE  CallsAreNow'
<1> TypeOK /\ CallsAreNow
  BY DEF DailyInv, BudgetInv, SpoolInv
<1>1. ASSUME NEW p \in Procs, UNCHANGED now,
             \A q \in Procs \ {p} : pc'[q] = pc[q] /\ callNow'[q] = callNow[q],
             \/ pc'[p] \notin InCall
             \/ callNow'[p] = now
             \/ pc[p] \in InCall /\ callNow'[p] = callNow[p]
      PROVE  CallsAreNow'
  BY <1>1 DEF CallsAreNow
<1>2. ASSUME UNCHANGED <<procVars, now>>
      PROVE  CallsAreNow'
  BY <1>2 DEF CallsAreNow, procVars
<1>3. ASSUME NEW h \in Hooks, HookStep(h)
      PROVE  CallsAreNow'
  <2>1. CASE \E s \in Sessions : EndOverlaps(h, s)
    BY <1>2, <2>1 DEF EndOverlaps
  <2>2. CASE ~\E s \in Sessions : EndOverlaps(h, s)
    <3>1. h \in Procs
      BY DEF Procs
    <3>2. /\ UNCHANGED now
          /\ \A q \in Procs \ {h} : pc'[q] = pc[q] /\ callNow'[q] = callNow[q]
      BY <1>3, <2>2
         DEF HookStep, BeginSubmit, LooksForReceipt, ReadsReceipt,
             LooksForJob, LoadsJob, Reserves, SavesCheckpoint, Calls, Returns,
             ReturnsUnless, Goto, TypeOK
    <3>3. \/ pc'[h] \notin InCall
          \/ callNow'[h] = now
          \/ pc[h] \in InCall /\ callNow'[h] = callNow[h]
      BY <1>3, <2>2, <3>1
         DEF HookStep, BeginSubmit, LooksForReceipt, ReadsReceipt,
             LooksForJob, LoadsJob, Reserves, SavesCheckpoint, Calls, Returns,
             ReturnsUnless, Goto, TypeOK, InCall, PCs
    <3> QED
      BY <1>1, <3>1, <3>2, <3>3
  <2> QED
    BY <2>1, <2>2
<1>4. ASSUME NEW c \in Consumers, ConsumerStep(c)
      PROVE  CallsAreNow'
  <2>1. c \in Procs
    BY DEF Procs
  <2>2. /\ UNCHANGED now
        /\ \A q \in Procs \ {c} : pc'[q] = pc[q] /\ callNow'[q] = callNow[q]
    BY <1>4 DEF ConsumerStep, BeginLease, FinishesUnleased, LeaseRefused,
                Leases, StagesCandidate, Finishes, FinishRefused, Releases,
                Calls, Returns, Goto, TypeOK
  <2>3. pc'[c] \notin InCall \/ callNow'[c] = now
    BY <1>4, <2>1
       DEF ConsumerStep, BeginLease, FinishesUnleased, LeaseRefused, Leases,
           StagesCandidate, Finishes, FinishRefused, Releases, Calls,
           Returns, Goto, TypeOK, InCall, PCs
  <2> QED
    BY <1>1, <2>1, <2>2, <2>3
<1>5. ASSUME NEW p \in Procs, PruneStep(p) \/ LockTimesOut(p) \/ Crash(p)
      PROVE  CallsAreNow'
  <2>1. /\ UNCHANGED now
        /\ \A q \in Procs \ {p} : pc'[q] = pc[q] /\ callNow'[q] = callNow[q]
    BY <1>5 DEF PruneStep, PruneNotNeeded, BeginPrune, KeepsVictim,
                UnlinksReceipt, UnlinksJob, RestoresReceipt, EndPrune,
                LockTimesOut, Crash, BackToCaller, Returns, ReturnsUnless,
                procVars, Goto, TypeOK
  <2>2. \/ pc'[p] \notin InCall
        \/ pc[p] \in InCall /\ callNow'[p] = callNow[p]
    BY <1>5 DEF PruneStep, PruneNotNeeded, BeginPrune, KeepsVictim,
                UnlinksReceipt, UnlinksJob, RestoresReceipt, EndPrune,
                LockTimesOut, Crash, BackToCaller, Returns, ReturnsUnless,
                procVars, Goto, TypeOK, InCall, PCs
  <2> QED
    BY <1>1, <2>1, <2>2
<1>6. CASE Tick
  BY <1>6 DEF Tick, CallsAreNow, procVars
<1>7. CASE (\E j \in Jobs : RecoversExpired(j)) \/ UNCHANGED vars
  BY <1>2, <1>7 DEF RecoversExpired, vars
<1> QED
  BY <1>3, <1>4, <1>5, <1>6, <1>7 DEF Next

(* Where no reservation is given and none of today is lost, the budget of  *)
(* the day is kept.                                                        *)
LEMMA TodayKept ==
  ASSUME DailyInv, UNCHANGED <<reservedOn, now>>,
         MaxPerDay > 0 =>
           \A i \in Reserved :
             Day(receipt[i].reserved) = Day(now) =>
               i \in Reserved' /\ receipt'[i].reserved = receipt[i].reserved
  PROVE  TodayOnFile' /\ DailyBudget'
<1>1. DailyBudget'
  BY DEF DailyInv, DailyBudget
<1>2. \A d \in Days : d > Day(now)' => reservedOn'[d] = 0
  BY DEF DailyInv, TodayOnFile, Day
<1>3. ASSUME MaxPerDay > 0, NEW d \in Days, d = Day(now)
      PROVE  reservedOn[d] <= Cardinality(SpentOn(d)')
  <2>1. reservedOn[d] <= Cardinality(SpentOn(d)) /\ reservedOn[d] \in Nat
    BY <1>3 DEF DailyInv, TodayOnFile, BudgetInv, SpoolInv, TypeOK
  <2>2. SpentOn(d) \subseteq SpentOn(d)'
    BY <1>3 DEF SpentOn, Day
  <2>3. SpentOn(d)' \subseteq Jobs
    BY DEF SpentOn, Reserved
  <2>4. /\ IsFiniteSet(SpentOn(d)')
        /\ Cardinality(SpentOn(d)') \in Nat
        /\ Cardinality(SpentOn(d)) \in Nat
        /\ Cardinality(SpentOn(d)) <= Cardinality(SpentOn(d)')
    BY <2>2, <2>3, SpentOnFinite, SpoolAssumption, FS_Subset,
       FS_CardinalityType
  <2> QED
    BY <2>1, <2>4
<1> QED
  BY <1>1, <1>2, <1>3 DEF TodayOnFile, Day

(* A reservation that the budget allows today keeps it.                    *)
LEMMA TodayFits ==
  ASSUME DailyInv, NEW j \in Jobs, NEW r \in Receipts, j \notin Reserved,
         ~OverBudget(j, now), CountReservation(j, now), Write(j, r),
         r.status # "absent", r.reserved = now, now # Never, UNCHANGED now
  PROVE  TodayOnFile' /\ DailyBudget'
<1> TypeOK
  BY DEF DailyInv, BudgetInv, SpoolInv
<1>1. \A d \in Days : d # Day(now) => reservedOn'[d] = reservedOn[d]
  BY DEF CountReservation, TypeOK
<1>2. Day(now) \in Nat
  BY DayMonotone, SpoolAssumption DEF TypeOK
<1>3. \A d \in Days : d > Day(now)' => reservedOn'[d] = 0
  <2>1. \A d \in Days : d \in Int
    BY DEF Days
  <2> QED
    BY <1>1, <1>2, <2>1 DEF DailyInv, TodayOnFile, Day
<1>4. ASSUME MaxPerDay > 0, NEW d \in Days, d = Day(now)
      PROVE  /\ reservedOn'[d] <= Cardinality(SpentOn(d)')
             /\ reservedOn'[d] <= MaxPerDay
  <2>1. reservedOn'[d] = reservedOn[d] + 1 /\ reservedOn[d] \in Nat
    BY <1>4 DEF CountReservation, TypeOK
  <2>2. Reserved' = Reserved \cup {j}
    BY DEF Reserved, Exists, Write, TypeOK
  <2>3. /\ receipt'[j].reserved = now
        /\ \A i \in Jobs \ {j} : receipt'[i] = receipt[i]
    BY DEF Write, TypeOK
  <2>4. SpentOn(d)' = SpentOn(d) \cup {j} /\ j \notin SpentOn(d)
    BY <1>4, <2>2, <2>3 DEF SpentOn, Reserved
  <2>5. /\ IsFiniteSet(SpentOn(d))
        /\ Cardinality(SpentOn(d)) \in Nat
        /\ Cardinality(SpentOn(d)') = Cardinality(SpentOn(d)) + 1
    BY <2>4, SpentOnFinite, FS_AddElement
  <2>6. ~(Cardinality(SpentOn(d)) >= MaxPerDay)
    BY <1>4 DEF OverBudget, SpentOn
  <2>7. reservedOn[d] <= Cardinality(SpentOn(d))
    BY <1>4 DEF DailyInv, TodayOnFile
  <2> QED
    BY <2>1, <2>5, <2>6, <2>7, SpoolAssumption
<1>5. DailyBudget'
  BY <1>1, <1>4 DEF DailyInv, DailyBudget
<1> QED
  BY <1>3, <1>4, <1>5 DEF TodayOnFile, Day

(* A settled receipt keeps what was reserved today.                        *)
LEMMA TodaySettled ==
  ASSUME DailyInv, Settles \/ UNCHANGED receipt, UNCHANGED <<reservedOn, now>>
  PROVE  TodayOnFile' /\ DailyBudget'
<1>1. CASE UNCHANGED receipt
  BY <1>1, TodayKept DEF Reserved, Exists
<1>2. CASE Settles
  <2>1. PICK j \in Jobs, r \in Receipts :
          /\ Exists(j)
          /\ r.status \in Statuses \ {"deferred"}
          /\ r.reserved = receipt[j].reserved
          /\ Write(j, r)
    BY <1>2 DEF Settles
  <2>2. /\ receipt'[j] = r
        /\ \A i \in Jobs \ {j} : receipt'[i] = receipt[i]
    BY <2>1 DEF Write, DailyInv, BudgetInv, SpoolInv, TypeOK
  <2>3. \A i \in Reserved :
          i \in Reserved' /\ receipt'[i].reserved = receipt[i].reserved
    BY <2>1, <2>2 DEF Reserved, Exists, Statuses
  <2> QED
    BY <2>3, TodayKept
<1> QED
  BY <1>1, <1>2

(* A hook that reserves does so today.                                     *)
LEMMA TodayReserves ==
  ASSUME DailyInv, NEW h \in Hooks, Reserves(h)
  PROVE  TodayOnFile' /\ DailyBudget'
<1> TypeOK /\ CallsAreNow
  BY DEF DailyInv, BudgetInv, SpoolInv
<1> DEFINE j == arg[h]
<1>1. /\ j \in Jobs
      /\ now \in Int
      /\ now # Never
      /\ callNow[h] = now
      /\ UNCHANGED now
  BY SpoolAssumption
     DEF TypeOK, Procs, Never, Reserves, CallsAreNow, InCall, PCs
<1>2. CASE UNCHANGED <<receipt, reservedOn>>
  BY <1>1, <1>2, TodaySettled
<1>3. CASE /\ ~Exists(j)
           /\ UNCHANGED reservedOn
           /\ \E r : Write(j, r)
  <2>1. j \notin Reserved
    BY <1>3 DEF Reserved
  <2>2. \A i \in Jobs \ {j} : receipt'[i] = receipt[i]
    BY <1>3 DEF Write, TypeOK
  <2>3. \A i \in Reserved :
          i \in Reserved' /\ receipt'[i].reserved = receipt[i].reserved
    BY <2>1, <2>2 DEF Reserved, Exists
  <2> QED
    BY <1>1, <1>3, <2>3, TodayKept
<1>4. CASE /\ ~Exists(j)
           /\ ~OverBudget(j, now)
           /\ CountReservation(j, now)
           /\ Write(j, NewReceipt(j, "pending", now))
  <2> DEFINE r == NewReceipt(j, "pending", now)
  <2>1. r \in Receipts
    BY <1>1, NewReceiptType DEF Statuses
  <2>2. r.status # "absent" /\ r.reserved = now
    BY DEF NewReceipt, NoReceipt
  <2>3. j \notin Reserved
    BY <1>4 DEF Reserved
  <2> QED
    BY <1>1, <1>4, <2>1, <2>2, <2>3, TodayFits
<1> QED
  BY <1>1, <1>2, <1>3, <1>4 DEF Reserves, budgetVars

(* So does a consumer that leases a deferred job.                          *)
LEMMA TodayLeases ==
  ASSUME DailyInv, NEW c \in Consumers, Leases(c)
  PROVE  TodayOnFile' /\ DailyBudget'
<1> TypeOK /\ CallsAreNow
  BY DEF DailyInv, BudgetInv, SpoolInv
<1> DEFINE j == arg[c]
           deferred == receipt[j].status = "deferred"
           r == [receipt[j] EXCEPT !.status = "leased", !.owner = c,
                                   !.expires = now + LeaseTime,
                                   !.reserved = IF deferred THEN now ELSE @]
<1>1. /\ j \in Jobs
      /\ receipt[j] \in Receipts
      /\ now \in Int
      /\ now # Never
      /\ now + LeaseTime \in Int
      /\ callNow[c] = now
      /\ UNCHANGED now
  BY SpoolAssumption
     DEF TypeOK, Procs, Never, Leases, CallsAreNow, InCall, PCs
<1>2. /\ Write(j, r)
      /\ Leasable(j, now)
      /\ ~BudgetRefused(j, now)
      /\ IF deferred THEN CountReservation(j, now) ELSE UNCHANGED reservedOn
  BY <1>1 DEF Leases
<1>3. /\ r \in Receipts
      /\ r.status = "leased"
      /\ r.reserved = IF deferred THEN now ELSE receipt[j].reserved
  BY <1>1 DEF Receipts, Statuses
<1>4. Exists(j)
  BY <1>2 DEF Leasable, Exists
<1> HIDE DEF r, j
<1>5. CASE ~deferred
  <2>1. Settles
    BY <1>1, <1>2, <1>3, <1>4, <1>5 DEF Settles, Statuses
  <2> QED
    BY <1>1, <1>2, <1>5, <2>1, TodaySettled
<1>6. CASE deferred
  <2>1. j \notin Reserved
    BY <1>1, <1>6 DEF Reserved, DailyInv, BudgetInv, DeferredIsFree
  <2>2. ~OverBudget(j, now)
    BY <1>2, <1>6 DEF BudgetRefused
  <2> QED
    BY <1>1, <1>2, <1>3, <1>6, <2>1, <2>2, TodayFits
<1> QED
  BY <1>5, <1>6

(* A prune deletes nothing that was reserved today.                        *)
LEMMA TodayPrunes ==
  ASSUME DailyInv, NEW p \in Procs, PruneStep(p)
  PROVE  TodayOnFile' /\ DailyBudget'
<1> TypeOK /\ LockHeld /\ CallsAreNow
  BY DEF DailyInv, BudgetInv, SpoolInv
<1> USE DEF fileVars, pruneVars, budgetVars
<1>1. UNCHANGED <<reservedOn, now>>
  BY DEF PruneStep, PruneNotNeeded, BeginPrune, KeepsVictim, UnlinksReceipt,
         UnlinksJob, RestoresReceipt, EndPrune
<1>2. CASE PruneNotNeeded(p) \/ BeginPrune(p) \/ KeepsVictim(p) \/ EndPrune(p)
  <2>1. UNCHANGED receipt
    BY <1>2 DEF PruneNotNeeded, BeginPrune, KeepsVictim, EndPrune
  <2> QED
    BY <1>1, <2>1, TodaySettled
<1>3. CASE UnlinksReceipt(p)
  <2>1. PICK j \in victims : /\ ~BudgetRelevant(j, callNow[p])
                             /\ Write(j, NoReceipt)
    BY <1>3 DEF UnlinksReceipt
  <2>2. callNow[p] = now
    BY <1>3 DEF UnlinksReceipt, CallsAreNow, InCall, PCs
  <2>3. \A i \in Jobs \ {j} : receipt'[i] = receipt[i]
    BY <2>1 DEF Write, TypeOK
  <2>4. MaxPerDay > 0 /\ j \in Reserved => Day(receipt[j].reserved) # Day(now)
    BY <2>1, <2>2 DEF BudgetRelevant, Reserved
  <2>5. MaxPerDay > 0 =>
          \A i \in Reserved :
            Day(receipt[i].reserved) = Day(now) =>
              i \in Reserved' /\ receipt'[i].reserved = receipt[i].reserved
    BY <2>3, <2>4 DEF Reserved, Exists
  <2> QED
    BY <1>1, <2>5, TodayKept
<1>4. CASE UnlinksJob(p) \/ RestoresReceipt(p)
  <2>1. /\ target \in Jobs
        /\ UNCHANGED receipt \/ Write(target, removed)
    BY <1>4 DEF UnlinksJob, RestoresReceipt, LockHeld, TypeOK
  <2>2. receipt[target].status = "absent"
    BY <2>1, SpoolAssumption DEF DailyInv, BudgetInv, SpoolInv, VictimsDecided
  <2>3. \A i \in Jobs \ {target} : receipt'[i] = receipt[i]
    BY <2>1 DEF Write, TypeOK
  <2>4. \A i \in Reserved :
          i \in Reserved' /\ receipt'[i].reserved = receipt[i].reserved
    BY <2>2, <2>3 DEF Reserved, Exists
  <2> QED
    BY <1>1, <2>4, TodayKept
<1> QED
  BY <1>2, <1>3, <1>4 DEF PruneStep

(* A new day begins with nothing reserved.                                 *)
LEMMA TodayBegins ==
  ASSUME DailyInv, Tick
  PROVE  TodayOnFile' /\ DailyBudget'
<1>1. /\ UNCHANGED <<receipt, reservedOn>>
      /\ now' = now + 1
      /\ now \in Nat
  BY SpoolAssumption
     DEF Tick, fileVars, budgetVars, DailyInv, BudgetInv, SpoolInv, TypeOK
<1>2. /\ Day(now) \in Nat
      /\ Day(now') \in Nat
      /\ Day(now) <= Day(now')
  BY <1>1, DayMonotone
<1>3. \A d \in Days : SpentOn(d)' = SpentOn(d)
  BY <1>1 DEF SpentOn, Reserved, Exists, Day
<1>4. \A d \in Days : d \in Int
  BY DEF Days
<1>5. ASSUME NEW d \in Days, d > Day(now')
      PROVE  reservedOn'[d] = 0
  BY <1>1, <1>2, <1>4, <1>5 DEF DailyInv, TodayOnFile
<1>6. ASSUME MaxPerDay > 0, NEW d \in Days, d = Day(now')
      PROVE  reservedOn'[d] <= Cardinality(SpentOn(d)')
  <2>1. CASE d = Day(now)
    BY <1>1, <1>3, <1>6, <2>1 DEF DailyInv, TodayOnFile
  <2>2. CASE d # Day(now)
    <3>1. reservedOn[d] = 0
      BY <1>2, <1>4, <1>6, <2>2 DEF DailyInv, TodayOnFile
    <3> QED
      BY <1>1, <1>3, <3>1, SpentOnFinite
  <2> QED
    BY <2>1, <2>2
<1>7. Day(now)' = Day(now')
  BY DEF Day
<1>8. TodayOnFile'
  BY <1>5, <1>6, <1>7 DEF TodayOnFile
<1> QED
  BY <1>1, <1>8 DEF DailyInv, DailyBudget

(* While calls are short, the daily invariant is inductive.                *)
LEMMA DailyStep ==
  ASSUME ~SlowCalls, DailyInv, [Next]_vars
  PROVE  DailyInv'
<1> SpoolInv
  BY DEF DailyInv, BudgetInv
<1>1. BudgetInv' /\ CallsAreNow'
  BY BudgetStep, CallsStep DEF DailyInv
<1> SUFFICES TodayOnFile' /\ DailyBudget'
  BY <1>1 DEF DailyInv
<1> USE DEF fileVars, budgetVars
<1>2. ASSUME NEW h \in Hooks, HookStep(h), ~Reserves(h)
      PROVE  TodayOnFile' /\ DailyBudget'
  <2>1. UNCHANGED <<receipt, reservedOn, now>>
    BY <1>2 DEF HookStep, BeginSubmit, LooksForReceipt, ReadsReceipt,
                LooksForJob, LoadsJob, SavesCheckpoint, EndOverlaps
  <2> QED
    BY <2>1, TodaySettled
<1>3. ASSUME NEW c \in Consumers, ConsumerStep(c), ~Leases(c)
      PROVE  TodayOnFile' /\ DailyBudget'
  <2>1. Settles \/ UNCHANGED receipt
    BY <1>3, FinishSettles
       DEF ConsumerStep, BeginLease, LeaseRefused, StagesCandidate,
           FinishRefused
  <2>2. UNCHANGED <<reservedOn, now>>
    BY <1>3 DEF ConsumerStep, BeginLease, LeaseRefused, StagesCandidate,
                FinishRefused, Finishes, FinishesUnleased, Releases
  <2> QED
    BY <2>1, <2>2, TodaySettled
<1>4. ASSUME NEW j \in Jobs, RecoversExpired(j)
      PROVE  TodayOnFile' /\ DailyBudget'
  <2>1. UNCHANGED <<reservedOn, now>>
    BY <1>4 DEF RecoversExpired
  <2> QED
    BY <1>4, <2>1, FinishSettles, TodaySettled
<1>5. ASSUME NEW p \in Procs, LockTimesOut(p) \/ Crash(p)
      PROVE  TodayOnFile' /\ DailyBudget'
  <2>1. UNCHANGED <<receipt, reservedOn, now>>
    BY <1>5 DEF LockTimesOut, Crash
  <2> QED
    BY <2>1, TodaySettled
<1>6. CASE UNCHANGED vars
  BY <1>6, TodaySettled DEF vars
<1> QED
  BY <1>2, <1>3, <1>4, <1>5, <1>6, TodayReserves, TodayLeases, TodayPrunes,
     TodayBegins DEF Next

(* As long as no call spans a tick of the clock, no day gets more          *)
(* reservations than the daily budget, over every midnight: retention      *)
(* keeps each receipt of today, and every call looks at today's.           *)
THEOREM DailyBudgetKept == ~SlowCalls => (Spec => []DailyBudget)
<1> SUFFICES ASSUME ~SlowCalls
             PROVE  Spec => []DailyBudget
  OBVIOUS
<1>1. DailyInv => DailyBudget
  BY DEF DailyInv
<1> QED
  BY <1>1, DailyInit, DailyStep, PTL DEF Spec

=============================================================================
