------------------------- MODULE SessionHooksProofs -------------------------
(***************************************************************************)
(* Theorems about SessionHooks for any sets of hooks and keys, any number  *)
(* of crashes, failing saves and damages of the state file.                *)
(***************************************************************************)
EXTENDS SessionHooks, TLAPS

-----------------------------------------------------------------------------
(* Types                                                                   *)

(* The state of a missing file is a state.                                 *)
LEMMA FreshIsState == FreshState \in SessionStates
  BY DEF FreshState, SessionStates, FreshRuntimes, CheckRuntimes, Never

(* Running the checks changes counters and switches, nothing else.         *)
LEMMA RunChecksType ==
  ASSUME NEW runtimes \in [CheckNames -> CheckRuntimes], NEW project
  PROVE  RunChecks(runtimes, project) \in [CheckNames -> CheckRuntimes]
<1> DEFINE speakers == {CheckOrder[i] : i \in Speaker(runtimes, project)}
           silent == AskedInVain(runtimes, project)
           after(c) == IF c \in speakers THEN AfterMessage(runtimes[c])
                       ELSE IF c \in silent THEN AfterSilence(runtimes[c])
                       ELSE runtimes[c]
<1>1. ASSUME NEW c \in CheckNames
      PROVE  after(c) \in CheckRuntimes
  <2>1. /\ runtimes[c] \in CheckRuntimes
        /\ runtimes[c].idle \in Nat
        /\ runtimes[c].disabled \in BOOLEAN
    BY DEF CheckRuntimes
  <2>2. AfterMessage(runtimes[c]) \in CheckRuntimes
    BY <2>1 DEF AfterMessage, CheckRuntimes
  <2>3. AfterSilence(runtimes[c]) \in CheckRuntimes
    BY <2>1, ChecksAssumption DEF AfterSilence, CheckRuntimes
  <2> QED
    BY <2>1, <2>2, <2>3
<1>2. RunChecks(runtimes, project) = [c \in CheckNames |-> after(c)]
  BY DEF RunChecks
<1> HIDE DEF after
<1> QED
  BY <1>1, <1>2

(* A recorded message leaves a state.                                      *)
LEMMA RecordKeepsType ==
  ASSUME NEW state \in SessionStates, now \in Nat
  PROVE  RecordMessage(state) \in SessionStates
  BY DEF RecordMessage, SessionStates

(* Counting one more, or none, leaves a count.                             *)
LEMMA CountKeepsType ==
  ASSUME NEW f \in [Keys -> Nat], NEW k, NEW b
  PROVE  [f EXCEPT ![k] = @ + OneIf(b)] \in [Keys -> Nat]
<1>1. CASE k \in Keys
  <2>1. f[k] + OneIf(b) \in Nat
    BY <1>1 DEF OneIf
  <2> QED
    BY <1>1, <2>1
<1>2. CASE k \notin Keys
  BY <1>2
<1> QED
  BY <1>1, <1>2

(* What a hook loads is a state.                                           *)
LEMMA LoadKeepsType ==
  ASSUME TypeOK, NEW p \in Hooks, LoadChecked(p)
  PROVE  /\ view' \in [Hooks -> SessionStates]
         /\ reliable' \in [Hooks -> BOOLEAN]
  BY FreshIsState DEF TypeOK, LoadChecked

(* What a save leaves behind is a state and a count.                       *)
LEMMA SaveKeepsType ==
  ASSUME TypeOK, NEW content \in SessionStates, SaveState(content)
  PROVE  /\ disk' \in SessionStates
         /\ damaged' \in BOOLEAN
         /\ damages' \in 0 .. MaxDamage
         /\ forgotten' \in [Keys -> Nat]
<1>1. \A k \in Keys : forgotten[k] + OneIf(Dropped(content, k)) \in Nat
  BY DEF TypeOK, OneIf
<1>2. forgotten' \in [Keys -> Nat]
  BY <1>1, Zenon DEF SaveState
<1> QED
  BY <1>2 DEF TypeOK, SaveState

(* The end of a process clears its memory.                                 *)
LEMMA EndsKeepsType ==
  ASSUME TypeOK, NEW p \in Hooks, NEW how \in Ended, Ends(p, how)
  PROVE  /\ pc' \in [Hooks -> PCs]
         /\ view' \in [Hooks -> SessionStates]
         /\ reliable' \in [Hooks -> BOOLEAN]
         /\ verdict' \in [Hooks -> Verdicts]
         /\ speaking' \in [Hooks -> BOOLEAN]
  BY FreshIsState DEF TypeOK, Ends, Goto, Ended, PCs, Verdicts

(* Sealing a round leaves a state.                                         *)
LEMMA SealKeepsType ==
  ASSUME TypeOK, NEW p \in Stops, SealRound(p)
  PROVE  view' \in [Hooks -> SessionStates]
<1>1. p \in Hooks /\ key[p] \in Keys /\ view[p] \in SessionStates
  BY DEF TypeOK, Hooks
<1>2. [view[p] EXCEPT !.spent = @ \cup {key[p]}] \in SessionStates
  BY <1>1 DEF SessionStates
<1>3. view' = [view EXCEPT ![p] = [view[p] EXCEPT !.spent = @ \cup {key[p]}]]
  BY <1>1 DEF SealRound, TypeOK
<1> QED
  BY <1>1, <1>2, <1>3 DEF TypeOK

(* Only a Stop hook of an enabled gate is ever between "waiting" and       *)
(* "unlocked", only another hook between "checking" and "emitting".        *)
GateOnly ==
  \A p \in Hooks :
    /\ pc[p] \in InTransaction \cup {"waiting", "unlocked"} => p \in GateHooks
    /\ pc[p] \in {"checking", "saving", "emitting"} => p \in PlainHooks

Typing == TypeOK /\ GateOnly

(* Init gives every variable its type.                                     *)
LEMMA TypingInit == Init => Typing
<1> SUFFICES ASSUME Init
             PROVE  Typing
  OBVIOUS
<1>1. /\ granted \in [Keys -> Nat]
      /\ delivered \in [Keys -> Nat]
      /\ forgotten \in [Keys -> Nat]
      /\ now \in 0 .. MaxTime
      /\ damages \in 0 .. MaxDamage
      /\ shown \in Seq([by: Hooks, at: Int])
  BY HooksAssumption DEF Init
<1>2. /\ pc \in [Hooks -> PCs]
      /\ verdict \in [Hooks -> Verdicts]
      /\ view \in [Hooks -> SessionStates]
      /\ disk \in SessionStates
  BY FreshIsState DEF Init, PCs, Verdicts
<1>3. GateOnly
  BY DEF Init, GateOnly, InTransaction
<1> QED
  BY <1>1, <1>2, <1>3 DEF Init, Typing, TypeOK

(* One step of a Stop hook keeps the types.                                *)
LEMMA TypingStop ==
  ASSUME Typing, NEW p \in Hooks, StopStep(p)
  PROVE  Typing'
<1> USE DEF Typing
<1>1. CASE BeginStop(p)
  BY <1>1 DEF BeginStop, Goto, TypeOK, GateOnly, PCs, InTransaction, fileVars,
              gateVars
<1>2. CASE AcquireLock(p)
  BY <1>2 DEF AcquireLock, Goto, TypeOK, GateOnly, PCs, InTransaction,
              fileVars, gateVars
<1>3. CASE LockTimesOut(p)
  BY <1>3 DEF LockTimesOut, Goto, TypeOK, GateOnly, PCs, InTransaction,
              fileVars, gateVars, Verdicts
<1>4. CASE LockFileFails(p)
  BY <1>4 DEF LockFileFails, Goto, TypeOK, GateOnly, PCs, InTransaction,
              fileVars, gateVars, Verdicts
<1>5. CASE StopLoads(p)
  <2>1. view' \in [Hooks -> SessionStates] /\ reliable' \in [Hooks -> BOOLEAN]
    BY <1>5, LoadKeepsType DEF StopLoads
  <2> QED
    BY <1>5, <2>1 DEF StopLoads, Goto, TypeOK, GateOnly, PCs, InTransaction,
                      fileVars, gateVars
<1>6. CASE EvaluateStopGate(p)
  <2>1. p \in Stops
    BY <1>6 DEF EvaluateStopGate, GateOnly, InTransaction, GateHooks
  <2>2. view' \in [Hooks -> SessionStates]
    BY <1>6, <2>1, SealKeepsType DEF EvaluateStopGate, TypeOK
  <2>3. verdict' \in [Hooks -> Verdicts]
    BY <1>6 DEF EvaluateStopGate, Concludes, TypeOK, Verdicts
  <2>4. /\ UNCHANGED <<fileVars, lock, key, reliable, speaking, now, gateVars,
                       shown>>
        /\ Goto(p, "decided")
        /\ pc[p] = "loaded"
    BY <1>6 DEF EvaluateStopGate
  <2> QED
    BY <2>2, <2>3, <2>4 DEF Goto, TypeOK, GateOnly, PCs, InTransaction,
                            fileVars, gateVars
<1>7. CASE StopSaves(p)
  <2>1. view[p] \in SessionStates
    BY DEF TypeOK
  <2>2. /\ disk' \in SessionStates
        /\ damaged' \in BOOLEAN
        /\ damages' \in 0 .. MaxDamage
        /\ forgotten' \in [Keys -> Nat]
    BY <1>7, <2>1, SaveKeepsType DEF StopSaves
  <2>3. granted' \in [Keys -> Nat]
    BY <1>7, CountKeepsType DEF StopSaves, TypeOK
  <2> QED
    BY <1>7, <2>2, <2>3 DEF StopSaves, Goto, TypeOK, GateOnly, PCs,
                            InTransaction
<1>8. CASE StopSaveFails(p)
  BY <1>8 DEF StopSaveFails, Concludes, Goto, TypeOK, GateOnly, PCs,
              InTransaction, fileVars, gateVars, Verdicts
<1>9. CASE ReleaseLock(p)
  <2>1. verdict' \in [Hooks -> Verdicts]
    BY <1>9 DEF ReleaseLock, Concludes, TypeOK, Verdicts
  <2> QED
    BY <1>9, <2>1 DEF ReleaseLock, Goto, TypeOK, GateOnly, PCs, InTransaction,
                      fileVars, gateVars
<1>10. CASE EmitStopResult(p)
  <2>1. /\ pc' \in [Hooks -> PCs]
        /\ view' \in [Hooks -> SessionStates]
        /\ reliable' \in [Hooks -> BOOLEAN]
        /\ verdict' \in [Hooks -> Verdicts]
        /\ speaking' \in [Hooks -> BOOLEAN]
    BY <1>10, EndsKeepsType DEF EmitStopResult, Ended
  <2>2. delivered' \in [Keys -> Nat]
    BY <1>10, CountKeepsType DEF EmitStopResult, TypeOK
  <2>3. GateOnly'
    BY <1>10 DEF EmitStopResult, Ends, Goto, GateOnly, InTransaction, TypeOK,
                 PCs
  <2> QED
    BY <1>10, <2>1, <2>2, <2>3 DEF EmitStopResult, TypeOK, fileVars
<1> QED
  BY <1>1, <1>2, <1>3, <1>4, <1>5, <1>6, <1>7, <1>8, <1>9, <1>10
  DEF StopStep

(* One step of a hook without the gate keeps the types.                    *)
LEMMA TypingPlain ==
  ASSUME Typing, NEW p \in Hooks, PlainStep(p)
  PROVE  Typing'
<1> USE DEF Typing
<1>1. CASE PlainLoads(p)
  <2>1. view' \in [Hooks -> SessionStates] /\ reliable' \in [Hooks -> BOOLEAN]
    BY <1>1, LoadKeepsType DEF PlainLoads
  <2> QED
    BY <1>1, <2>1 DEF PlainLoads, Goto, TypeOK, GateOnly, PCs, InTransaction,
                      fileVars, gateVars
<1>2. CASE StaysSilent(p)
  BY <1>2 DEF StaysSilent, Goto, TypeOK, GateOnly, PCs, InTransaction,
              fileVars, gateVars
<1>3. CASE RunsChecks(p)
  <2>1. view' \in [Hooks -> SessionStates]
    <3>1. PICK project \in Projects, injected \in BOOLEAN :
            LET found == Speaker(view[p].checks, project) # {}
                after == [view[p] EXCEPT !.checks = RunChecks(@, project)]
            IN  view' = [view EXCEPT ![p] = IF found \/ injected
                                              THEN RecordMessage(after)
                                              ELSE after]
      BY <1>3 DEF RunsChecks
    <3> DEFINE after == [view[p] EXCEPT !.checks = RunChecks(@, project)]
    <3>2. view[p] \in SessionStates /\ now \in Nat
      BY DEF TypeOK
    <3>3. RunChecks(view[p].checks, project) \in [CheckNames -> CheckRuntimes]
      BY <3>2, RunChecksType DEF SessionStates
    <3>4. after \in SessionStates
      BY <3>2, <3>3 DEF SessionStates
    <3> HIDE DEF after
    <3>5. RecordMessage(after) \in SessionStates
      BY <3>2, <3>4, RecordKeepsType
    <3> QED
      BY <3>1, <3>4, <3>5 DEF TypeOK, after
  <2>2. /\ UNCHANGED <<fileVars, lock, key, reliable, verdict, now, gateVars,
                       shown>>
        /\ Goto(p, "saving")
        /\ speaking' \in [Hooks -> BOOLEAN]
        /\ p \in PlainHooks
    BY <1>3 DEF RunsChecks, TypeOK, GateOnly
  <2> QED
    BY <2>1, <2>2 DEF Goto, TypeOK, GateOnly, PCs, InTransaction, fileVars,
                      gateVars
<1>4. CASE PlainSaves(p)
  <2>1. view[p] \in SessionStates
    BY DEF TypeOK
  <2>2. /\ disk' \in SessionStates
        /\ damaged' \in BOOLEAN
        /\ damages' \in 0 .. MaxDamage
        /\ forgotten' \in [Keys -> Nat]
    BY <1>4, <2>1, SaveKeepsType DEF PlainSaves
  <2> QED
    BY <1>4, <2>2 DEF PlainSaves, Goto, TypeOK, GateOnly, PCs, InTransaction
<1>5. CASE PlainSkipsSave(p)
  BY <1>5 DEF PlainSkipsSave, Goto, TypeOK, GateOnly, PCs, InTransaction,
              fileVars, gateVars
<1>6. CASE PlainSaveFails(p)
  <2>1. /\ pc' \in [Hooks -> PCs]
        /\ view' \in [Hooks -> SessionStates]
        /\ reliable' \in [Hooks -> BOOLEAN]
        /\ verdict' \in [Hooks -> Verdicts]
        /\ speaking' \in [Hooks -> BOOLEAN]
    BY <1>6, EndsKeepsType DEF PlainSaveFails, Ended
  <2>2. GateOnly'
    BY <1>6 DEF PlainSaveFails, Ends, Goto, GateOnly, InTransaction, TypeOK, PCs
  <2> QED
    BY <1>6, <2>1, <2>2 DEF PlainSaveFails, TypeOK, fileVars, gateVars
<1>7. CASE PlainEmits(p)
  <2>1. /\ pc' \in [Hooks -> PCs]
        /\ view' \in [Hooks -> SessionStates]
        /\ reliable' \in [Hooks -> BOOLEAN]
        /\ verdict' \in [Hooks -> Verdicts]
        /\ speaking' \in [Hooks -> BOOLEAN]
    BY <1>7, EndsKeepsType DEF PlainEmits, Ended
  <2>2. GateOnly'
    BY <1>7 DEF PlainEmits, Ends, Goto, GateOnly, InTransaction, TypeOK, PCs
  <2>3. [by |-> p, at |-> view[p].last] \in [by: Hooks, at: Int]
    BY DEF TypeOK, SessionStates
  <2>4. shown' \in Seq([by: Hooks, at: Int])
    <3> DEFINE Message == [by: Hooks, at: Int]
               message == [by |-> p, at |-> view[p].last]
    <3>1. shown \in Seq(Message) /\ message \in Message
      BY <2>3 DEF TypeOK
    <3> SUFFICES shown' \in Seq(Message)
      OBVIOUS
    <3>2. shown' = IF speaking[p] THEN Append(shown, message) ELSE shown
      BY <1>7 DEF PlainEmits
    <3> HIDE DEF Message, message
    <3> QED
      BY <3>1, <3>2
  <2> QED
    BY <1>7, <2>1, <2>2, <2>4 DEF PlainEmits, TypeOK, fileVars, gateVars
<1> QED
  BY <1>1, <1>2, <1>3, <1>4, <1>5, <1>6, <1>7 DEF PlainStep

(* A killed hook keeps the types.                                          *)
LEMMA TypingCrash ==
  ASSUME Typing, NEW p \in Hooks, Crash(p)
  PROVE  Typing'
<1>1. /\ pc' \in [Hooks -> PCs]
      /\ view' \in [Hooks -> SessionStates]
      /\ reliable' \in [Hooks -> BOOLEAN]
      /\ verdict' \in [Hooks -> Verdicts]
      /\ speaking' \in [Hooks -> BOOLEAN]
  BY EndsKeepsType DEF Crash, Ended, Typing
<1>2. GateOnly'
  BY DEF Crash, Ends, Goto, GateOnly, InTransaction, Typing, TypeOK, PCs
<1> QED
  BY <1>1, <1>2 DEF Crash, Typing, TypeOK, fileVars, gateVars

(* Every step keeps the types.                                             *)
LEMMA TypingNext == Typing /\ [Next]_vars => Typing'
<1> SUFFICES ASSUME Typing, [Next]_vars
             PROVE  Typing'
  OBVIOUS
<1>1. CASE \E p \in Hooks : StopStep(p) \/ PlainStep(p) \/ Crash(p)
  BY <1>1, TypingStop, TypingPlain, TypingCrash
<1>2. CASE Damage
  BY <1>2, HooksAssumption DEF Damage, Typing, TypeOK, GateOnly, gateVars
<1>3. CASE Tick
  BY <1>3, HooksAssumption DEF Tick, Typing, TypeOK, GateOnly, fileVars,
                               gateVars
<1>4. CASE UNCHANGED vars
  BY <1>4 DEF vars, fileVars, gateVars, Typing, TypeOK, GateOnly
<1> QED
  BY <1>1, <1>2, <1>3, <1>4 DEF Next

(* The session state keeps its shape, and only the hooks of an enabled     *)
(* gate run the Stop transaction.                                          *)
THEOREM TypeCorrect == Spec => []TypeOK
<1>1. Spec => []Typing
  BY TypingInit, TypingNext, PTL DEF Spec
<1>2. Typing => TypeOK
  BY DEF Typing
<1> QED
  BY <1>1, <1>2, PTL

-----------------------------------------------------------------------------
(* The transaction                                                         *)

ExclusionInv == Typing /\ OneTransaction

(* At the start nobody is in the transaction and nobody owns the lock.     *)
LEMMA ExclusionInit == Init => ExclusionInv
  BY TypingInit, HooksAssumption DEF Init, ExclusionInv, OneTransaction,
                                     InTransaction

(* Every step keeps the owner of the lock in the transaction.              *)
LEMMA ExclusionNext == ExclusionInv /\ [Next]_vars => ExclusionInv'
<1> SUFFICES ASSUME ExclusionInv, [Next]_vars
             PROVE  OneTransaction'
  BY TypingNext DEF ExclusionInv
<1> USE DEF ExclusionInv, Typing, OneTransaction
<1>1. ASSUME NEW p \in Hooks, StopStep(p)
      PROVE  OneTransaction'
  <2> USE <1>1
  <2>1. CASE BeginStop(p)
    BY <2>1 DEF BeginStop, Goto, TypeOK, PCs, InTransaction
  <2>2. CASE AcquireLock(p)
    BY <2>2, HooksAssumption DEF AcquireLock, Goto, TypeOK, PCs, InTransaction
  <2>3. CASE LockTimesOut(p)
    BY <2>3 DEF LockTimesOut, Goto, TypeOK, PCs, InTransaction
  <2>4. CASE LockFileFails(p)
    BY <2>4 DEF LockFileFails, Goto, TypeOK, PCs, InTransaction
  <2>5. CASE StopLoads(p)
    BY <2>5 DEF StopLoads, Goto, TypeOK, PCs, InTransaction
  <2>6. CASE EvaluateStopGate(p)
    <3>1. pc[p] = "loaded" /\ Goto(p, "decided") /\ UNCHANGED lock
      BY <2>6 DEF EvaluateStopGate
    <3> QED
      BY <3>1 DEF Goto, TypeOK, PCs, InTransaction
  <2>7. CASE StopSaves(p)
    BY <2>7 DEF StopSaves, Goto, TypeOK, PCs, InTransaction
  <2>8. CASE StopSaveFails(p)
    BY <2>8 DEF StopSaveFails, Goto, TypeOK, PCs, InTransaction
  <2>9. CASE ReleaseLock(p)
    BY <2>9, HooksAssumption DEF ReleaseLock, Goto, TypeOK, PCs, InTransaction
  <2>10. CASE EmitStopResult(p)
    BY <2>10 DEF EmitStopResult, Ends, Goto, TypeOK, PCs, InTransaction
  <2> QED
    BY <2>1, <2>2, <2>3, <2>4, <2>5, <2>6, <2>7, <2>8, <2>9, <2>10
    DEF StopStep
<1>2. ASSUME NEW p \in Hooks, PlainStep(p)
      PROVE  OneTransaction'
  <2>1. /\ UNCHANGED lock
        /\ pc[p] \notin InTransaction
        /\ \E place \in PCs \ InTransaction : Goto(p, place)
    BY <1>2 DEF PlainStep, PlainLoads, StaysSilent, RunsChecks, PlainSaves,
                PlainSkipsSave, PlainSaveFails, PlainEmits, Ends, PCs,
                InTransaction
  <2> QED
    BY <2>1 DEF Goto, TypeOK
<1>3. ASSUME NEW p \in Hooks, Crash(p)
      PROVE  OneTransaction'
  BY <1>3, HooksAssumption DEF Crash, Ends, Goto, TypeOK, PCs, InTransaction
<1>4. CASE Damage
  BY <1>4 DEF Damage
<1>5. CASE Tick
  BY <1>5 DEF Tick
<1>6. CASE UNCHANGED vars
  BY <1>6 DEF vars
<1> QED
  BY <1>1, <1>2, <1>3, <1>4, <1>5, <1>6 DEF Next

(* The flock serialises load, evaluation and save of the Stop hooks for    *)
(* any number of them, whichever of them are killed or time out.           *)
THEOREM TransactionsExclude == Spec => []OneTransaction
<1>1. Spec => []ExclusionInv
  BY ExclusionInit, ExclusionNext, PTL DEF Spec
<1>2. ExclusionInv => OneTransaction
  BY DEF ExclusionInv
<1> QED
  BY <1>1, <1>2, PTL

-----------------------------------------------------------------------------
(* The ledger of rounds                                                    *)

(* A hook that may still grant its key a round knows that the ledger has   *)
(* one to give: no hook but the owner of the lock grants, and what plain   *)
(* hooks do to the file in between only adds to forgotten.                 *)
RoomForLoaded ==
  \A p \in GateHooks :
    pc[p] = "loaded" /\ reliable[p] /\ key[p] \notin view[p].spent
      => granted[key[p]] <= forgotten[key[p]]

RoomForDecided ==
  \A p \in GateHooks :
    pc[p] = "decided" /\ verdict[p] = "stop-rework-once"
      => /\ granted[key[p]] <= forgotten[key[p]]
         /\ key[p] \in view[p].spent

LedgerInv ==
  /\ ExclusionInv
  /\ RoundsNeedForgetting
  /\ RoomForLoaded
  /\ RoomForDecided

(* The ledger is balanced when nothing was granted.                        *)
LEMMA LedgerInit == Init => LedgerInv
  BY ExclusionInit DEF Init, LedgerInv, RoundsNeedForgetting, RoomForLoaded,
                       RoomForDecided, GateHooks, Hooks, OneIf

(* Steps that leave the ledger and every memory between load and save as   *)
(* they were.                                                              *)
LedgerUntouched ==
  /\ UNCHANGED <<disk, granted, forgotten, key>>
  /\ \A q \in GateHooks :
       pc'[q] \in {"loaded", "decided"} =>
         /\ pc'[q] = pc[q]
         /\ view'[q] = view[q]
         /\ reliable'[q] = reliable[q]
         /\ verdict'[q] = verdict[q]

(* A step that leaves file, memories and counts alone keeps the ledger.    *)
LEMMA UntouchedKeepsLedger ==
  LedgerInv /\ LedgerUntouched
    => RoundsNeedForgetting' /\ RoomForLoaded' /\ RoomForDecided'
  BY DEF LedgerInv, LedgerUntouched, RoundsNeedForgetting, RoomForLoaded,
         RoomForDecided, OneIf

(* A save counts every record it drops, so the ledger stays balanced when  *)
(* no round is granted with it.                                            *)
LEMMA SaveBalances ==
  ASSUME TypeOK, RoundsNeedForgetting, NEW content \in SessionStates,
         SaveState(content)
  PROVE  \A k \in Keys :
           /\ forgotten[k] <= forgotten'[k]
           /\ granted[k] <= forgotten'[k] + OneIf(k \in disk'.spent)
<1> TAKE k \in Keys
<1>1. /\ granted[k] \in Nat
      /\ forgotten[k] \in Nat
      /\ granted[k] <= forgotten[k] + OneIf(k \in disk.spent)
      /\ forgotten'[k] = forgotten[k] + OneIf(Dropped(content, k))
      /\ disk' = content
  BY DEF TypeOK, RoundsNeedForgetting, SaveState
<1> QED
  BY <1>1 DEF OneIf, Dropped

(* What an evaluation does to memory: it may use up its own key's round,   *)
(* and it asks for rework only when the record read under the lock had the *)
(* round unused.                                                           *)
LEMMA EvaluationEffect ==
  ASSUME TypeOK, NEW p \in Stops, EvaluateStopGate(p)
  PROVE  /\ \A q \in Hooks \ {p} : view'[q] = view[q] /\ verdict'[q] = verdict[q]
         /\ view[p].spent \subseteq view'[p].spent
         /\ verdict'[p] = "stop-rework-once" =>
              /\ reliable[p]
              /\ key[p] \notin view[p].spent
              /\ key[p] \in view'[p].spent
<1>1. p \in Hooks
  BY DEF Hooks
<1>2. ASSUME SealRound(p)
      PROVE  /\ \A q \in Hooks \ {p} : view'[q] = view[q]
             /\ view'[p].spent = view[p].spent \cup {key[p]}
  <2>1. view \in [Hooks -> SessionStates] /\ view[p] \in SessionStates
    BY <1>1 DEF TypeOK
  <2>2. view' = [view EXCEPT ![p] =
                   [view[p] EXCEPT !.spent = view[p].spent \cup {key[p]}]]
    BY <1>2, <2>1 DEF SealRound
  <2>3. view'[p] = [view[p] EXCEPT !.spent = view[p].spent \cup {key[p]}]
    BY <1>1, <2>1, <2>2
  <2> QED
    BY <2>1, <2>2, <2>3 DEF SessionStates
<1>3. ASSUME NEW code \in Verdicts, Concludes(p, code)
      PROVE  /\ verdict'[p] = code
             /\ \A q \in Hooks \ {p} : verdict'[q] = verdict[q]
  BY <1>1, <1>3 DEF Concludes, TypeOK
<1>4. CASE Concludes(p, "stop-clean") /\ UNCHANGED view
  BY <1>3, <1>4 DEF Verdicts
<1>5. CASE \E locks \in LockViews, active \in BOOLEAN :
             /\ CanRequest(p, active, locks)
             /\ SealRound(p)
             /\ Concludes(p, "stop-rework-once")
  <2>1. reliable[p] /\ key[p] \notin view[p].spent
    BY <1>5 DEF CanRequest, RoundUsedUp
  <2> QED
    BY <1>2, <1>3, <1>5, <2>1 DEF Verdicts
<1>6. CASE /\ SealRound(p) \/ UNCHANGED view
           /\ Concludes(p, "stop-residual")
  BY <1>2, <1>3, <1>6 DEF Verdicts
<1> QED
  BY <1>4, <1>5, <1>6 DEF EvaluateStopGate

(* One step of a Stop hook keeps the ledger balanced.                      *)
LEMMA LedgerStop ==
  ASSUME LedgerInv, NEW p \in Hooks, StopStep(p), Typing'
  PROVE  RoundsNeedForgetting' /\ RoomForLoaded' /\ RoomForDecided'
<1> USE DEF LedgerInv, ExclusionInv, Typing
<1>1. CASE BeginStop(p)
  BY <1>1, UntouchedKeepsLedger
  DEF BeginStop, Goto, TypeOK, LedgerUntouched, fileVars, gateVars, GateHooks,
      Hooks
<1>2. CASE AcquireLock(p)
  BY <1>2, UntouchedKeepsLedger
  DEF AcquireLock, Goto, TypeOK, LedgerUntouched, fileVars, gateVars, GateHooks,
      Hooks
<1>3. CASE LockTimesOut(p)
  BY <1>3, UntouchedKeepsLedger
  DEF LockTimesOut, Goto, TypeOK, LedgerUntouched, fileVars, gateVars,
      GateHooks, Hooks
<1>4. CASE LockFileFails(p)
  BY <1>4, UntouchedKeepsLedger
  DEF LockFileFails, Goto, TypeOK, LedgerUntouched, fileVars, gateVars,
      GateHooks, Hooks
<1>5. CASE StopLoads(p)
  <2>1. /\ UNCHANGED <<disk, granted, forgotten, key, verdict>>
        /\ LoadChecked(p)
        /\ pc' = [pc EXCEPT ![p] = "loaded"]
    BY <1>5 DEF StopLoads, fileVars, gateVars, Goto
  <2>2. RoundsNeedForgetting'
    BY <2>1 DEF RoundsNeedForgetting
  <2>3. RoomForLoaded'
    <3> SUFFICES ASSUME NEW q \in GateHooks,
                        pc'[q] = "loaded",
                        reliable'[q],
                        key'[q] \notin view'[q].spent
                 PROVE  granted'[key'[q]] <= forgotten'[key'[q]]
      BY DEF RoomForLoaded
    <3>1. q \in Hooks /\ key[q] \in Keys
      BY DEF GateHooks, Hooks, TypeOK
    <3>2. CASE q = p
      <4>1. ~damaged /\ view'[q] = disk
        BY <2>1, <3>1, <3>2 DEF LoadChecked, TypeOK
      <4>2. key[q] \notin disk.spent
        BY <2>1, <4>1
      <4>3. granted[key[q]] <= forgotten[key[q]] + OneIf(key[q] \in disk.spent)
        BY <3>1 DEF RoundsNeedForgetting
      <4>4. granted[key[q]] \in Nat /\ forgotten[key[q]] \in Nat
        BY <3>1 DEF TypeOK
      <4> QED
        BY <2>1, <4>2, <4>3, <4>4 DEF OneIf
    <3>3. CASE q # p
      BY <2>1, <3>1, <3>3 DEF RoomForLoaded, LoadChecked, TypeOK
    <3> QED
      BY <3>2, <3>3
  <2>4. RoomForDecided'
    BY <2>1 DEF RoomForDecided, LoadChecked, TypeOK, GateHooks, Hooks
  <2> QED
    BY <2>2, <2>3, <2>4
<1>6. CASE EvaluateStopGate(p)
  <2>1. /\ UNCHANGED <<disk, granted, forgotten, key, reliable>>
        /\ pc[p] = "loaded"
        /\ pc' = [pc EXCEPT ![p] = "decided"]
    BY <1>6 DEF EvaluateStopGate, fileVars, gateVars, Goto
  <2>2. p \in GateHooks /\ p \in Stops /\ key[p] \in Keys
    BY <2>1 DEF GateOnly, InTransaction, GateHooks, TypeOK
  <2>3. /\ \A q \in Hooks \ {p} : view'[q] = view[q] /\ verdict'[q] = verdict[q]
        /\ verdict'[p] = "stop-rework-once" =>
             /\ reliable[p]
             /\ key[p] \notin view[p].spent
             /\ key[p] \in view'[p].spent
    BY <1>6, <2>2, EvaluationEffect
  <2>4. RoundsNeedForgetting'
    BY <2>1 DEF RoundsNeedForgetting
  <2>5. RoomForLoaded'
    BY <2>1, <2>3 DEF RoomForLoaded, TypeOK, GateHooks, Hooks
  <2>6. RoomForDecided'
    BY <2>1, <2>2, <2>3 DEF RoomForLoaded, RoomForDecided, TypeOK, GateHooks,
                            Hooks
  <2> QED
    BY <2>4, <2>5, <2>6
<1>7. CASE StopSaves(p)
  <2>1. /\ SaveState(view[p])
        /\ view[p] \in SessionStates
        /\ granted' = [granted EXCEPT ![key[p]] =
                         @ + OneIf(verdict[p] = "stop-rework-once")]
        /\ pc[p] = "decided"
        /\ pc' = [pc EXCEPT ![p] = "saved"]
        /\ UNCHANGED <<key, view, reliable, verdict>>
    BY <1>7 DEF StopSaves, Goto, TypeOK
  <2>2. p \in GateHooks /\ key[p] \in Keys
    BY <2>1 DEF GateOnly, InTransaction, GateHooks, TypeOK
  <2>3. \A k \in Keys :
          /\ granted[k] \in Nat
          /\ forgotten[k] \in Nat
          /\ forgotten'[k] \in Nat
          /\ forgotten[k] <= forgotten'[k]
          /\ granted[k] <= forgotten'[k] + OneIf(k \in disk'.spent)
    BY <2>1, SaveBalances DEF TypeOK
  <2>4. RoundsNeedForgetting'
    <3> SUFFICES ASSUME NEW k \in Keys
                 PROVE  granted'[k] <= forgotten'[k] + OneIf(k \in disk'.spent)
      BY DEF RoundsNeedForgetting
    <3>1. CASE k = key[p] /\ verdict[p] = "stop-rework-once"
      <4>1. granted[k] <= forgotten[k] /\ k \in view[p].spent
        BY <2>1, <2>2, <3>1 DEF RoomForDecided
      <4>2. k \in disk'.spent
        BY <2>1, <4>1 DEF SaveState
      <4>3. granted'[k] = granted[k] + 1
        BY <2>1, <2>2, <3>1 DEF TypeOK, OneIf
      <4> QED
        BY <2>3, <4>1, <4>2, <4>3 DEF OneIf
    <3>2. CASE ~(k = key[p] /\ verdict[p] = "stop-rework-once")
      <4>1. granted'[k] = granted[k]
        BY <2>1, <2>3, <3>2 DEF TypeOK, OneIf
      <4> QED
        BY <2>3, <4>1
    <3> QED
      BY <3>1, <3>2
  <2>5. \A q \in GateHooks : pc'[q] \notin {"loaded", "decided"}
    <3> SUFFICES ASSUME NEW q \in GateHooks
                 PROVE  pc'[q] \notin {"loaded", "decided"}
      OBVIOUS
    <3>1. q \in Hooks /\ pc \in [Hooks -> PCs]
      BY DEF GateHooks, Hooks, TypeOK
    <3>2. CASE q = p
      BY <2>1, <3>1, <3>2
    <3>3. CASE q # p
      <4>1. lock = p
        BY <2>1 DEF OneTransaction, InTransaction
      <4>2. pc[q] \notin InTransaction
        BY <3>1, <3>3, <4>1 DEF OneTransaction
      <4> QED
        BY <2>1, <3>1, <3>3, <4>2 DEF InTransaction
    <3> QED
      BY <3>2, <3>3
  <2> QED
    BY <2>4, <2>5 DEF RoomForLoaded, RoomForDecided
<1>8. CASE StopSaveFails(p)
  BY <1>8, UntouchedKeepsLedger
  DEF StopSaveFails, Concludes, Goto, TypeOK, LedgerUntouched, fileVars,
      gateVars, GateHooks, Hooks
<1>9. CASE ReleaseLock(p)
  BY <1>9, UntouchedKeepsLedger
  DEF ReleaseLock, Concludes, Goto, TypeOK, LedgerUntouched, fileVars, gateVars,
      GateHooks, Hooks
<1>10. CASE EmitStopResult(p)
  BY <1>10, UntouchedKeepsLedger
  DEF EmitStopResult, Ends, Goto, TypeOK, LedgerUntouched, fileVars, GateHooks,
      Hooks
<1> QED
  BY <1>1, <1>2, <1>3, <1>4, <1>5, <1>6, <1>7, <1>8, <1>9, <1>10
  DEF StopStep

(* One step of a hook without the gate keeps the ledger balanced.          *)
LEMMA LedgerPlain ==
  ASSUME LedgerInv, NEW p \in Hooks, PlainStep(p), Typing'
  PROVE  RoundsNeedForgetting' /\ RoomForLoaded' /\ RoomForDecided'
<1> USE DEF LedgerInv, ExclusionInv, Typing
<1>1. CASE PlainLoads(p)
  BY <1>1, UntouchedKeepsLedger
  DEF PlainLoads, LoadChecked, Goto, TypeOK, LedgerUntouched, fileVars, gateVars,
      GateHooks, Hooks
<1>2. CASE StaysSilent(p)
  BY <1>2, UntouchedKeepsLedger
  DEF StaysSilent, Goto, TypeOK, LedgerUntouched, fileVars, gateVars, GateHooks,
      Hooks
<1>3. CASE RunsChecks(p)
  <2>1. /\ UNCHANGED <<disk, granted, forgotten, key, reliable, verdict>>
        /\ pc' = [pc EXCEPT ![p] = "saving"]
        /\ \A q \in Hooks : q # p => view'[q] = view[q]
    BY <1>3 DEF RunsChecks, Goto, fileVars, gateVars, TypeOK
  <2> QED
    BY <2>1, UntouchedKeepsLedger DEF LedgerUntouched, TypeOK, GateHooks, Hooks
<1>4. CASE PlainSaves(p)
  <2>1. /\ SaveState(view[p])
        /\ view[p] \in SessionStates
        /\ pc' = [pc EXCEPT ![p] = "emitting"]
        /\ UNCHANGED <<key, view, reliable, verdict, granted>>
    BY <1>4 DEF PlainSaves, Goto, TypeOK
  <2>2. \A k \in Keys :
          /\ granted[k] \in Nat
          /\ forgotten[k] \in Nat
          /\ forgotten'[k] \in Nat
          /\ forgotten[k] <= forgotten'[k]
          /\ granted[k] <= forgotten'[k] + OneIf(k \in disk'.spent)
    BY <2>1, SaveBalances DEF TypeOK
  <2>3. RoundsNeedForgetting'
    BY <2>1, <2>2 DEF RoundsNeedForgetting
  <2>4. \A q \in GateHooks : key[q] \in Keys /\ q \in Hooks
    BY DEF GateHooks, Hooks, TypeOK
  <2>5. RoomForLoaded'
    BY <2>1, <2>2, <2>4 DEF RoomForLoaded, TypeOK
  <2>6. RoomForDecided'
    BY <2>1, <2>2, <2>4 DEF RoomForDecided, TypeOK
  <2> QED
    BY <2>3, <2>5, <2>6
<1>5. CASE PlainSkipsSave(p)
  BY <1>5, UntouchedKeepsLedger
  DEF PlainSkipsSave, Goto, TypeOK, LedgerUntouched, fileVars, gateVars,
      GateHooks, Hooks
<1>6. CASE PlainSaveFails(p)
  BY <1>6, UntouchedKeepsLedger
  DEF PlainSaveFails, Ends, Goto, TypeOK, LedgerUntouched, fileVars, gateVars,
      GateHooks, Hooks
<1>7. CASE PlainEmits(p)
  BY <1>7, UntouchedKeepsLedger
  DEF PlainEmits, Ends, Goto, TypeOK, LedgerUntouched, fileVars, gateVars,
      GateHooks, Hooks
<1> QED
  BY <1>1, <1>2, <1>3, <1>4, <1>5, <1>6, <1>7 DEF PlainStep

(* Every step keeps the ledger balanced.                                   *)
LEMMA LedgerNext == LedgerInv /\ [Next]_vars => LedgerInv'
<1> SUFFICES ASSUME LedgerInv, [Next]_vars
             PROVE  RoundsNeedForgetting' /\ RoomForLoaded' /\ RoomForDecided'
  BY ExclusionNext DEF LedgerInv
<1>1. Typing'
  BY TypingNext DEF LedgerInv, ExclusionInv
<1>2. ASSUME NEW p \in Hooks, StopStep(p) \/ PlainStep(p)
      PROVE  RoundsNeedForgetting' /\ RoomForLoaded' /\ RoomForDecided'
  BY <1>1, <1>2, LedgerStop, LedgerPlain
<1>3. ASSUME NEW p \in Hooks, Crash(p)
      PROVE  LedgerUntouched
  BY <1>3 DEF Crash, Ends, Ended, Goto, LedgerUntouched, fileVars, gateVars,
              GateHooks, Hooks, LedgerInv, ExclusionInv, Typing, TypeOK
<1>4. Damage \/ Tick \/ UNCHANGED vars => LedgerUntouched
  BY DEF Damage, Tick, vars, fileVars, gateVars, LedgerUntouched
<1> QED
  BY <1>2, <1>3, <1>4, UntouchedKeepsLedger DEF Next

(* Whatever stale saves, damages, crashes and failing saves do to the      *)
(* file: a second round for a gate identity takes a save that dropped the  *)
(* record of the first.                                                    *)
THEOREM RoundsComeFromTheRecord == Spec => []RoundsNeedForgetting
<1>1. Spec => []LedgerInv
  BY LedgerInit, LedgerNext, PTL DEF Spec
<1>2. LedgerInv => RoundsNeedForgetting
  BY DEF LedgerInv
<1> QED
  BY <1>1, <1>2, PTL

-----------------------------------------------------------------------------
(* One round per key                                                       *)

(* Stop hooks alone, on a file nothing else touches.                       *)
GateAlone == PlainHooks = {} /\ MaxDamage = 0

Pending(p) ==
  pc[p] \in {"saved", "unlocked"} /\ verdict[p] = "stop-rework-once"

(* Every granted round is on file.                                         *)
GrantsOnFile ==
  \A k \in Keys : granted[k] <= OneIf(k \in disk.spent)

(* Memory is never behind the file, and the round about to be granted is   *)
(* not on file yet.                                                        *)
MemoryOfOwner ==
  \A p \in GateHooks :
    /\ pc[p] \in {"loaded", "decided"} => disk.spent \subseteq view[p].spent
    /\ pc[p] = "decided" /\ verdict[p] = "stop-rework-once"
         => key[p] \notin disk.spent /\ key[p] \in view[p].spent

(* A granted round that no host has heard of belongs to one hook.          *)
PendingIsSole ==
  \A p \in GateHooks :
    Pending(p) =>
      /\ granted[key[p]] = 1
      /\ delivered[key[p]] = 0
      /\ \A q \in GateHooks : Pending(q) /\ key[q] = key[p] => q = p

AloneInv ==
  /\ ExclusionInv
  /\ ~damaged
  /\ GrantsOnFile
  /\ MemoryOfOwner
  /\ PendingIsSole
  /\ NoUngrantedBlock

AloneParts ==
  ~damaged /\ GrantsOnFile /\ MemoryOfOwner /\ PendingIsSole /\ NoUngrantedBlock

(* At the start no round is granted and none is in memory.                 *)
LEMMA AloneInit == Init => AloneInv
  BY ExclusionInit
  DEF Init, AloneInv, GrantsOnFile, MemoryOfOwner, PendingIsSole, Pending,
      NoUngrantedBlock, OneIf, GateHooks, Hooks

(* Steps that grant nothing, deliver nothing and leave file and memory.    *)
AloneUntouched ==
  /\ UNCHANGED <<disk, damaged, granted, delivered, key>>
  /\ \A q \in GateHooks :
       /\ pc'[q] \in {"loaded", "decided"} =>
            pc'[q] = pc[q] /\ view'[q] = view[q] /\ verdict'[q] = verdict[q]
       /\ Pending(q)' => Pending(q)

(* A step that leaves file, memories and counts alone keeps the parts.     *)
LEMMA UntouchedKeepsAlone == AloneInv /\ AloneUntouched => AloneParts'
<1> SUFFICES ASSUME AloneInv, AloneUntouched
             PROVE  AloneParts'
  OBVIOUS
<1>1. (~damaged)' /\ GrantsOnFile' /\ NoUngrantedBlock'
  BY DEF AloneInv, AloneUntouched, GrantsOnFile, NoUngrantedBlock
<1>2. MemoryOfOwner'
  BY DEF AloneInv, AloneUntouched, MemoryOfOwner
<1>3. PendingIsSole'
  BY DEF AloneInv, AloneUntouched, PendingIsSole
<1> QED
  BY <1>1, <1>2, <1>3 DEF AloneParts

(* The five steps that matter, then all steps of a Stop hook.              *)
(* The owner of the lock loads what is on file.                            *)
LEMMA AloneLoads ==
  ASSUME AloneInv, NEW p \in GateHooks, StopLoads(p)
  PROVE  AloneParts'
<1>1. /\ UNCHANGED <<disk, damaged, granted, delivered, key, verdict>>
      /\ pc' = [pc EXCEPT ![p] = "loaded"]
      /\ LoadChecked(p)
  BY DEF StopLoads, fileVars, gateVars, Goto
<1>2. /\ pc \in [Hooks -> PCs]
      /\ view \in [Hooks -> SessionStates]
      /\ GateHooks \subseteq Hooks
  BY DEF AloneInv, ExclusionInv, Typing, TypeOK, GateHooks, Hooks
<1>3. \A q \in GateHooks : Pending(q)' => Pending(q)
  BY <1>1, <1>2 DEF Pending
<1>4. (~damaged)' /\ GrantsOnFile' /\ NoUngrantedBlock'
  BY <1>1 DEF AloneInv, GrantsOnFile, NoUngrantedBlock
<1>5. PendingIsSole'
  BY <1>1, <1>3 DEF AloneInv, PendingIsSole
<1>6. view'[p] = disk /\ \A q \in GateHooks \ {p} : view'[q] = view[q]
  BY <1>1, <1>2 DEF LoadChecked, AloneInv
<1>7. MemoryOfOwner'
  BY <1>1, <1>2, <1>6 DEF AloneInv, MemoryOfOwner
<1> QED
  BY <1>4, <1>5, <1>7 DEF AloneParts

(* The owner of the lock asks for a round only if none is on file.         *)
LEMMA AloneEvaluates ==
  ASSUME AloneInv, NEW p \in GateHooks, EvaluateStopGate(p)
  PROVE  AloneParts'
<1>1. /\ UNCHANGED <<disk, damaged, granted, delivered, key>>
      /\ pc[p] = "loaded"
      /\ pc' = [pc EXCEPT ![p] = "decided"]
  BY DEF EvaluateStopGate, fileVars, gateVars, Goto
<1>2. /\ pc \in [Hooks -> PCs]
      /\ GateHooks \subseteq Hooks
      /\ p \in Stops
      /\ TypeOK
  BY DEF AloneInv, ExclusionInv, Typing, TypeOK, GateHooks, Hooks
<1>3. /\ \A q \in Hooks \ {p} : view'[q] = view[q] /\ verdict'[q] = verdict[q]
      /\ view[p].spent \subseteq view'[p].spent
      /\ verdict'[p] = "stop-rework-once" =>
           key[p] \notin view[p].spent /\ key[p] \in view'[p].spent
  BY <1>2, EvaluationEffect
<1>4. \A q \in GateHooks : Pending(q)' => Pending(q)
  BY <1>1, <1>2, <1>3 DEF Pending
<1>5. (~damaged)' /\ GrantsOnFile' /\ NoUngrantedBlock'
  BY <1>1 DEF AloneInv, GrantsOnFile, NoUngrantedBlock
<1>6. PendingIsSole'
  BY <1>1, <1>4 DEF AloneInv, PendingIsSole
<1>7. MemoryOfOwner'
  BY <1>1, <1>2, <1>3 DEF AloneInv, MemoryOfOwner
<1> QED
  BY <1>5, <1>6, <1>7 DEF AloneParts

(* A save puts a state there that has every round of the old one.          *)
LEMMA AloneSaves ==
  ASSUME AloneInv, NEW p \in GateHooks, StopSaves(p)
  PROVE  /\ AloneParts'
         /\ disk.spent \subseteq disk'.spent
         /\ verdict[p] = "stop-rework-once" =>
              granted[key[p]] = 0 /\ granted' = [granted EXCEPT ![key[p]] = 1]
         /\ verdict[p] # "stop-rework-once" => granted' = granted
<1>1. /\ UNCHANGED <<view, key, verdict, delivered>>
      /\ pc[p] = "decided"
      /\ pc' = [pc EXCEPT ![p] = "saved"]
      /\ disk' = view[p]
      /\ damaged' = FALSE
      /\ granted' = [granted EXCEPT ![key[p]] =
                       @ + OneIf(verdict[p] = "stop-rework-once")]
  BY DEF StopSaves, SaveState, Goto
<1>2. /\ pc \in [Hooks -> PCs]
      /\ GateHooks \subseteq Hooks
      /\ key[p] \in Keys
      /\ \A q \in GateHooks : key[q] \in Keys
      /\ granted \in [Keys -> Nat]
      /\ delivered \in [Keys -> Nat]
  BY DEF AloneInv, ExclusionInv, Typing, TypeOK, GateHooks, Hooks
<1>3. disk.spent \subseteq disk'.spent
  BY <1>1 DEF AloneInv, MemoryOfOwner
<1>4. ASSUME verdict[p] = "stop-rework-once"
      PROVE  /\ granted[key[p]] = 0
             /\ granted' = [granted EXCEPT ![key[p]] = 1]
             /\ key[p] \in disk'.spent
  <2>1. key[p] \notin disk.spent /\ key[p] \in view[p].spent
    BY <1>1, <1>4 DEF AloneInv, MemoryOfOwner
  <2>2. granted[key[p]] <= 0 /\ granted[key[p]] \in Nat
    BY <1>2, <2>1 DEF AloneInv, GrantsOnFile, OneIf
  <2>3. granted[key[p]] = 0
    BY <2>2
  <2> QED
    BY <1>1, <1>4, <2>1, <2>3 DEF OneIf
<1>5. ASSUME verdict[p] # "stop-rework-once"
      PROVE  granted' = granted
  BY <1>1, <1>2, <1>5 DEF OneIf
<1>6. GrantsOnFile'
  <2> SUFFICES ASSUME NEW k \in Keys
               PROVE  granted'[k] <= OneIf(k \in disk'.spent)
    BY DEF GrantsOnFile
  <2>1. granted[k] \in Nat /\ granted[k] <= OneIf(k \in disk.spent)
    BY <1>2 DEF AloneInv, GrantsOnFile
  <2>2. CASE k = key[p] /\ verdict[p] = "stop-rework-once"
    BY <1>2, <1>4, <2>2 DEF OneIf
  <2>3. CASE ~(k = key[p] /\ verdict[p] = "stop-rework-once")
    <3>1. granted'[k] = granted[k]
      BY <1>2, <1>4, <1>5, <2>3
    <3> QED
      BY <1>3, <2>1, <3>1 DEF OneIf
  <2> QED
    BY <2>2, <2>3
<1>7. NoUngrantedBlock'
  <2> SUFFICES ASSUME NEW k \in Keys
               PROVE  delivered[k] <= granted'[k]
    BY <1>1 DEF NoUngrantedBlock
  <2>1. /\ delivered[k] \in Nat
        /\ granted[k] \in Nat
        /\ delivered[k] <= granted[k]
    BY <1>2 DEF AloneInv, NoUngrantedBlock
  <2>2. CASE verdict[p] = "stop-rework-once"
    BY <1>2, <1>4, <2>1, <2>2
  <2> QED
    BY <1>5, <2>1, <2>2
<1>8. MemoryOfOwner'
  <2>1. ASSUME NEW q \in GateHooks
        PROVE  pc'[q] \notin {"loaded", "decided"}
    <3>1. q = p => pc'[q] = "saved"
      BY <1>1, <1>2
    <3>2. q # p => pc'[q] = pc[q]
      BY <1>1, <1>2
    <3>3. lock = p
      BY <1>1, <1>2 DEF AloneInv, ExclusionInv, OneTransaction, InTransaction
    <3>4. q # p => pc[q] \notin InTransaction
      BY <1>2, <3>3 DEF AloneInv, ExclusionInv, OneTransaction
    <3> QED
      BY <3>1, <3>2, <3>4 DEF InTransaction
  <2> QED
    BY <2>1 DEF MemoryOfOwner
<1>9. PendingIsSole'
  <2>1. \A q \in GateHooks \ {p} : Pending(q)' <=> Pending(q)
    BY <1>1, <1>2 DEF Pending
  <2>2. Pending(p)' => verdict[p] = "stop-rework-once"
    BY <1>1 DEF Pending
  <2>3. verdict[p] = "stop-rework-once" =>
          \A q \in GateHooks \ {p} : Pending(q) => key[q] # key[p]
    BY <1>4 DEF AloneInv, PendingIsSole
  <2>4. verdict[p] = "stop-rework-once" => delivered[key[p]] = 0
    BY <1>2, <1>4 DEF AloneInv, NoUngrantedBlock
  <2>5. ASSUME NEW q \in GateHooks \ {p}, Pending(q)
        PROVE  /\ granted'[key[q]] = 1
               /\ delivered'[key[q]] = 0
    <3>1. granted[key[q]] = 1 /\ delivered[key[q]] = 0
      BY <2>5 DEF AloneInv, PendingIsSole
    <3>2. CASE verdict[p] = "stop-rework-once"
      BY <1>1, <1>2, <1>4, <2>3, <2>5, <3>1, <3>2
    <3> QED
      BY <1>1, <1>5, <3>1, <3>2
  <2>6. ASSUME NEW q \in GateHooks, NEW r \in GateHooks, Pending(q)', Pending(r)',
               key[q] = key[r]
        PROVE  q = r
    <3>1. CASE q # p /\ r # p
      BY <2>1, <2>6, <3>1 DEF AloneInv, PendingIsSole
    <3> QED
      BY <2>1, <2>2, <2>3, <2>6, <3>1
  <2>7. Pending(p)' => granted'[key[p]] = 1 /\ delivered'[key[p]] = 0
    BY <1>1, <1>2, <1>4, <2>2, <2>4
  <2> QED
    BY <1>1, <2>1, <2>5, <2>6, <2>7 DEF PendingIsSole
<1> QED
  BY <1>1, <1>3, <1>4, <1>5, <1>6, <1>7, <1>8, <1>9 DEF AloneParts

(* The hook that tells the host is the only one that could.                *)
LEMMA AloneEmits ==
  ASSUME AloneInv, NEW p \in GateHooks, EmitStopResult(p)
  PROVE  /\ AloneParts'
         /\ Pending(p) => delivered[key[p]] < granted[key[p]]
         /\ ~Pending(p) => delivered' = delivered
<1>1. /\ UNCHANGED <<disk, damaged, granted, key>>
      /\ pc[p] = "unlocked"
      /\ pc' = [pc EXCEPT ![p] = "done"]
      /\ view' = [view EXCEPT ![p] = FreshState]
      /\ verdict' = [verdict EXCEPT ![p] = "none"]
      /\ delivered' = [delivered EXCEPT ![key[p]] =
                         @ + OneIf(verdict[p] = "stop-rework-once")]
  BY DEF EmitStopResult, Ends, fileVars, Goto
<1>2. /\ pc \in [Hooks -> PCs]
      /\ view \in [Hooks -> SessionStates]
      /\ verdict \in [Hooks -> Verdicts]
      /\ GateHooks \subseteq Hooks
      /\ \A q \in GateHooks : key[q] \in Keys
      /\ granted \in [Keys -> Nat]
      /\ delivered \in [Keys -> Nat]
  BY DEF AloneInv, ExclusionInv, Typing, TypeOK, GateHooks, Hooks
<1>3. /\ ~Pending(p)'
      /\ \A q \in GateHooks \ {p} : Pending(q)' <=> Pending(q)
  BY <1>1, <1>2 DEF Pending
<1>4. ~Pending(p) => delivered' = delivered
  BY <1>1, <1>2 DEF Pending, OneIf
<1>5. Pending(p) =>
        /\ granted[key[p]] = 1
        /\ delivered[key[p]] = 0
        /\ delivered' = [delivered EXCEPT ![key[p]] = 1]
  <2> SUFFICES ASSUME Pending(p)
               PROVE  /\ granted[key[p]] = 1
                      /\ delivered[key[p]] = 0
                      /\ delivered' = [delivered EXCEPT ![key[p]] = 1]
    OBVIOUS
  <2>1. granted[key[p]] = 1 /\ delivered[key[p]] = 0
    BY DEF AloneInv, PendingIsSole
  <2>2. OneIf(verdict[p] = "stop-rework-once") = 1
    BY DEF Pending, OneIf
  <2>3. delivered[key[p]] + OneIf(verdict[p] = "stop-rework-once") = 1
    BY <2>1, <2>2
  <2>4. delivered' = [delivered EXCEPT ![key[p]] =
                       delivered[key[p]] + OneIf(verdict[p] = "stop-rework-once")]
    BY <1>1
  <2> QED
    BY <2>1, <2>3, <2>4, Zenon
<1>6. (~damaged)' /\ GrantsOnFile'
  BY <1>1 DEF AloneInv, GrantsOnFile
<1>7. MemoryOfOwner'
  BY <1>1, <1>2 DEF AloneInv, MemoryOfOwner
<1>8. NoUngrantedBlock'
  BY <1>1, <1>2, <1>4, <1>5 DEF AloneInv, NoUngrantedBlock
<1>9. PendingIsSole'
  <2>1. ASSUME NEW q \in GateHooks, Pending(q)'
        PROVE  /\ granted'[key[q]] = 1
               /\ delivered'[key[q]] = 0
    <3>1. q # p /\ Pending(q)
      BY <1>3, <2>1
    <3>2. granted[key[q]] = 1 /\ delivered[key[q]] = 0
      BY <3>1 DEF AloneInv, PendingIsSole
    <3>3. Pending(p) => key[q] # key[p]
      BY <3>1 DEF AloneInv, PendingIsSole
    <3> QED
      BY <1>1, <1>2, <1>4, <1>5, <3>2, <3>3
  <2> QED
    BY <1>1, <1>3, <2>1 DEF AloneInv, PendingIsSole
<1>10. Pending(p) => delivered[key[p]] < granted[key[p]]
  BY <1>5
<1> QED
  BY <1>4, <1>6, <1>7, <1>8, <1>9, <1>10 DEF AloneParts

(* The steps of Stop hooks alone, by what they do to the two histories.    *)
LEMMA AloneStop ==
  ASSUME AloneInv, NEW p \in GateHooks, StopStep(p) \/ Crash(p)
  PROVE  AloneUntouched \/ StopLoads(p) \/ EvaluateStopGate(p) \/ StopSaves(p)
           \/ EmitStopResult(p)
<1>1. /\ pc \in [Hooks -> PCs]
      /\ view \in [Hooks -> SessionStates]
      /\ verdict \in [Hooks -> Verdicts]
      /\ GateHooks \subseteq Hooks
  BY DEF AloneInv, ExclusionInv, Typing, TypeOK, GateHooks, Hooks
<1>2. CASE BeginStop(p)
  BY <1>1, <1>2 DEF BeginStop, Goto, AloneUntouched, Pending, fileVars, gateVars
<1>3. CASE AcquireLock(p)
  BY <1>1, <1>3 DEF AcquireLock, Goto, AloneUntouched, Pending, fileVars,
                    gateVars
<1>4. CASE LockTimesOut(p)
  BY <1>1, <1>4 DEF LockTimesOut, Goto, AloneUntouched, Pending, fileVars,
                    gateVars
<1>5. CASE LockFileFails(p)
  BY <1>1, <1>5 DEF LockFileFails, Goto, AloneUntouched, Pending, fileVars,
                    gateVars
<1>6. CASE StopSaveFails(p)
  BY <1>1, <1>6 DEF StopSaveFails, Concludes, Goto, AloneUntouched, Pending,
                    fileVars, gateVars
<1>7. CASE ReleaseLock(p)
  BY <1>1, <1>7 DEF ReleaseLock, Concludes, Goto, AloneUntouched, Pending,
                    fileVars, gateVars
<1>8. CASE Crash(p)
  BY <1>1, <1>8 DEF Crash, Ends, Goto, AloneUntouched, Pending, fileVars,
                    gateVars
<1> QED
  BY <1>2, <1>3, <1>4, <1>5, <1>6, <1>7, <1>8 DEF StopStep

(* Every step of Stop hooks, the clock and the rest is one of these.       *)
LEMMA AloneStep ==
  ASSUME GateAlone, AloneInv, [Next]_vars
  PROVE  AloneUntouched
           \/ \E p \in GateHooks : StopLoads(p) \/ EvaluateStopGate(p)
                                     \/ StopSaves(p) \/ EmitStopResult(p)
<1>1. Hooks = GateHooks
  BY DEF GateAlone, PlainHooks, GateHooks, Hooks
<1>2. ASSUME NEW p \in Hooks
      PROVE  ~PlainStep(p)
  <2>1. p \notin PlainHooks
    BY DEF GateAlone
  <2>2. pc[p] \notin {"checking", "saving", "emitting"}
    BY <2>1 DEF AloneInv, ExclusionInv, Typing, GateOnly
  <2> QED
    BY <2>1, <2>2 DEF PlainStep, PlainLoads, StaysSilent, RunsChecks, PlainSaves,
                      PlainSkipsSave, PlainSaveFails, PlainEmits
<1>3. ~Damage
  BY DEF Damage, GateAlone, AloneInv, ExclusionInv, Typing, TypeOK
<1>4. Tick \/ UNCHANGED vars => AloneUntouched
  BY DEF Tick, vars, fileVars, gateVars, AloneUntouched, Pending
<1> QED
  BY <1>1, <1>2, <1>3, <1>4, AloneStop DEF Next

(* Every step of Stop hooks that are alone keeps the invariant.            *)
LEMMA AloneNext == GateAlone /\ AloneInv /\ [Next]_vars => AloneInv'
<1> SUFFICES ASSUME GateAlone, AloneInv, [Next]_vars
             PROVE  AloneInv'
  OBVIOUS
<1>1. ExclusionInv'
  BY ExclusionNext DEF AloneInv
<1>2. AloneParts'
  BY AloneStep, UntouchedKeepsAlone, AloneLoads, AloneEvaluates, AloneSaves,
     AloneEmits
<1> QED
  BY <1>1, <1>2 DEF AloneInv, AloneParts

(* Stop hooks that are alone with the file keep the invariant.             *)
LEMMA AloneAlways == GateAlone => (Spec => []AloneInv)
<1> SUFFICES ASSUME GateAlone
             PROVE  Spec => []AloneInv
  OBVIOUS
<1> QED
  BY AloneInit, AloneNext, PTL DEF Spec

(* As long as only Stop hooks use the state file and nothing damages it,   *)
(* each gate identity is asked for one round of rework at most, and the    *)
(* block the host hears of is on file: for any number of Stop hooks,       *)
(* killed, timed out or refused by the disk.                               *)
THEOREM OneRoundAlone ==
  GateAlone => (Spec => [](OneRoundPerKey /\ BlockIsRecorded /\ NoUngrantedBlock))
<1> SUFFICES ASSUME GateAlone
             PROVE  Spec => [](OneRoundPerKey /\ BlockIsRecorded
                                 /\ NoUngrantedBlock)
  OBVIOUS
<1>1. AloneInv => OneRoundPerKey
  <2> SUFFICES ASSUME AloneInv, NEW k \in Keys
               PROVE  granted[k] <= 1
    BY DEF OneRoundPerKey
  <2> QED
    BY DEF AloneInv, GrantsOnFile, OneIf, ExclusionInv, Typing, TypeOK
<1>2. AloneInv => BlockIsRecorded
  <2> SUFFICES ASSUME AloneInv, NEW p \in GateHooks, Pending(p)
               PROVE  key[p] \in disk.spent
    BY DEF BlockIsRecorded, Pending
  <2>1. key[p] \in Keys /\ granted[key[p]] = 1
    BY DEF AloneInv, PendingIsSole, ExclusionInv, Typing, TypeOK, GateHooks
  <2> QED
    BY <2>1 DEF AloneInv, GrantsOnFile, OneIf
<1>3. AloneInv => NoUngrantedBlock
  BY DEF AloneInv
<1> QED
  BY <1>1, <1>2, <1>3, AloneAlways, PTL

(* Under the same condition no save drops a round that is on file.         *)
THEOREM RecordsStayAlone == GateAlone => (Spec => RecordsStay)
<1> SUFFICES ASSUME GateAlone
             PROVE  Spec => RecordsStay
  OBVIOUS
<1>1. AloneInv /\ [Next]_vars => [disk.spent \subseteq disk'.spent]_vars
  <2> SUFFICES ASSUME AloneInv, [Next]_vars
               PROVE  disk.spent \subseteq disk'.spent
    OBVIOUS
  <2>1. CASE AloneUntouched
    BY <2>1 DEF AloneUntouched
  <2>2. ASSUME NEW p \in GateHooks, StopLoads(p) \/ EvaluateStopGate(p)
                                      \/ EmitStopResult(p)
        PROVE  disk' = disk
    BY <2>2 DEF StopLoads, EvaluateStopGate, EmitStopResult, fileVars
  <2> QED
    BY <2>1, <2>2, AloneStep, AloneSaves
<1> QED
  BY <1>1, AloneAlways, PTL DEF Spec, RecordsStay

(* Under the same condition the gate keeps its promise: every step of the  *)
(* hooks is a grant, a delivery or a stutter of OneRework.                 *)
THEOREM GateImplementsOneRework == GateAlone => (Spec => ImplementsOneRework)
<1> SUFFICES ASSUME GateAlone
             PROVE  Spec => Gate!Spec
  BY DEF ImplementsOneRework
<1>1. Init => Gate!Init
  BY DEF Init, Gate!Init
<1>2. AloneInv /\ [Next]_vars => [Gate!Next]_<<granted, delivered>>
  <2> SUFFICES ASSUME AloneInv, [Next]_vars
               PROVE  [Gate!Next]_<<granted, delivered>>
    OBVIOUS
  <2>1. \A p \in GateHooks : key[p] \in Keys
    BY DEF AloneInv, ExclusionInv, Typing, TypeOK, GateHooks
  <2>2. CASE AloneUntouched
    BY <2>2 DEF AloneUntouched
  <2>3. ASSUME NEW p \in GateHooks, StopLoads(p) \/ EvaluateStopGate(p)
        PROVE  UNCHANGED <<granted, delivered>>
    BY <2>3 DEF StopLoads, EvaluateStopGate, gateVars
  <2>4. ASSUME NEW p \in GateHooks, StopSaves(p)
        PROVE  Gate!Grant(key[p]) \/ UNCHANGED <<granted, delivered>>
    BY <2>4, AloneSaves DEF StopSaves, Gate!Grant
  <2>5. ASSUME NEW p \in GateHooks, EmitStopResult(p)
        PROVE  Gate!Deliver(key[p]) \/ UNCHANGED <<granted, delivered>>
    <3>1. UNCHANGED granted /\ pc[p] = "unlocked"
      BY <2>5 DEF EmitStopResult
    <3>2. CASE Pending(p)
      <4>1. delivered' = [delivered EXCEPT ![key[p]] = @ + 1]
        BY <2>5, <3>2 DEF EmitStopResult, Pending, OneIf
      <4> QED
        BY <2>5, <3>1, <3>2, <4>1, AloneEmits DEF Gate!Deliver
    <3>3. CASE ~Pending(p)
      BY <2>5, <3>1, <3>3, AloneEmits
    <3> QED
      BY <3>2, <3>3
  <2> QED
    BY <2>1, <2>2, <2>3, <2>4, <2>5, AloneStep DEF Gate!Next
<1> QED
  BY <1>1, <1>2, AloneAlways, PTL DEF Spec, Gate!Spec

=============================================================================
