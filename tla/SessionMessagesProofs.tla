----------------------- MODULE SessionMessagesProofs -----------------------
(***************************************************************************)
(* Theorems about the messages of SessionHooks when the host runs one hook *)
(* of a session at a time and nobody damages the state file: any number of *)
(* hooks, killed anywhere, with saves that fail.                           *)
(***************************************************************************)
EXTENDS SessionHooksProofs

Sequential == OneAtATime /\ MaxDamage = 0

AtRest(p) == pc[p] \in Ended \cup {"idle"}

(* One hook runs, and the file can be read.                                *)
Alone == ~damaged /\ \A p, q \in Hooks : p # q => AtRest(p) \/ AtRest(q)

-----------------------------------------------------------------------------
(* The invariant                                                           *)

SameSlot(p) == view[p].sent = disk.sent /\ view[p].last = disk.last

(* What is off on file is off in the hook's memory.                        *)
KeepsOff(p) ==
  \A c \in CheckNames : disk.checks[c].disabled => view[p].checks[c].disabled

(* The hook's state counts a message the file does not.                    *)
CountsOneMore(p) ==
  /\ view[p].sent = disk.sent + 1
  /\ view[p].sent <= MaxMessages
  /\ view[p].last \in Nat
  /\ disk.last # Never => view[p].last - disk.last >= Cooldown

(* The message on file that the host has yet to hear.                      *)
Unheard(p) ==
  /\ Len(shown) < disk.sent
  /\ view[p].last = disk.last
  /\ disk.last # Never
  /\ shown # <<>> => disk.last - shown[Len(shown)].at >= Cooldown

(* What a running hook has in memory, by the place where it is.            *)
Underway(p) ==
  /\ pc[p] \in {"loaded", "decided", "checking"} => SameSlot(p) /\ KeepsOff(p)
  /\ pc[p] \in {"checking", "saving"} => reliable[p]
  /\ pc[p] \in {"idle", "checking"} => ~speaking[p]
  /\ pc[p] = "saving" =>
       /\ KeepsOff(p)
       /\ IF speaking[p] THEN CountsOneMore(p) ELSE SameSlot(p)
  /\ pc[p] = "emitting" /\ speaking[p] => Unheard(p)

(* The file counts every message that was shown, and its time is that of   *)
(* the last one or later.                                                  *)
Counted ==
  /\ disk.sent <= MaxMessages
  /\ disk.last # Never => disk.last \in Nat
  /\ Len(shown) <= disk.sent
  /\ shown # <<>> => disk.last # Never /\ shown[Len(shown)].at <= disk.last

SlotParts ==
  /\ Alone
  /\ \A p \in Hooks : Underway(p)
  /\ Counted
  /\ CooldownKept

SlotInv == Typing /\ SlotParts

(* No message, no hook: nothing to count.                                  *)
LEMMA SlotInit == Init => SlotInv
<1> SUFFICES ASSUME Init
             PROVE  SlotParts
  BY TypingInit DEF SlotInv
<1>1. Alone /\ \A p \in Hooks : Underway(p)
  BY DEF Init, Alone, AtRest, Underway
<1>2. Counted
  BY HooksAssumption DEF Init, Counted, FreshState
<1>3. CooldownKept
  BY DEF Init, CooldownKept
<1> QED
  BY <1>1, <1>2, <1>3 DEF SlotParts

-----------------------------------------------------------------------------
(* The steps of one hook                                                   *)

(* While one hook moves the others rest, and go on resting.                *)
LEMMA OthersRest ==
  ASSUME Sequential, SlotInv, NEW p \in Hooks,
         StopStep(p) \/ PlainStep(p) \/ Crash(p)
  PROVE  \A q \in Hooks \ {p} :
           /\ AtRest(q)
           /\ pc'[q] = pc[q]
           /\ speaking'[q] = speaking[q]
<1>1. pc \in [Hooks -> PCs] /\ speaking \in [Hooks -> BOOLEAN]
  BY DEF SlotInv, Typing, TypeOK
<1>2. Alone
  BY DEF SlotInv, SlotParts
<1>3. CASE BeginStop(p) \/ PlainLoads(p)
  BY <1>1, <1>3 DEF BeginStop, PlainLoads, MayStart, Sequential, AtRest, Goto
<1>4. CASE ~AtRest(p) /\ StopStep(p) /\ ~BeginStop(p)
  BY <1>1, <1>2, <1>4
  DEF Alone, StopStep, AcquireLock, LockTimesOut, LockFileFails, StopLoads,
      EvaluateStopGate, StopSaves, StopSaveFails, ReleaseLock, EmitStopResult,
      Ends, Goto
<1>5. CASE ~AtRest(p) /\ PlainStep(p) /\ ~PlainLoads(p)
  BY <1>1, <1>2, <1>5
  DEF Alone, PlainStep, StaysSilent, RunsChecks, PlainSaves, PlainSkipsSave,
      PlainSaveFails, PlainEmits, Ends, Goto
<1>6. CASE Crash(p)
  BY <1>1, <1>2, <1>6 DEF Alone, Crash, AtRest, Ends, Goto
<1>7. StopStep(p) /\ ~BeginStop(p) => ~AtRest(p)
  BY DEF StopStep, AcquireLock, LockTimesOut, LockFileFails, StopLoads,
         EvaluateStopGate, StopSaves, StopSaveFails, ReleaseLock,
         EmitStopResult, AtRest, Ended
<1>8. PlainStep(p) /\ ~PlainLoads(p) => ~AtRest(p)
  BY DEF PlainStep, StaysSilent, RunsChecks, PlainSaves, PlainSkipsSave,
         PlainSaveFails, PlainEmits, AtRest, Ended
<1> QED
  BY <1>3, <1>4, <1>5, <1>6, <1>7, <1>8

(* A resting hook has nothing in memory that could be stale.               *)
LEMMA RestKeepsUnderway ==
  ASSUME NEW q \in Hooks, Underway(q), AtRest(q), pc'[q] = pc[q],
         speaking'[q] = speaking[q]
  PROVE  Underway(q)' /\ AtRest(q)'
  BY DEF Underway, AtRest, Ended

(* The invariant only asks about the hook that moved.                      *)
LEMMA MovedAlone ==
  ASSUME Sequential, SlotInv, NEW p \in Hooks,
         StopStep(p) \/ PlainStep(p) \/ Crash(p),
         ~damaged', Underway(p)', Counted', CooldownKept'
  PROVE  SlotParts'
<1>1. \A q \in Hooks \ {p} : Underway(q)' /\ AtRest(q)'
  BY OthersRest, RestKeepsUnderway DEF SlotInv, SlotParts
<1> QED
  BY <1>1 DEF SlotParts, Alone

(* Nothing that counts or is shown changed.                                *)
LEMMA UntouchedCount ==
  ASSUME Counted, CooldownKept, UNCHANGED <<disk, shown>>
  PROVE  Counted' /\ CooldownKept'
  BY DEF Counted, CooldownKept

(* A save of the slot that is on file already keeps the count.             *)
LEMMA SameSlotSaved ==
  ASSUME SlotInv, NEW p \in Hooks, SameSlot(p), SaveState(view[p]),
         UNCHANGED shown
  PROVE  ~damaged' /\ Counted' /\ CooldownKept'
<1>1. disk' = view[p] /\ ~damaged'
  BY DEF SaveState
<1>2. disk'.sent = disk.sent /\ disk'.last = disk.last
  BY <1>1 DEF SameSlot
<1>3. Counted'
  BY <1>2 DEF SlotInv, SlotParts, Counted
<1> QED
  BY <1>1, <1>3 DEF SlotInv, SlotParts, CooldownKept

(* One step of a Stop hook: it moves no message and no check.              *)
LEMMA SlotStop ==
  ASSUME Sequential, SlotInv, NEW p \in Hooks, StopStep(p)
  PROVE  SlotParts'
<1>1. /\ pc \in [Hooks -> PCs]
      /\ view \in [Hooks -> SessionStates]
      /\ speaking \in [Hooks -> BOOLEAN]
      /\ disk \in SessionStates
      /\ Underway(p) /\ Counted /\ CooldownKept /\ ~damaged
  BY DEF SlotInv, SlotParts, Alone, Typing, TypeOK
<1>2. CASE \/ BeginStop(p) \/ AcquireLock(p) \/ LockTimesOut(p)
           \/ LockFileFails(p) \/ StopSaveFails(p) \/ ReleaseLock(p)
           \/ EmitStopResult(p)
  <2>1. UNCHANGED <<disk, damaged, shown>>
    BY <1>2 DEF BeginStop, AcquireLock, LockTimesOut, LockFileFails,
                StopSaveFails, ReleaseLock, EmitStopResult, fileVars
  <2>2. pc'[p] \in {"waiting", "locked", "unlocked", "saved", "done"}
    BY <1>1, <1>2 DEF BeginStop, AcquireLock, LockTimesOut, LockFileFails,
                      StopSaveFails, ReleaseLock, EmitStopResult, Ends, Goto
  <2>3. Underway(p)'
    BY <2>2 DEF Underway
  <2> QED
    BY <1>1, <2>1, <2>3, UntouchedCount, MovedAlone
<1>3. CASE StopLoads(p)
  <2>1. UNCHANGED <<disk, damaged, shown>>
    BY <1>3 DEF StopLoads, fileVars
  <2>2. pc'[p] = "loaded" /\ view'[p] = disk
    BY <1>1, <1>3 DEF StopLoads, LoadChecked, Goto
  <2>3. Underway(p)'
    BY <2>1, <2>2 DEF Underway, SameSlot, KeepsOff
  <2> QED
    BY <1>1, <2>1, <2>3, UntouchedCount, MovedAlone
<1>4. CASE EvaluateStopGate(p)
  <2>1. UNCHANGED <<disk, damaged, shown>> /\ pc'[p] = "decided"
    BY <1>1, <1>4 DEF EvaluateStopGate, fileVars, Goto
  <2>2. SameSlot(p) /\ KeepsOff(p)
    BY <1>1, <1>4 DEF EvaluateStopGate, Underway
  <2>3. UNCHANGED view \/ SealRound(p)
    BY <1>4 DEF EvaluateStopGate
  <2>4. /\ view'[p].sent = view[p].sent
        /\ view'[p].last = view[p].last
        /\ view'[p].checks = view[p].checks
    BY <1>1, <2>3 DEF SealRound, SessionStates
  <2>5. Underway(p)'
    BY <2>1, <2>2, <2>4 DEF Underway, SameSlot, KeepsOff
  <2> QED
    BY <1>1, <2>1, <2>5, UntouchedCount, MovedAlone
<1>5. CASE StopSaves(p)
  <2>1. SameSlot(p) /\ SaveState(view[p]) /\ UNCHANGED shown
    BY <1>1, <1>5 DEF StopSaves, Underway
  <2>2. pc'[p] = "saved"
    BY <1>1, <1>5 DEF StopSaves, Goto
  <2>3. Underway(p)'
    BY <2>2 DEF Underway
  <2> QED
    BY <2>1, <2>3, SameSlotSaved, MovedAlone
<1> QED
  BY <1>2, <1>3, <1>4, <1>5 DEF StopStep

(* Asking the checks never switches one on again.                          *)
LEMMA ChecksStayOff ==
  ASSUME NEW runtimes \in [CheckNames -> CheckRuntimes], NEW project,
         NEW c \in CheckNames, runtimes[c].disabled
  PROVE  RunChecks(runtimes, project)[c].disabled
<1> DEFINE speakers == {CheckOrder[i] : i \in Speaker(runtimes, project)}
           silent == AskedInVain(runtimes, project)
           after(d) == IF d \in speakers THEN AfterMessage(runtimes[d])
                       ELSE IF d \in silent THEN AfterSilence(runtimes[d])
                       ELSE runtimes[d]
<1>1. c \notin silent
  BY DEF AskedInVain
<1>2. AfterMessage(runtimes[c]).disabled
  BY DEF AfterMessage
<1>3. after(c).disabled
  BY <1>1, <1>2
<1>4. RunChecks(runtimes, project) = [d \in CheckNames |-> after(d)]
  BY DEF RunChecks
<1> HIDE DEF after
<1> QED
  BY <1>3, <1>4

(* What the checks and the injector leave in the hook's memory.            *)
LEMMA ChecksEffect ==
  ASSUME SlotInv, NEW p \in Hooks, RunsChecks(p)
  PROVE  /\ \A c \in CheckNames :
              view[p].checks[c].disabled => view'[p].checks[c].disabled
         /\ IF speaking'[p]
              THEN view'[p].sent = view[p].sent + 1 /\ view'[p].last = now
              ELSE /\ view'[p].sent = view[p].sent
                   /\ view'[p].last = view[p].last
<1>1. /\ view \in [Hooks -> SessionStates]
      /\ speaking \in [Hooks -> BOOLEAN]
      /\ view[p].checks \in [CheckNames -> CheckRuntimes]
  BY DEF SlotInv, Typing, TypeOK, SessionStates
<1>2. PICK project \in Projects, injected \in BOOLEAN :
        LET found == Speaker(view[p].checks, project) # {}
            after == [view[p] EXCEPT !.checks = RunChecks(@, project)]
        IN  /\ view' = [view EXCEPT ![p] = IF found \/ injected
                                             THEN RecordMessage(after)
                                             ELSE after]
            /\ speaking' = [speaking EXCEPT ![p] = found \/ injected]
  BY DEF RunsChecks
<1> DEFINE found == Speaker(view[p].checks, project) # {}
           after == [view[p] EXCEPT !.checks = RunChecks(@, project)]
<1>3. /\ after.sent = view[p].sent
      /\ after.last = view[p].last
      /\ after.checks = RunChecks(view[p].checks, project)
  BY <1>1 DEF SessionStates
<1>4. /\ view'[p] = IF found \/ injected THEN RecordMessage(after) ELSE after
      /\ speaking'[p] = (found \/ injected)
  BY <1>1, <1>2
<1>5. \A c \in CheckNames :
        view[p].checks[c].disabled => after.checks[c].disabled
  BY <1>1, <1>3, ChecksStayOff
<1> HIDE DEF after, found
<1>6. CASE found \/ injected
  <2>1. view'[p] = RecordMessage(after)
    BY <1>4, <1>6
  <2>2. speaking'[p]
    BY <1>4, <1>6
  <2>3. /\ view'[p].sent = view[p].sent + 1
        /\ view'[p].last = now
        /\ view'[p].checks = after.checks
    BY <1>3, <2>1 DEF RecordMessage
  <2> QED
    BY <1>5, <2>2, <2>3
<1>7. CASE ~(found \/ injected)
  <2>1. view'[p] = after
    BY <1>4, <1>7
  <2>2. ~speaking'[p]
    BY <1>4, <1>7
  <2> QED
    BY <1>3, <1>5, <2>1, <2>2
<1> QED
  BY <1>6, <1>7

-----------------------------------------------------------------------------
(* The hooks that show messages                                            *)

(* A message that was counted is saved.                                    *)
LEMMA NewMessageSaved ==
  ASSUME SlotInv, NEW p \in Hooks, CountsOneMore(p), SaveState(view[p]),
         view' = view, UNCHANGED shown
  PROVE  ~damaged' /\ Counted' /\ CooldownKept' /\ Unheard(p)'
<1>1. disk' = view[p] /\ ~damaged'
  BY DEF SaveState
<1>2. Counted /\ CooldownKept
  BY DEF SlotInv, SlotParts
<1>3. /\ disk.sent \in Nat
      /\ disk.last \in Int
      /\ view[p].sent = disk.sent + 1
      /\ view[p].last \in Nat
      /\ Len(shown) \in Nat
      /\ Cooldown \in Nat
  BY HooksAssumption DEF SlotInv, Typing, TypeOK, SessionStates, CountsOneMore
<1>4. shown # <<>> => shown[Len(shown)].at \in Int
  <2> DEFINE Message == [by: Hooks, at: Int]
  <2>1. shown \in Seq(Message)
    BY DEF SlotInv, Typing, TypeOK
  <2>2. \A m \in Message : m.at \in Int
    OBVIOUS
  <2> HIDE DEF Message
  <2>3. shown # <<>> => shown[Len(shown)] \in Message
    BY <2>1
  <2> QED
    BY <2>2, <2>3
<1>5. shown # <<>> => view[p].last - shown[Len(shown)].at >= Cooldown
  BY <1>2, <1>3, <1>4 DEF Counted, CountsOneMore
<1>6. Counted'
  BY <1>1, <1>2, <1>3, <1>4, <1>5 DEF Counted, CountsOneMore, Never
<1>7. Unheard(p)'
  BY <1>1, <1>2, <1>3, <1>5 DEF Unheard, Counted, Never
<1> QED
  BY <1>1, <1>2, <1>6, <1>7 DEF CooldownKept

(* The host hears of the message that is on file.                          *)
LEMMA MessageHeard ==
  ASSUME SlotInv, NEW p \in Hooks, Unheard(p), UNCHANGED disk,
         shown' = Append(shown, [by |-> p, at |-> view[p].last])
  PROVE  Counted' /\ CooldownKept'
<1> DEFINE Message == [by: Hooks, at: Int]
           message == [by |-> p, at |-> view[p].last]
<1>1. shown \in Seq(Message) /\ message \in Message
  BY DEF SlotInv, Typing, TypeOK, SessionStates
<1>2. Counted /\ CooldownKept
  BY DEF SlotInv, SlotParts
<1>3. message.at = disk.last /\ disk.last \in Int
  BY DEF Unheard, SlotInv, Typing, TypeOK, SessionStates
<1>4. disk.last # Never /\ disk.sent \in Nat /\ Len(shown) < disk.sent
  BY DEF Unheard, SlotInv, Typing, TypeOK, SessionStates
<1>5. shown' = Append(shown, message)
  OBVIOUS
<1> HIDE DEF Message, message
<1>6. /\ Len(shown') = Len(shown) + 1
      /\ shown'[Len(shown) + 1] = message
      /\ \A i \in 1 .. Len(shown) : shown'[i] = shown[i]
      /\ Len(shown) \in Nat
  BY <1>1, <1>5
<1>7. Counted'
  BY <1>2, <1>3, <1>4, <1>6 DEF Counted
<1>8. shown # <<>> => message.at - shown[Len(shown)].at >= Cooldown
  BY <1>3 DEF Unheard
<1>9. ASSUME NEW i \in 1 .. (Len(shown') - 1)
      PROVE  shown'[i + 1].at - shown'[i].at >= Cooldown
  <2>1. CASE i = Len(shown)
    <3>1. shown # <<>>
      BY <1>1, <2>1
    <3> QED
      BY <1>6, <1>8, <2>1, <3>1
  <2>2. CASE i # Len(shown)
    <3>1. i \in 1 .. (Len(shown) - 1) /\ i + 1 \in 1 .. Len(shown)
      BY <1>6, <2>2
    <3> QED
      BY <1>2, <1>6, <3>1 DEF CooldownKept
  <2> QED
    BY <2>1, <2>2
<1> QED
  BY <1>7, <1>9 DEF CooldownKept

(* One step of a hook that may show a message.                             *)
LEMMA SlotPlain ==
  ASSUME Sequential, SlotInv, NEW p \in Hooks, PlainStep(p)
  PROVE  SlotParts'
<1>1. /\ pc \in [Hooks -> PCs]
      /\ view \in [Hooks -> SessionStates]
      /\ reliable \in [Hooks -> BOOLEAN]
      /\ speaking \in [Hooks -> BOOLEAN]
      /\ Underway(p) /\ Counted /\ CooldownKept /\ ~damaged
  BY DEF SlotInv, SlotParts, Alone, Typing, TypeOK
<1>2. CASE PlainLoads(p)
  <2>1. UNCHANGED <<disk, damaged, shown, speaking>>
    BY <1>2 DEF PlainLoads, fileVars
  <2>2. pc'[p] = "checking" /\ view'[p] = disk /\ reliable'[p]
    BY <1>1, <1>2 DEF PlainLoads, LoadChecked, Goto
  <2>3. ~speaking[p]
    BY <1>1, <1>2 DEF PlainLoads, Underway
  <2>4. Underway(p)'
    BY <2>1, <2>2, <2>3 DEF Underway, SameSlot, KeepsOff
  <2> QED
    BY <1>1, <2>1, <2>4, UntouchedCount, MovedAlone
<1>3. CASE StaysSilent(p)
  <2>1. UNCHANGED <<disk, damaged, shown, speaking, view, reliable>>
    BY <1>3 DEF StaysSilent, fileVars
  <2>2. pc[p] = "checking" /\ pc'[p] = "saving"
    BY <1>1, <1>3 DEF StaysSilent, Goto
  <2>3. Underway(p)'
    BY <1>1, <2>1, <2>2 DEF Underway, SameSlot, KeepsOff
  <2> QED
    BY <1>1, <2>1, <2>3, UntouchedCount, MovedAlone
<1>4. CASE RunsChecks(p)
  <2>1. UNCHANGED <<disk, damaged, shown, reliable>>
    BY <1>4 DEF RunsChecks, fileVars
  <2>2. pc[p] = "checking" /\ pc'[p] = "saving"
    BY <1>1, <1>4 DEF RunsChecks, Goto
  <2>3. SameSlot(p) /\ KeepsOff(p) /\ reliable[p]
    BY <1>1, <2>2 DEF Underway
  <2>4. view[p].sent < MaxMessages
        /\ (view[p].last = Never \/ now - view[p].last >= Cooldown)
    BY <1>4 DEF RunsChecks, MessageSlotAvailable
  <2>5. KeepsOff(p)'
    BY <2>1, <2>3, <1>4, ChecksEffect DEF KeepsOff
  <2>6. /\ view[p].sent \in Nat
        /\ now \in Nat
        /\ MaxMessages \in Nat
    BY <1>1, HooksAssumption DEF SessionStates, SlotInv, Typing, TypeOK
  <2>7. CASE speaking'[p]
    <3>1. view'[p].sent = view[p].sent + 1 /\ view'[p].last = now
      BY <1>4, <2>7, ChecksEffect
    <3>2. CountsOneMore(p)'
      BY <2>1, <2>3, <2>4, <2>6, <3>1 DEF CountsOneMore, SameSlot
    <3> QED
      BY <1>1, <2>1, <2>2, <2>3, <2>5, <2>7, <3>2, UntouchedCount, MovedAlone
      DEF Underway
  <2>8. CASE ~speaking'[p]
    <3>1. view'[p].sent = view[p].sent /\ view'[p].last = view[p].last
      BY <1>4, <2>8, ChecksEffect
    <3>2. SameSlot(p)'
      BY <2>1, <2>3, <3>1 DEF SameSlot
    <3> QED
      BY <1>1, <2>1, <2>2, <2>3, <2>5, <2>8, <3>2, UntouchedCount, MovedAlone
      DEF Underway
  <2> QED
    BY <2>7, <2>8
<1>5. CASE PlainSaves(p)
  <2>1. SaveState(view[p]) /\ UNCHANGED <<view, reliable, speaking, shown>>
    BY <1>5 DEF PlainSaves
  <2>2. pc[p] = "saving" /\ pc'[p] = "emitting"
    BY <1>1, <1>5 DEF PlainSaves, Goto
  <2>3. CASE speaking[p]
    <3>1. CountsOneMore(p)
      BY <2>2, <2>3, <1>1 DEF Underway
    <3>2. ~damaged' /\ Counted' /\ CooldownKept' /\ Unheard(p)'
      BY <2>1, <3>1, NewMessageSaved
    <3>3. Underway(p)'
      BY <2>2, <3>2 DEF Underway
    <3> QED
      BY <3>2, <3>3, MovedAlone
  <2>4. CASE ~speaking[p]
    <3>1. SameSlot(p)
      BY <2>2, <2>4, <1>1 DEF Underway
    <3>2. Underway(p)'
      BY <2>1, <2>2, <2>4 DEF Underway
    <3> QED
      BY <2>1, <3>1, <3>2, SameSlotSaved, MovedAlone
  <2> QED
    BY <2>3, <2>4
<1>6. CASE PlainSkipsSave(p)
  BY <1>1, <1>6 DEF PlainSkipsSave, Underway
<1>7. CASE PlainSaveFails(p)
  <2>1. UNCHANGED <<disk, damaged, shown>> /\ pc'[p] = "crashed"
    BY <1>1, <1>7 DEF PlainSaveFails, fileVars, Ends, Goto
  <2>2. Underway(p)'
    BY <2>1 DEF Underway
  <2> QED
    BY <1>1, <2>1, <2>2, UntouchedCount, MovedAlone
<1>8. CASE PlainEmits(p)
  <2>1. UNCHANGED <<disk, damaged>> /\ pc'[p] = "done" /\ pc[p] = "emitting"
    BY <1>1, <1>8 DEF PlainEmits, fileVars, Ends, Goto
  <2>2. Underway(p)'
    BY <2>1 DEF Underway
  <2>3. Counted' /\ CooldownKept'
    <3>1. CASE speaking[p]
      BY <1>1, <1>8, <2>1, <3>1, MessageHeard DEF PlainEmits, Underway
    <3>2. CASE ~speaking[p]
      BY <1>1, <1>8, <2>1, <3>2, UntouchedCount DEF PlainEmits
    <3> QED
      BY <3>1, <3>2
  <2> QED
    BY <1>1, <2>1, <2>2, <2>3, MovedAlone
<1> QED
  BY <1>2, <1>3, <1>4, <1>5, <1>6, <1>7, <1>8 DEF PlainStep

(* Every step keeps the invariant.                                         *)
LEMMA SlotNext == Sequential /\ SlotInv /\ [Next]_vars => SlotInv'
<1> SUFFICES ASSUME Sequential, SlotInv, [Next]_vars
             PROVE  SlotParts'
  BY TypingNext DEF SlotInv
<1>1. ASSUME NEW p \in Hooks, Crash(p)
      PROVE  SlotParts'
  <2>1. UNCHANGED <<disk, damaged, shown>> /\ pc'[p] = "crashed"
    BY <1>1 DEF Crash, Ends, Goto, fileVars, SlotInv, Typing, TypeOK
  <2>2. Underway(p)'
    BY <2>1 DEF Underway
  <2> QED
    BY <1>1, <2>1, <2>2, UntouchedCount, MovedAlone DEF SlotInv, SlotParts,
                                                        Alone
<1>2. CASE Damage
  BY <1>2 DEF Damage, Sequential, SlotInv, Typing, TypeOK
<1>3. CASE Tick \/ UNCHANGED vars
  <2>1. UNCHANGED <<disk, damaged, pc, view, reliable, speaking, shown>>
    BY <1>3 DEF Tick, vars, fileVars
  <2> QED
    BY <2>1 DEF SlotInv, SlotParts, Alone, AtRest, Underway, SameSlot, KeepsOff,
                CountsOneMore, Unheard, Counted, CooldownKept
<1> QED
  BY <1>1, <1>2, <1>3, SlotStop, SlotPlain DEF Next

(* The invariant holds all along.                                          *)
LEMMA SlotAlways == Sequential => (Spec => []SlotInv)
<1> SUFFICES ASSUME Sequential
             PROVE  Spec => []SlotInv
  OBVIOUS
<1>1. SlotInv /\ [Next]_vars => SlotInv'
  BY SlotNext
<1> QED
  BY <1>1, SlotInit, PTL DEF Spec

-----------------------------------------------------------------------------
(* The theorems                                                            *)

(* Hooks that run one after the other show max_messages_per_session        *)
(* messages at most, whichever of them are killed or cannot save.          *)
THEOREM MessagesStayCapped == Sequential => (Spec => []MessageCap)
<1> SUFFICES ASSUME Sequential
             PROVE  Spec => []MessageCap
  OBVIOUS
<1>1. SlotInv => MessageCap
  <2> SUFFICES ASSUME SlotInv
               PROVE  MessageCap
    OBVIOUS
  <2>1. /\ Len(shown) \in Nat
        /\ disk.sent \in Nat
        /\ MaxMessages \in Nat
        /\ Counted
    BY HooksAssumption DEF SlotInv, SlotParts, Typing, TypeOK, SessionStates
  <2> QED
    BY <2>1 DEF Counted, MessageCap
<1> QED
  BY <1>1, SlotAlways, PTL

(* Under the same condition two messages are at least the cooldown apart.  *)
THEOREM CooldownAlwaysKept == Sequential => (Spec => []CooldownKept)
<1> SUFFICES ASSUME Sequential
             PROVE  Spec => []CooldownKept
  OBVIOUS
<1>1. SlotInv => CooldownKept
  BY DEF SlotInv, SlotParts
<1> QED
  BY <1>1, SlotAlways, PTL

(* And a check that switched itself off stays off.                         *)
THEOREM DisabledForGood == Sequential => (Spec => DisabledStaysOff)
<1> SUFFICES ASSUME Sequential
             PROVE  Spec => DisabledStaysOff
  OBVIOUS
<1> DEFINE StaysOff ==
      \A c \in CheckNames :
        disk.checks[c].disabled => disk'.checks[c].disabled
<1>1. SlotInv /\ [Next]_vars => [StaysOff]_vars
  <2> SUFFICES ASSUME SlotInv, [Next]_vars
               PROVE  StaysOff
    OBVIOUS
  <2>1. ASSUME NEW p \in Hooks, StopSaves(p) \/ PlainSaves(p)
        PROVE  StaysOff
    <3>1. Underway(p) /\ disk' = view[p]
      BY <2>1 DEF StopSaves, PlainSaves, SaveState, SlotInv, SlotParts
    <3>2. KeepsOff(p)
      BY <2>1, <3>1 DEF StopSaves, PlainSaves, Underway
    <3> QED
      BY <3>1, <3>2 DEF KeepsOff
  <2>2. CASE UNCHANGED disk
    BY <2>2
  <2>3. ASSUME NEW p \in Hooks, StopStep(p), ~StopSaves(p)
        PROVE  UNCHANGED disk
    BY <2>3 DEF StopStep, BeginStop, AcquireLock, LockTimesOut, LockFileFails,
                StopLoads, EvaluateStopGate, StopSaveFails, ReleaseLock,
                EmitStopResult, fileVars
  <2>4. ASSUME NEW p \in Hooks, PlainStep(p), ~PlainSaves(p)
        PROVE  UNCHANGED disk
    BY <2>4 DEF PlainStep, PlainLoads, StaysSilent, RunsChecks, PlainSkipsSave,
                PlainSaveFails, PlainEmits, fileVars
  <2>5. (\E p \in Hooks : Crash(p)) \/ Damage \/ Tick \/ UNCHANGED vars
          => UNCHANGED disk
    BY DEF Crash, Damage, Tick, vars, fileVars
  <2> QED
    BY <2>1, <2>2, <2>3, <2>4, <2>5 DEF Next
<1> QED
  BY <1>1, SlotAlways, PTL DEF Spec, DisabledStaysOff

=============================================================================
