---------------------------- MODULE SessionHooks ----------------------------
(***************************************************************************)
(* The hook processes of one session and the state file they share.        *)
(*                                                                         *)
(* Every hook call is an operating-system process of its own that runs     *)
(* once. A Stop hook of an enabled stop gate loads, evaluates and saves    *)
(* the state inside state_transaction, under an flock the kernel takes     *)
(* back when the process dies. Every other hook loads and saves the same   *)
(* file with no lock at all.                                               *)
(***************************************************************************)
EXTENDS ActiveChecks, Locks, FiniteSets

CONSTANTS
  Stops,            \* Stop hook calls of the session
  Advisories,       \* UserPromptSubmit, PreCompact, SessionStart, check calls
  Keys,             \* stop-gate identities: _stop_gate_key of target + identity
  LockViews,        \* the lock snapshots inspect_locks may return
  Projects,         \* the project states the sources may report
  StopGateEnabled,  \* config.stop_gate.enabled
  InjectorsOn,      \* the injector of an advisory's event may have a message
  MaxMessages,      \* config.mode.max_messages_per_session
  Cooldown,         \* config.mode.cooldown_minutes
  OneAtATime,       \* the host starts a hook only when no other hook runs
  IOFaults,         \* opening the lock, saving or unlocking may fail
  MaxDamage,        \* bound: how often the file is damaged from outside
  MaxTime           \* bound: the clock stops here

Hooks == Stops \cup Advisories

GateHooks == IF StopGateEnabled THEN Stops ELSE {}

PlainHooks == Hooks \ GateHooks

(* No message yet: the None of last_message_ts.                            *)
Never == -1

Nobody == "nobody"

ASSUME HooksAssumption ==
  /\ Stops \cap Advisories = {}
  /\ Nobody \notin Hooks
  /\ StopGateEnabled \in BOOLEAN
  /\ InjectorsOn \in BOOLEAN
  /\ OneAtATime \in BOOLEAN
  /\ IOFaults \in BOOLEAN
  /\ MaxMessages \in Nat
  /\ Cooldown \in Nat
  /\ MaxDamage \in Nat
  /\ MaxTime \in Nat

VARIABLES
  disk,       \* the state file's last legible content
  damaged,    \* the file cannot be read back
  damages,    \* how often it was damaged
  lock,       \* the hook that holds the flock on the sibling .lock file
  pc,         \* where each hook is
  key,        \* the gate identity of each Stop hook's payload
  view,       \* the state each hook has in memory
  reliable,   \* load_checked's second result
  verdict,    \* the stop gate's result code
  speaking,   \* a plain hook has a message to emit
  now,        \* the wall clock
  granted,    \* history: rework rounds whose record was saved, per key
  delivered,  \* history: blocks the host was told of, per key
  forgotten,  \* history: saves that dropped the record of a key's round
  shown       \* history: the messages of plain hooks that were emitted

fileVars == <<disk, damaged, damages>>
gateVars == <<granted, delivered, forgotten>>
vars == <<fileVars, lock, pc, key, view, reliable, verdict, speaking, now,
          gateVars, shown>>

-----------------------------------------------------------------------------
(* State                                                                   *)

(* spent holds the keys whose rounds_requested is 1: an entry with 0       *)
(* rounds and no entry say the same.                                       *)
SessionStates ==
  [spent: SUBSET Keys, sent: Nat, last: Int,
   checks: [CheckNames -> CheckRuntimes]]

FreshState ==
  [spent |-> {}, sent |-> 0, last |-> Never, checks |-> FreshRuntimes]

PCs == {"idle", "waiting", "locked", "loaded", "decided", "saved", "unlocked",
        "checking", "saving", "emitting", "done", "crashed"}

(* A Stop hook inside "with state_transaction(...)".                       *)
InTransaction == {"locked", "loaded", "decided", "saved"}

Ended == {"done", "crashed"}

Verdicts == {"none", "stop-clean", "stop-residual", "stop-rework-once",
             "stop-state-save-failed", "stop-state-transaction-failed"}

TypeOK ==
  /\ disk \in SessionStates
  /\ damaged \in BOOLEAN
  /\ damages \in 0 .. MaxDamage
  /\ lock \in Hooks \cup {Nobody}
  /\ pc \in [Hooks -> PCs]
  /\ key \in [Stops -> Keys]
  /\ view \in [Hooks -> SessionStates]
  /\ reliable \in [Hooks -> BOOLEAN]
  /\ verdict \in [Hooks -> Verdicts]
  /\ speaking \in [Hooks -> BOOLEAN]
  /\ now \in 0 .. MaxTime
  /\ granted \in [Keys -> Nat]
  /\ delivered \in [Keys -> Nat]
  /\ forgotten \in [Keys -> Nat]
  /\ shown \in Seq([by: Hooks, at: Int])

(* A missing file is a clean session start.                                *)
Init ==
  /\ disk = FreshState
  /\ damaged = FALSE
  /\ damages = 0
  /\ lock = Nobody
  /\ pc = [p \in Hooks |-> "idle"]
  /\ key \in [Stops -> Keys]
  /\ view = [p \in Hooks |-> FreshState]
  /\ reliable = [p \in Hooks |-> FALSE]
  /\ verdict = [p \in Hooks |-> "none"]
  /\ speaking = [p \in Hooks |-> FALSE]
  /\ now = 0
  /\ granted = [k \in Keys |-> 0]
  /\ delivered = [k \in Keys |-> 0]
  /\ forgotten = [k \in Keys |-> 0]
  /\ shown = <<>>

-----------------------------------------------------------------------------
(* Loading and saving                                                      *)

Goto(p, place) == pc' = [pc EXCEPT ![p] = place]

MayStart(p) ==
  OneAtATime => \A q \in Hooks \ {p} : pc[q] \in Ended \cup {"idle"}

(* A damaged file gives a fresh state and the flag that says so.           *)
LoadChecked(p) ==
  /\ view' = [view EXCEPT ![p] = IF damaged THEN FreshState ELSE disk]
  /\ reliable' = [reliable EXCEPT ![p] = ~damaged]

Dropped(content, k) == k \in disk.spent /\ k \notin content.spent

OneIf(condition) == IF condition THEN 1 ELSE 0

(* os.replace puts the whole content there at once, over a damaged file    *)
(* too.                                                                    *)
SaveState(content) ==
  /\ disk' = content
  /\ damaged' = FALSE
  /\ forgotten' =
       [k \in Keys |-> forgotten[k] + OneIf(Dropped(content, k))]
  /\ UNCHANGED damages

-----------------------------------------------------------------------------
(* The Stop hook of an enabled gate                                        *)

BeginStop(p) ==
  /\ p \in GateHooks
  /\ pc[p] = "idle"
  /\ MayStart(p)
  /\ Goto(p, "waiting")
  /\ UNCHANGED <<fileVars, lock, key, view, reliable, verdict, speaking, now,
                 gateVars, shown>>

(* Mutant: the lock file is opened but its flock is not exclusive.         *)
AcquireSharedLock(p) ==
  /\ pc[p] = "waiting"
  /\ lock' = p
  /\ Goto(p, "locked")
  /\ UNCHANGED <<fileVars, key, view, reliable, verdict, speaking, now,
                 gateVars, shown>>

AcquireLock(p) ==
  /\ pc[p] = "waiting"
  /\ lock = Nobody
  /\ lock' = p
  /\ Goto(p, "locked")
  /\ UNCHANGED <<fileVars, key, view, reliable, verdict, speaking, now,
                 gateVars, shown>>

(* Mutant: the wait has no deadline.                                       *)
LockNeverTimesOut(p) == p \notin Hooks /\ UNCHANGED vars

(* The deadline passes on a failed attempt: somebody had the lock.         *)
LockTimesOut(p) ==
  /\ pc[p] = "waiting"
  /\ lock # Nobody
  /\ verdict' = [verdict EXCEPT ![p] = "stop-state-transaction-failed"]
  /\ Goto(p, "unlocked")
  /\ UNCHANGED <<fileVars, lock, key, view, reliable, speaking, now, gateVars,
                 shown>>

LockFileFails(p) ==
  /\ IOFaults
  /\ pc[p] = "waiting"
  /\ verdict' = [verdict EXCEPT ![p] = "stop-state-transaction-failed"]
  /\ Goto(p, "unlocked")
  /\ UNCHANGED <<fileVars, lock, key, view, reliable, speaking, now, gateVars,
                 shown>>

StopLoads(p) ==
  /\ pc[p] = "locked"
  /\ LoadChecked(p)
  /\ Goto(p, "loaded")
  /\ UNCHANGED <<fileVars, lock, key, verdict, speaking, now, gateVars, shown>>

(* _completion_facts: every record counts once, as somebody else's, as     *)
(* unclear or as the session's own.                                        *)
IsForeignFact(r) ==
  \/ r.operations # {}
  \/ IsProtected(r)
  \/ r.identity = "foreign"

IsUnclearFact(r) == ~IsForeignFact(r) /\ r.identity = "incomplete"

IsOwnFact(r) == ~IsForeignFact(r) /\ SameIdentity(r)

OwnFound(locks) == \E r \in locks.records : IsOwnFact(r)

(* A dirty worktree is the session's own only beside a lock of its own.    *)
UnknownFound(locks, git) ==
  \/ locks.evidence = "unknown"
  \/ \E r \in locks.records : IsUnclearFact(r)
  \/ git = "unavailable"
  \/ git = "dirty" /\ ~OwnFound(locks)

NothingFound(locks, git) ==
  /\ ~OwnFound(locks)
  /\ ~\E r \in locks.records : IsForeignFact(r)
  /\ ~UnknownFound(locks, git)

(* Mutant: a state that could not be read counts as a fresh one.           *)
RoundUsedUpByHostOnly(p, active) == active

(* A lost record and a host that says it already continues both use the    *)
(* round up.                                                               *)
RoundUsedUp(p, active) == ~reliable[p] \/ active

(* Mutant: the round on record is not looked at.                           *)
CanAlwaysRequest(p, active, locks) ==
  ~RoundUsedUp(p, active) /\ OwnFound(locks)

CanRequest(p, active, locks) ==
  /\ ~RoundUsedUp(p, active)
  /\ key[p] \notin view[p].spent
  /\ OwnFound(locks)

(* Mutant: the record of the round is not made.                            *)
SealsNothing(p) == UNCHANGED view

(* Mutant: the record is made for the hook and not for its target.         *)
SealsHook(p) == view' = [view EXCEPT ![p].spent = @ \cup {p}]

SealRound(p) == view' = [view EXCEPT ![p].spent = @ \cup {key[p]}]

Concludes(p, code) == verdict' = [verdict EXCEPT ![p] = code]

GitStates == {"clean", "dirty", "unavailable"}

(* evaluate_stop_gate. The worktree was looked at before the lock was      *)
(* awaited and the locks are looked at now; both change at any time, so    *)
(* each is any of its values.                                              *)
EvaluateStopGate(p) ==
  /\ pc[p] = "loaded"
  /\ \E locks \in LockViews, git \in GitStates, active \in BOOLEAN :
       \/ /\ NothingFound(locks, git)
          /\ Concludes(p, "stop-clean")
          /\ UNCHANGED view
       \/ /\ ~NothingFound(locks, git)
          /\ CanRequest(p, active, locks)
          /\ SealRound(p)
          /\ Concludes(p, "stop-rework-once")
       \/ /\ ~NothingFound(locks, git)
          /\ ~CanRequest(p, active, locks)
          /\ IF RoundUsedUp(p, active) THEN SealRound(p) ELSE UNCHANGED view
          /\ Concludes(p, "stop-residual")
  /\ Goto(p, "decided")
  /\ UNCHANGED <<fileVars, lock, key, reliable, speaking, now, gateVars, shown>>

(* Saved whatever the verdict, a clean one and an unreliable state too.    *)
StopSaves(p) ==
  /\ pc[p] = "decided"
  /\ SaveState(view[p])
  /\ granted' = [granted EXCEPT ![key[p]] =
                   @ + OneIf(verdict[p] = "stop-rework-once")]
  /\ Goto(p, "saved")
  /\ UNCHANGED <<lock, key, view, reliable, verdict, speaking, now, delivered,
                 shown>>

(* Mutant: the hook blocks although its record is not on disk.             *)
StopSaveFailsUnnoticed(p) ==
  /\ IOFaults
  /\ pc[p] = "decided"
  /\ Goto(p, "saved")
  /\ UNCHANGED <<fileVars, lock, key, view, reliable, verdict, speaking, now,
                 gateVars, shown>>

(* Without a durable record the hook may not block.                        *)
StopSaveFails(p) ==
  /\ IOFaults
  /\ pc[p] = "decided"
  /\ Concludes(p, "stop-state-save-failed")
  /\ Goto(p, "saved")
  /\ UNCHANGED <<fileVars, lock, key, view, reliable, speaking, now, gateVars,
                 shown>>

ReleaseLock(p) ==
  /\ pc[p] = "saved"
  /\ lock' = Nobody
  /\ \/ UNCHANGED verdict
     \/ IOFaults /\ Concludes(p, "stop-state-transaction-failed")
  /\ Goto(p, "unlocked")
  /\ UNCHANGED <<fileVars, key, view, reliable, speaking, now, gateVars, shown>>

(* A process that ends takes its memory with it.                           *)
Ends(p, how) ==
  /\ Goto(p, how)
  /\ view' = [view EXCEPT ![p] = FreshState]
  /\ reliable' = [reliable EXCEPT ![p] = FALSE]
  /\ verdict' = [verdict EXCEPT ![p] = "none"]
  /\ speaking' = [speaking EXCEPT ![p] = FALSE]

EmitStopResult(p) ==
  /\ pc[p] = "unlocked"
  /\ delivered' = [delivered EXCEPT ![key[p]] =
                     @ + OneIf(verdict[p] = "stop-rework-once")]
  /\ Ends(p, "done")
  /\ UNCHANGED <<fileVars, lock, key, now, granted, forgotten, shown>>

-----------------------------------------------------------------------------
(* The hooks that run the advisory checks and injectors                    *)

PlainLoads(p) ==
  /\ p \in PlainHooks
  /\ pc[p] = "idle"
  /\ MayStart(p)
  /\ LoadChecked(p)
  /\ Goto(p, "checking")
  /\ UNCHANGED <<fileVars, lock, key, verdict, speaking, now, gateVars, shown>>

(* Mutant: one message too many.                                           *)
SlotAvailableOnceMore(state) ==
  /\ state.sent <= MaxMessages
  /\ state.last = Never \/ now - state.last >= Cooldown

(* Mutant: the cooldown is off by one.                                     *)
SlotAvailableEarly(state) ==
  /\ state.sent < MaxMessages
  /\ state.last = Never \/ now - state.last + 1 >= Cooldown

MessageSlotAvailable(state) ==
  /\ state.sent < MaxMessages
  /\ state.last = Never \/ now - state.last >= Cooldown

(* Mutant: a message starts the checks afresh.                             *)
RecordMessageAfresh(state) ==
  [spent |-> state.spent, sent |-> state.sent + 1, last |-> now,
   checks |-> FreshRuntimes]

RecordMessage(state) ==
  [spent |-> state.spent, sent |-> state.sent + 1, last |-> now,
   checks |-> state.checks]

(* No slot: neither a check nor an injector is asked.                      *)
StaysSilent(p) ==
  /\ pc[p] = "checking"
  /\ ~MessageSlotAvailable(view[p])
  /\ Goto(p, "saving")
  /\ UNCHANGED <<fileVars, lock, key, view, reliable, verdict, speaking, now,
                 gateVars, shown>>

(* The first check with a finding speaks; if none has one, the injector    *)
(* of the event may.                                                       *)
RunsChecks(p) ==
  /\ pc[p] = "checking"
  /\ MessageSlotAvailable(view[p])
  /\ \E project \in Projects, injected \in BOOLEAN :
       LET found == Speaker(view[p].checks, project) # {}
           after == [view[p] EXCEPT !.checks = RunChecks(@, project)]
       IN  /\ injected => InjectorsOn /\ p \in Advisories /\ ~found
           /\ view' = [view EXCEPT ![p] = IF found \/ injected
                                            THEN RecordMessage(after)
                                            ELSE after]
           /\ speaking' = [speaking EXCEPT ![p] = found \/ injected]
  /\ Goto(p, "saving")
  /\ UNCHANGED <<fileVars, lock, key, reliable, verdict, now, gateVars, shown>>

PlainSaves(p) ==
  /\ pc[p] = "saving"
  /\ reliable[p]
  /\ SaveState(view[p])
  /\ Goto(p, "emitting")
  /\ UNCHANGED <<lock, key, view, reliable, verdict, speaking, now, granted,
                 delivered, shown>>

(* A damaged file is left as it is, so that its damage stays visible.      *)
PlainSkipsSave(p) ==
  /\ pc[p] = "saving"
  /\ ~reliable[p]
  /\ Goto(p, "emitting")
  /\ UNCHANGED <<fileVars, lock, key, view, reliable, verdict, speaking, now,
                 gateVars, shown>>

(* Nothing catches the OSError of save: the hook ends without its message. *)
PlainSaveFails(p) ==
  /\ IOFaults
  /\ pc[p] = "saving"
  /\ reliable[p]
  /\ Ends(p, "crashed")
  /\ UNCHANGED <<fileVars, lock, key, now, gateVars, shown>>

PlainEmits(p) ==
  /\ pc[p] = "emitting"
  /\ shown' = IF speaking[p]
                THEN Append(shown, [by |-> p, at |-> view[p].last])
                ELSE shown
  /\ Ends(p, "done")
  /\ UNCHANGED <<fileVars, lock, key, now, gateVars>>

-----------------------------------------------------------------------------
(* Surroundings                                                            *)

(* A killed process: the kernel releases its flock.                        *)
Crash(p) ==
  /\ pc[p] \notin Ended \cup {"idle"}
  /\ lock' = IF lock = p THEN Nobody ELSE lock
  /\ Ends(p, "crashed")
  /\ UNCHANGED <<fileVars, key, now, gateVars, shown>>

Damage ==
  /\ damages < MaxDamage
  /\ ~damaged
  /\ damaged' = TRUE
  /\ damages' = damages + 1
  /\ UNCHANGED <<disk, lock, pc, key, view, reliable, verdict, speaking, now,
                 gateVars, shown>>

Tick ==
  /\ now < MaxTime
  /\ now' = now + 1
  /\ UNCHANGED <<fileVars, lock, pc, key, view, reliable, verdict, speaking,
                 gateVars, shown>>

StopStep(p) ==
  \/ BeginStop(p)
  \/ AcquireLock(p)
  \/ LockTimesOut(p)
  \/ LockFileFails(p)
  \/ StopLoads(p)
  \/ EvaluateStopGate(p)
  \/ StopSaves(p)
  \/ StopSaveFails(p)
  \/ ReleaseLock(p)
  \/ EmitStopResult(p)

PlainStep(p) ==
  \/ PlainLoads(p)
  \/ StaysSilent(p)
  \/ RunsChecks(p)
  \/ PlainSaves(p)
  \/ PlainSkipsSave(p)
  \/ PlainSaveFails(p)
  \/ PlainEmits(p)

Next ==
  \/ \E p \in Hooks : StopStep(p) \/ PlainStep(p) \/ Crash(p)
  \/ Damage
  \/ Tick

Spec == Init /\ [][Next]_vars

(* A waiting hook polls the lock until its deadline; nothing is assumed of *)
(* the hook that holds it, which may hang on a slow disk for ever.         *)
PollingFairness ==
  \A p \in GateHooks : WF_vars(AcquireLock(p) \/ LockTimesOut(p))

PollingSpec == Spec /\ PollingFairness

-----------------------------------------------------------------------------
(* Properties                                                              *)

(* Load, evaluation and save of two Stop hooks never overlap, and a hook   *)
(* that is past the transaction or dead does not own the lock.             *)
OneTransaction ==
  \A p \in Hooks : pc[p] \in InTransaction <=> lock = p

(* Every rework round beyond the first of a gate identity was preceded by  *)
(* a save that dropped the identity's record: rounds are granted from the  *)
(* record and from nothing else. A dropped record that is on file again    *)
(* has no new round to give.                                               *)
RoundsNeedForgetting ==
  \A k \in Keys : granted[k] <= forgotten[k] + OneIf(k \in disk.spent)

(* A gate identity is asked for one round of rework at most, whatever      *)
(* crashes, lock timeouts and failing saves do.                            *)
OneRoundPerKey == \A k \in Keys : granted[k] <= 1

(* The host is never told to block for a round whose record is not in the  *)
(* file: a hook that is about to say so finds its key there.               *)
BlockIsRecorded ==
  \A p \in GateHooks :
    pc[p] \in {"saved", "unlocked"} /\ verdict[p] = "stop-rework-once"
      => key[p] \in disk.spent

(* Each block the host sees has a granted round of its own; a crash may    *)
(* lose the block but no round is delivered twice.                         *)
NoUngrantedBlock == \A k \in Keys : delivered[k] <= granted[k]

(* A record that is on file stays: no save of a later hook drops it.       *)
RecordsStay == [][disk.spent \subseteq disk'.spent]_vars

Gate == INSTANCE OneRework

(* The rounds on record and the blocks the host hears of behave as the     *)
(* promise of one rework round per identity says.                          *)
ImplementsOneRework == Gate!Spec

(* A hook that waits for the lock gets an answer even when the owner of    *)
(* the lock never gives it back.                                           *)
WaitEnds == \A p \in GateHooks : pc[p] = "waiting" ~> pc[p] # "waiting"

(* A session sees at most max_messages_per_session messages.               *)
MessageCap == Len(shown) <= MaxMessages

(* Two messages of a session are at least the cooldown apart.              *)
CooldownKept ==
  \A i \in 1 .. (Len(shown) - 1) : shown[i + 1].at - shown[i].at >= Cooldown

(* A check that switched itself off stays off for the session.             *)
DisabledStaysOff ==
  [][\A c \in CheckNames :
       disk.checks[c].disabled => disk'.checks[c].disabled]_vars

=============================================================================
