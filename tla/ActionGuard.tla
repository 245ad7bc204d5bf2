---------------------------- MODULE ActionGuard ----------------------------
(***************************************************************************)
(* The guard a PreToolUse hook asks before a file action: it looks for the *)
(* locks of every target of the action, directory by directory and file by *)
(* file, while other sessions write and remove locks, and answers for the  *)
(* action as a whole.                                                      *)
(***************************************************************************)
EXTENDS Locks, LockScope, FiniteSets

CONSTANTS
  LockNames,     \* the lock files that may exist: directory, kind and scope
  Contents,      \* what may be in one: a lock of LockFiles, kind aside
  Actions,       \* the payloads: coverage, targets, tool and its aliases
  NoFile,        \* a lock file that is not there
  Configs,       \* the guard's switch, a known owner, a host that can ask, a
                 \* worktree that names its main clone, and the directories
                 \* that cannot be listed
  MaxWrites,     \* bound: how often other sessions touch a lock
  MaxTime        \* bound: the clock stops here

Decisions == {"allow", "ask", "deny"}

NoTarget == <<>>

Operations == {"file-write", "write", "edit", "commit"}

ASSUME GuardAssumption ==
  /\ \A n \in LockNames :
       n.kind \in Kinds /\ n.dir \in Seq(STRING) /\ n.scope # ""
  /\ \A c \in Contents :
       /\ c.identity \in Identities /\ c.mode \in {"soft", "hard"}
       /\ c.operations \subseteq Operations /\ c.readable \in BOOLEAN
       /\ c.expires \in Int /\ c.notBefore \in Int
  /\ NoFile \notin Contents
  /\ Configs \subseteq [enabled: BOOLEAN, owner: BOOLEAN, asks: BOOLEAN,
                        mainKnown: BOOLEAN, closed: SUBSET Seq(STRING)]
  /\ MaxWrites \in Nat
  /\ MaxTime \in Nat
  /\ \A a \in Actions :
       /\ a.targets \subseteq Seq(STRING) \ {NoTarget}
       /\ a.coverage = "resolved" => a.targets # {}

VARIABLES
  files,      \* the lock files on disk
  writes,     \* how often they were touched
  now,        \* the wall clock
  pc,         \* where the guard is
  config,     \* action_guard.enabled, identity.owner, the provider, .git
  action,     \* the payload it was asked about
  remaining,  \* the targets it has yet to look at
  target,     \* the one it looks at now
  looksAt,    \* the time inspect_locks took when it began with this target
  dirs,       \* the directories it has yet to list
  listed,     \* the lock files it has listed and not read
  records,    \* the locks it has found for this target
  results,    \* its decision for each target it is done with
  answer,     \* what the host is told
  standing    \* history: the lock files nobody touched since the guard began

diskVars == <<files, writes, standing>>
guardVars == <<pc, config, action, remaining, target, looksAt, dirs, listed,
               records, results, answer>>
vars == <<diskVars, now, guardVars>>

PCs == {"idle", "choosing", "listing", "reading", "done"}

Lock(n) ==
  [kind |-> n.kind, identity |-> files[n].identity, mode |-> files[n].mode,
   operations |-> files[n].operations, expires |-> files[n].expires,
   notBefore |-> files[n].notBefore, condition |-> files[n].condition,
   releaseMode |-> files[n].releaseMode, readable |-> files[n].readable]

OnDisk == {n \in LockNames : files[n] # NoFile}

Legible(n) == n \in OnDisk /\ files[n].readable

TypeOK ==
  /\ files \in [LockNames -> Contents \cup {NoFile}]
  /\ writes \in 0 .. MaxWrites
  /\ now \in 0 .. MaxTime
  /\ pc \in PCs
  /\ config \in Configs
  /\ action \in Actions
  /\ remaining \subseteq action.targets
  /\ target \in action.targets \cup {NoTarget}
  /\ looksAt \in 0 .. MaxTime
  /\ SeqExt!ToSet(dirs) \subseteq
       UNION {SeqExt!ToSet(RelevantDirs(t)) : t \in action.targets}
  /\ listed \subseteq LockNames
  /\ records \subseteq LockRecords(Operations)
  /\ results \subseteq Decisions
  /\ answer \in Decisions \cup {"none"}
  /\ standing \subseteq LockNames

Init ==
  /\ files \in [LockNames -> Contents \cup {NoFile}]
  /\ writes = 0
  /\ now = 0
  /\ pc = "idle"
  /\ config \in Configs
  /\ action \in Actions
  /\ remaining = {}
  /\ target = NoTarget
  /\ looksAt = 0
  /\ dirs = <<>>
  /\ listed = {}
  /\ records = {}
  /\ results = {}
  /\ answer = "none"
  /\ standing = LockNames

-----------------------------------------------------------------------------
(* Decisions                                                               *)

(* Mutant: a target nobody is sure about hides one that is locked.         *)
CombineAskFirst(decisions) ==
  IF "ask" \in decisions THEN "ask"
  ELSE IF "deny" \in decisions THEN "deny" ELSE "allow"

(* The most severe one wins: deny before ask before allow.                 *)
Combine(decisions) ==
  IF "deny" \in decisions THEN "deny"
  ELSE IF "ask" \in decisions THEN "ask" ELSE "allow"

(* The hooks of codex, kimi and manual cannot ask: they deny instead.      *)
Emitted(decision) ==
  IF decision = "ask" /\ ~config.asks THEN "deny" ELSE decision

(* A lock with operations is about those operations only.                  *)
AppliesToFileAction(record, aliases) ==
  record.operations = {} \/ record.operations \cap aliases # {}

Blocks(record, aliases) ==
  /\ AppliesToFileAction(record, aliases)
  /\ IsProtected(record) \/ (record.mode # "soft" /\ ~SameIdentity(record))

Answers(decision) ==
  /\ pc' = "done"
  /\ answer' = Emitted(decision)
  /\ remaining' = {}
  /\ target' = NoTarget
  /\ dirs' = <<>>
  /\ listed' = {}
  /\ records' = {}
  /\ results' = {}
  /\ looksAt' = 0

-----------------------------------------------------------------------------
(* The guard                                                               *)

(* Nothing is looked at: guard disabled, channel not covered, target       *)
(* unresolved or authority missing.                                        *)
AnswersAtOnce ==
  /\ pc = "idle"
  /\ \/ ~config.enabled /\ Answers("allow")
     \/ config.enabled /\ action.coverage = "none" /\ Answers("allow")
     \/ config.enabled /\ action.coverage = "malformed" /\ Answers("deny")
     \/ /\ config.enabled
        /\ action.coverage = "resolved"
        /\ ~config.owner
        /\ Answers("ask")
  /\ standing' = LockNames
  /\ UNCHANGED <<files, writes, now, config, action>>

BeginGuard ==
  /\ pc = "idle"
  /\ config.enabled
  /\ action.coverage = "resolved"
  /\ config.owner
  /\ remaining' = action.targets
  /\ pc' = "choosing"
  /\ standing' = LockNames
  /\ UNCHANGED <<files, writes, now, config, action, target, looksAt, dirs,
                 listed, records, results, answer>>

TakesOutsideTarget ==
  /\ pc = "choosing"
  /\ \E t \in remaining :
       /\ ~Inside(t, ProjectRoot)
       /\ remaining' = remaining \ {t}
  /\ results' = results \cup {"ask"}
  /\ UNCHANGED <<diskVars, now, pc, config, action, target, looksAt, dirs,
                 listed, records, answer>>

(* A .git file that does not lead to a main clone leaves every target      *)
(* unknown.                                                                *)
CannotFindMain ==
  /\ pc = "choosing"
  /\ ~config.mainKnown
  /\ \E t \in remaining :
       /\ Inside(t, ProjectRoot)
       /\ remaining' = remaining \ {t}
  /\ results' = results \cup {"deny"}
  /\ UNCHANGED <<diskVars, now, pc, config, action, target, looksAt, dirs,
                 listed, records, answer>>

TakesTarget ==
  /\ pc = "choosing"
  /\ config.mainKnown
  /\ \E t \in remaining :
       /\ Inside(t, ProjectRoot)
       /\ remaining' = remaining \ {t}
       /\ target' = t
       /\ dirs' = RelevantDirs(t)
  /\ looksAt' = now
  /\ pc' = "listing"
  /\ UNCHANGED <<diskVars, now, config, action, listed, records, results,
                 answer>>

(* glob reads a whole directory before its first lock file is opened. One  *)
(* that may not be read looks empty.                                       *)
ListsDirectory ==
  /\ pc = "listing"
  /\ listed' = {n \in OnDisk : n.dir = Head(dirs) /\ n.dir \notin config.closed}
  /\ dirs' = Tail(dirs)
  /\ pc' = "reading"
  /\ UNCHANGED <<diskVars, now, config, action, remaining, target, looksAt,
                 records, results, answer>>

Concludes(decision) ==
  /\ results' = results \cup {decision}
  /\ target' = NoTarget
  /\ dirs' = <<>>
  /\ listed' = {}
  /\ records' = {}
  /\ looksAt' = 0
  /\ pc' = "choosing"

ReadsLock ==
  /\ pc = "reading"
  /\ \E n \in listed :
       /\ Legible(n)
       /\ listed' = listed \ {n}
       /\ records' = IF InScope(n, target) /\ ~Released(Lock(n), looksAt)
                       THEN records \cup {RecordOf(Lock(n))}
                       ELSE records
  /\ UNCHANGED <<diskVars, now, pc, config, action, remaining, target,
                 looksAt, dirs, results, answer>>

(* Any other error of the listing makes the whole target unknown.          *)
CannotList ==
  /\ pc = "listing"
  /\ Head(dirs) \in config.closed
  /\ Concludes("deny")
  /\ UNCHANGED <<diskVars, now, config, action, remaining, answer>>

(* A lock that is gone or illegible makes the whole target unknown, out of *)
(* scope or not.                                                           *)
CannotReadLock ==
  /\ pc = "reading"
  /\ \E n \in listed : ~Legible(n)
  /\ Concludes("deny")
  /\ UNCHANGED <<diskVars, now, config, action, remaining, answer>>

EndsDirectory ==
  /\ pc = "reading"
  /\ listed = {}
  /\ IF dirs # <<>>
       THEN /\ pc' = "listing"
            /\ UNCHANGED <<target, looksAt, dirs, listed, records, results>>
       ELSE Concludes(IF \E r \in records : Blocks(r, action.aliases)
                        THEN "deny" ELSE "allow")
  /\ UNCHANGED <<diskVars, now, config, action, remaining, answer>>

Decides ==
  /\ pc = "choosing"
  /\ remaining = {}
  /\ Answers(Combine(results))
  /\ UNCHANGED <<diskVars, now, config, action>>

-----------------------------------------------------------------------------
(* The other sessions and the clock                                        *)

TouchLock(n) ==
  /\ writes < MaxWrites
  /\ \E content \in (Contents \cup {NoFile}) \ {files[n]} :
       files' = [files EXCEPT ![n] = content]
  /\ writes' = writes + 1
  /\ standing' = standing \ {n}
  /\ UNCHANGED <<now, guardVars>>

Tick ==
  /\ now < MaxTime
  /\ now' = now + 1
  /\ UNCHANGED <<diskVars, guardVars>>

GuardStep ==
  \/ AnswersAtOnce
  \/ BeginGuard
  \/ TakesOutsideTarget
  \/ CannotFindMain
  \/ TakesTarget
  \/ ListsDirectory
  \/ CannotList
  \/ ReadsLock
  \/ CannotReadLock
  \/ EndsDirectory
  \/ Decides

Next ==
  \/ GuardStep
  \/ \E n \in LockNames : TouchLock(n)
  \/ Tick

Spec == Init /\ [][Next]_vars

-----------------------------------------------------------------------------
(* Properties                                                              *)

Guarded == config.enabled /\ action.coverage = "resolved"

(* The lock files in those directories of a target that can be listed,     *)
(* whatever their scope.                                                   *)
Near(t) ==
  {n \in OnDisk : n.dir \in SeqExt!ToSet(RelevantDirs(t)) \ config.closed}

(* path is, or lies in, the entry beside the lock that its scope names.    *)
Entry(path, n) ==
  Inside(path, n.dir) /\ path # n.dir /\ path[Len(n.dir) + 1] = n.scope

(* What a lock is meant for: the whole project, or one entry of its own    *)
(* directory, under the name the target has there. An action on the        *)
(* project itself is about every entry.                                    *)
Governs(n, t) ==
  \/ t = ProjectRoot
  \/ n.scope = WholeProject
  \/ Entry(t, n)
  \/ ~Inside(t, n.dir) /\ Entry(Mapped(t), n)

LocksOn(t, at) ==
  InspectLocks({Lock(n) : n \in {m \in Near(t) : Governs(m, t)}}, at)

(* An action is let through only if no target of it was under a lock that  *)
(* stood untouched from the guard's first look to its answer and that has  *)
(* not run out, however the other locks and the clock moved meanwhile. The *)
(* locks of a directory that cannot be listed are beyond the guard.        *)
StandingLockDenies ==
  pc = "done" /\ answer = "allow" /\ Guarded =>
    \A t \in action.targets :
      /\ Inside(t, ProjectRoot)
      /\ \A n \in Near(t) \cap standing :
           /\ Legible(n)
           /\ Governs(n, t) /\ ~Released(Lock(n), now)
                => ~Blocks(RecordOf(Lock(n)), action.aliases)

VerdictOn(t, at) ==
  IF ~Inside(t, ProjectRoot) THEN "ask"
  ELSE IF \/ ~config.mainKnown
          \/ \E n \in Near(t) : ~Legible(n)
          \/ \E r \in LocksOn(t, at).records : Blocks(r, action.aliases)
         THEN "deny" ELSE "allow"

(* Nobody and nothing disturbs the guard.                                  *)
Quiet == standing = LockNames /\ now = 0 /\ config.closed = {}

(* When every directory can be listed, nobody touches a lock and no time   *)
(* passes while the guard looks, its answer is the one the locks on disk   *)
(* define: it does not depend on the order of targets, directories and     *)
(* files.                                                                  *)
QuietAnswer ==
  pc = "done" /\ Guarded /\ config.owner /\ Quiet =>
    LET verdicts == {VerdictOn(t, now) : t \in action.targets}
    IN  /\ answer = "allow" <=> verdicts \subseteq {"allow"}
        /\ answer = "ask" <=>
             config.asks /\ "ask" \in verdicts /\ "deny" \notin verdicts

=============================================================================
