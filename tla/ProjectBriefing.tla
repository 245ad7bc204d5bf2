-------------------------- MODULE ProjectBriefing --------------------------
(***************************************************************************)
(* What the program tells a session about its project. A snapshot of the   *)
(* project is put together by sources.CompositeStateSource from up to four *)
(* sources, each of which reads in several steps while the project goes    *)
(* on changing and any of which may fail; the checks and the injectors of  *)
(* injectors.py speak of the snapshot. At SessionStart the rules of a      *)
(* registry are shown instead.                                             *)
(***************************************************************************)
EXTENDS ScopeRules

CONSTANTS
  Order,          \* [sources].order
  DirectoryOrder, \* the files LOCK*.txt, as the directory lists them
  CanonicalOf,    \* which file each of them that is a conflict copy copies
  GoalFiles,      \* GoalStateSource.DEFAULT_FILENAMES
  Goals,          \* the texts a goal file may hold
  Root,           \* what stands for the directory of the project itself
  Changes,        \* what git status may list: [from, to], a rename when the
                  \*   two top-level directories differ
  Tasks,          \* the ids of TASKPLAN
  LocalTasks,     \* those that belong to the project
  Limit,          \* TaskplanStateSource.limit
  FacadeLimit,    \* the fewest tasks the facade returns of a list it cuts
  Projects,       \* the states the project may begin in
  MaxMoves,       \* bound: how often the project changes during a read
  Paths,          \* the directories a session may start in
  Registries      \* the policy registries it may find

Sources == {"files", "git", "taskplan", "goal"}

LockFiles == ToSet(DirectoryOrder)
GoalNames == ToSet(GoalFiles)
GoalTexts == Goals \cup {"none"}
Statuses == {"open", "active", "closed"}

ProjectStates ==
  [files: SUBSET LockFiles, goals: [GoalNames -> GoalTexts],
   changes: SUBSET Changes, tasks: [Tasks -> Statuses]]

Entries ==
  [scope: Seq(STRING), below: BOOLEAN, global: BOOLEAN, active: BOOLEAN]

ASSUME BriefingAssumption ==
  /\ Order \in Seq(Sources)
  /\ DirectoryOrder \in Seq(LockFiles)
  /\ GoalFiles \in Seq(GoalNames)
  /\ CanonicalOf \in [DOMAIN CanonicalOf -> LockFiles]
  /\ DOMAIN CanonicalOf \subseteq LockFiles
  /\ "none" \notin Goals
  /\ IsFiniteSet(Tasks) /\ LocalTasks \subseteq Tasks
  /\ Limit \in Nat \ {0}
  /\ FacadeLimit \in Nat \ {0}
  /\ MaxMoves \in Nat
  /\ Projects \subseteq ProjectStates
  /\ Paths \subseteq Seq(STRING)
  /\ Registries \subseteq Seq(Entries)

VARIABLES
  project, \* its files LOCK*.txt, goal texts, changes and tasks
  moves,   \* how often it changed during the read
  phase,   \* "idle", "reading" or "done"
  turn,    \* the source that is read, by its place in Order
  step,    \* what is read of it, by its place in its Program
  part,    \* what the present source has found
  snap,    \* what the sources before it have found
  shown,   \* the kind of message and the facts in it
  failed,  \* history: sources, goal files and queries that failed
  seen,    \* history: facts that held at some time of the read
  held,    \* history: facts that held all through it
  rules    \* the session start: registry, candidate scopes, places shown

readVars == <<turn, step, part, snap>>
factVars == <<moves, seen, held>>
briefingVars == <<project, moves, phase, readVars, shown, failed, seen, held,
                  rules>>

-----------------------------------------------------------------------------
(* The project                                                             *)

(* A file goes from the project's own directory into another one.          *)
LeavesRoot(c) == c.from = Root /\ c.to # Root

Listed(p, status) == {t \in Tasks : p.tasks[t] = status}

(* What is true of a project: its files and tasks, and every directory     *)
(* that a change is in. Further, what the properties need to know of the   *)
(* answers: that a line of git status begins with a directory, that one    *)
(* tells of a file that leaves the project's own, and that a list of tasks *)
(* is longer than the facade may return.                                   *)
Facts(p) ==
  {<<"lock", f>> : f \in p.files}
  \cup {<<"copy", f>> : f \in {g \in p.files \cap DOMAIN CanonicalOf :
                                 CanonicalOf[g] \in p.files}}
  \cup {<<"goal", f, p.goals[f]>> : f \in GoalNames}
  \cup {<<"dir", <<c.from>>>> : c \in p.changes}
  \cup {<<"dir", <<c.to>>>> : c \in p.changes}
  \cup {<<"listed", <<c.from>>>> : c \in {d \in p.changes : ~LeavesRoot(d)}}
  \cup {<<"move", <<c.from, c.to>>>> : c \in {d \in p.changes : LeavesRoot(d)}}
  \cup {<<"task", t>> : t \in {u \in LocalTasks : p.tasks[u] # "closed"}}
  \cup {<<"crowded", status>> : status \in {q \in {"open", "active"} :
           Cardinality(Listed(p, q)) > FacadeLimit}}

-----------------------------------------------------------------------------
(* What a source reads, in order                                           *)

Step(read, of) == [read |-> read, of |-> of]

StepsOf(read, names) == [i \in DOMAIN names |-> Step(read, names[i])]

(* Mutant: active tasks are asked for first.                               *)
ActiveFirst == <<"active", "open">>

(* The two queries of TaskplanStateSource._tasks.                          *)
Queries == <<"open", "active">>

ReadsOf(source) ==
  CASE source = "files" -> StepsOf("lock", DirectoryOrder)
                           \o StepsOf("goal", GoalFiles)
                           \o StepsOf("copy", DirectoryOrder)
    [] source = "goal" -> StepsOf("goal", GoalFiles)
    [] source = "git" -> <<Step("status", source)>>
    [] source = "taskplan" -> StepsOf("tasks", Queries)

Program(source) ==
  <<Step("open", source)>> \o ReadsOf(source) \o <<Step("merge", source)>>

(* What becomes of a line of git status: the text before its first slash,  *)
(* or the project's own directory when it has none. A line that tells of a *)
(* rename holds an arrow and both paths: as a rule it counts under the     *)
(* directory it comes from, but a file that leaves the project's own is    *)
(* named by a text with its name, the arrow and where it goes.             *)
Named(c) == IF LeavesRoot(c) THEN <<c.from, c.to>> ELSE <<c.from>>

(* The ProjectState of a source with nothing to say. isFile belongs to the *)
(* search for conflict copies.                                             *)
Nothing == [locks |-> {}, copies |-> {}, goal |-> {}, dirs |-> {},
            tasks |-> {}, isFile |-> FALSE]

(* The checks and the gate look at leftovers and at the worktree, the goal *)
(* reminder has the goal and the tasks, the loop briefing all but copies.  *)
Topics(kind) ==
  CASE kind = "check" -> {"lock", "copy", "dir"}
    [] kind = "goal"  -> {"goal", "task"}
    [] kind = "loop"  -> {"goal", "task", "lock", "dir"}

Kinds == {"check", "goal", "loop"}

Snapshots ==
  [locks: SUBSET LockFiles, copies: SUBSET DOMAIN CanonicalOf,
   goal: {{}} \cup {{g} : g \in GoalNames \X Goals},
   dirs: SUBSET {Named(c) : c \in Changes}, tasks: SUBSET LocalTasks,
   isFile: BOOLEAN]

BriefingTypeOK ==
  /\ project \in ProjectStates
  /\ moves \in 0 .. MaxMoves
  /\ phase \in {"idle", "reading", "done"}
  /\ turn \in 1 .. Len(Order) + 1
  /\ turn \in DOMAIN Order => step \in DOMAIN Program(Order[turn])
  /\ part \in Snapshots /\ snap \in Snapshots
  /\ Cardinality(part.tasks) <= Limit
  /\ failed \subseteq Sources \cup GoalNames \cup Statuses
  /\ shown.kind \in Kinds \cup {"none"}
  /\ held \subseteq seen

BriefingInit ==
  /\ project \in Projects
  /\ moves = 0
  /\ phase = "idle"
  /\ turn = 1
  /\ step = 1
  /\ part = Nothing
  /\ snap = Nothing
  /\ shown = [kind |-> "none", facts |-> {}]
  /\ failed = {}
  /\ seen = {}
  /\ held = {}
  /\ rules = [registry |-> <<>>, candidates |-> {}, places |-> <<>>]

-----------------------------------------------------------------------------
(* The read                                                                *)

BeginsRead ==
  /\ phase = "idle"
  /\ phase' = "reading"
  /\ seen' = Facts(project)
  /\ held' = Facts(project)
  /\ UNCHANGED <<project, moves, readVars, shown, failed, rules>>

Source == Order[turn]
Current == Program(Source)[step]

Reads(read) ==
  phase = "reading" /\ turn \in DOMAIN Order /\ Current.read = read

Done(found) ==
  /\ step' = step + 1
  /\ part' = found
  /\ UNCHANGED <<project, phase, turn, snap, shown, factVars, rules>>

NextSource == turn' = turn + 1 /\ step' = 1

(* A source that is available begins with nothing.                         *)
OpensSource ==
  /\ Reads("open")
  /\ Done(Nothing)
  /\ UNCHANGED failed

(* It is not, or raises: what it found is lost, the next one begins.       *)
SkipsSource ==
  /\ phase = "reading"
  /\ turn \in DOMAIN Order
  /\ Current.read # "merge"
  /\ failed' = failed \cup {Source}
  /\ NextSource
  /\ UNCHANGED <<project, phase, part, snap, shown, factVars, rules>>

SeesLock ==
  /\ Reads("lock")
  /\ Done([part EXCEPT !.locks = @ \cup (project.files \cap {Current.of})])
  /\ UNCHANGED failed

(* A file that has the name of a conflict copy is a file, ...              *)
SeesCopy ==
  /\ Reads("copy")
  /\ ~part.isFile
  /\ Current.of \in DOMAIN CanonicalOf \cap project.files
  /\ part' = [part EXCEPT !.isFile = TRUE]
  /\ UNCHANGED <<project, phase, turn, step, snap, shown, failed, factVars,
                 rules>>

(* ... and then the file it copies exists, or does not.                    *)
SeesOriginal ==
  /\ Reads("copy")
  /\ part.isFile
  /\ Done([part EXCEPT
             !.isFile = FALSE,
             !.copies = IF CanonicalOf[Current.of] \in project.files
                          THEN @ \cup {Current.of} ELSE @])
  /\ UNCHANGED failed

PassesFile ==
  /\ Reads("copy")
  /\ ~part.isFile
  /\ Current.of \notin DOMAIN CanonicalOf \cap project.files
  /\ Done(part)
  /\ UNCHANGED failed

(* The first goal file with a text counts.                                 *)
ReadsGoal ==
  /\ Reads("goal")
  /\ LET text == project.goals[Current.of]
     IN Done([part EXCEPT !.goal = IF @ = {} /\ text # "none"
                                     THEN {<<Current.of, text>>} ELSE @])
  /\ UNCHANGED failed

(* An OSError passes on to the next file.                                  *)
GoalUnreadable ==
  /\ Reads("goal")
  /\ part.goal = {}
  /\ Done(part)
  /\ failed' = failed \cup {Current.of}

ReadsStatus ==
  /\ Reads("status")
  /\ Done([part EXCEPT !.dirs = {Named(c) : c \in project.changes}])
  /\ UNCHANGED failed

(* git status has no answer: available, and clean.                         *)
StatusFails ==
  /\ Reads("status")
  /\ Done(part)
  /\ failed' = failed \cup {"git"}

(* Mutant: the limit is left to the query.                                 *)
TakenAll(rows, batch) == {rows \cup (batch \cap LocalTasks)}

(* Mutant: tasks of other projects are listed.                             *)
TakenGlobal(rows, batch) ==
  LET left == Limit - Cardinality(rows)
  IN IF Cardinality(batch \ rows) <= left
       THEN {rows \cup batch}
       ELSE {rows \cup taken : taken \in kSubset(left, batch \ rows)}

(* The rows with tasks of the project that are not in them yet, up to the  *)
(* limit.                                                                  *)
Taken(rows, batch) ==
  LET new == (batch \cap LocalTasks) \ rows
      left == Limit - Cardinality(rows)
  IN IF Cardinality(new) <= left
       THEN {rows \cup new}
       ELSE {rows \cup taken : taken \in kSubset(left, new)}

(* The client of TASKPLAN returns all tasks with a status. Without one, or *)
(* one that does not know of limits, the facade is asked, which may cut    *)
(* the list before anyone asks what project its tasks are of.              *)
Answers(listed) ==
  {batch \in SUBSET listed :
     batch = listed \/ Cardinality(batch) >= FacadeLimit}

ReadsTasks ==
  /\ Reads("tasks")
  /\ \E batch \in Answers(Listed(project, Current.of)) :
       \E rows \in Taken(part.tasks, batch) :
         Done([part EXCEPT !.tasks = rows])
  /\ UNCHANGED failed

(* With the limit reached there is no second query.                        *)
QueryFails ==
  /\ Reads("tasks")
  /\ Cardinality(part.tasks) < Limit
  /\ Done(part)
  /\ failed' = failed \cup {Current.of}

(* Mutant: a source without a goal takes the goal of another one away.     *)
MergedLastGoal(a, b) ==
  [a EXCEPT !.locks = @ \cup b.locks, !.goal = b.goal,
            !.copies = IF b.copies # {} THEN b.copies ELSE @,
            !.dirs = @ \cup b.dirs, !.tasks = @ \cup b.tasks]

(* The snapshot with one more source in it.                                *)
Merged(a, b) ==
  [a EXCEPT !.locks = @ \cup b.locks,
            !.copies = IF b.copies # {} THEN b.copies ELSE @,
            !.goal = IF b.goal # {} THEN b.goal ELSE @,
            !.dirs = @ \cup b.dirs, !.tasks = @ \cup b.tasks]

MergesSource ==
  /\ Reads("merge")
  /\ NextSource
  /\ snap' = Merged(snap, part)
  /\ UNCHANGED <<project, phase, part, shown, failed, factVars, rules>>

-----------------------------------------------------------------------------
(* What is said of it                                                      *)

Contents(s) ==
  {<<"lock", f>> : f \in s.locks} \cup {<<"copy", f>> : f \in s.copies}
  \cup {<<"goal", g[1], g[2]>> : g \in s.goal}
  \cup {<<"dir", d>> : d \in s.dirs} \cup {<<"task", t>> : t \in s.tasks}

Speaks ==
  /\ phase = "reading"
  /\ turn > Len(Order)
  /\ phase' = "done"
  /\ \E kind \in Kinds :
       shown' = [kind |-> kind,
                 facts |-> {f \in Contents(snap) : f[1] \in Topics(kind)}]
  /\ UNCHANGED <<project, readVars, failed, factVars, rules>>

(* The injectors ask first whether any source is available.                *)
NothingAvailable ==
  /\ phase = "idle"
  /\ phase' = "done"
  /\ failed' = Sources
  /\ UNCHANGED <<project, readVars, shown, factVars, rules>>

(* SessionStart shows rules of the registry that bind the directory.       *)
StartsSession ==
  /\ phase = "idle"
  /\ phase' = "done"
  /\ \E path \in Paths, registry \in Registries :
       LET candidates == CandidateScopes(path)
       IN rules' = [registry |-> registry, candidates |-> candidates,
                    places |-> RulesShown(registry, candidates)]
  /\ UNCHANGED <<project, readVars, shown, failed, factVars>>

-----------------------------------------------------------------------------
(* Meanwhile                                                               *)

(* A task that is taken back from active to open between the two queries   *)
(* is in neither, so it is not counted as one that was there all the time. *)
Moves(p) ==
  /\ phase = "reading"
  /\ moves < MaxMoves
  /\ moves' = moves + 1
  /\ project' = p
  /\ seen' = seen \cup Facts(p)
  /\ held' = (held \cap Facts(p)) \
               {<<"task", t>> : t \in {u \in Tasks :
                  project.tasks[u] = "active" /\ p.tasks[u] = "open"}}
  /\ UNCHANGED <<phase, readVars, shown, failed, rules>>

LockMoves ==
  \E f \in LockFiles :
    Moves([project EXCEPT !.files = IF f \in @ THEN @ \ {f} ELSE @ \cup {f}])

GoalMoves ==
  \E f \in GoalNames : \E text \in GoalTexts \ {project.goals[f]} :
    Moves([project EXCEPT !.goals[f] = text])

WorktreeMoves ==
  \E c \in Changes :
    Moves([project EXCEPT !.changes = IF c \in @ THEN @ \ {c} ELSE @ \cup {c}])

TaskMoves ==
  \E t \in Tasks : \E status \in Statuses \ {project.tasks[t]} :
    Moves([project EXCEPT !.tasks[t] = status])

BriefingNext ==
  \/ BeginsRead
  \/ OpensSource
  \/ SkipsSource
  \/ SeesLock
  \/ SeesCopy
  \/ SeesOriginal
  \/ PassesFile
  \/ ReadsGoal
  \/ GoalUnreadable
  \/ ReadsStatus
  \/ StatusFails
  \/ ReadsTasks
  \/ QueryFails
  \/ MergesSource
  \/ Speaks
  \/ NothingAvailable
  \/ StartsSession
  \/ LockMoves
  \/ GoalMoves
  \/ WorktreeMoves
  \/ TaskMoves

BriefingSpec == BriefingInit /\ [][BriefingNext]_briefingVars

-----------------------------------------------------------------------------
(* Properties                                                              *)

(* A conflict copy is looked for in two steps: it was there at one time    *)
(* of the read, and what it copies at another.                             *)
CopiesSeen ==
  {<<"copy", f>> : f \in {g \in DOMAIN CanonicalOf :
      {<<"lock", g>>, <<"lock", CanonicalOf[g]>>} \subseteq seen}}

(* What a file that left the project's own directory is named by: a text   *)
(* that is no directory at all, though it names the one the file went to.  *)
MovesNamed ==
  {<<"dir", <<c.from, c.to>>>> :
     c \in {d \in Changes : <<"move", <<d.from, d.to>>>> \in seen}}

(* A message says nothing that was not so at some time of the read, and    *)
(* nothing of other projects, but for the text that stands in the place of *)
(* a directory when a file has left the project's own.                     *)
NothingInvented == shown.facts \subseteq seen \cup CopiesSeen \cup MovesNamed

(* The source that has to say it did not fail. A directory is only said    *)
(* when a line begins with it: not for what was moved into it, nor, of the *)
(* project's own, for what was moved out of it.                            *)
Answered(fact) ==
  CASE fact[1] \in {"lock", "copy"} -> "files" \in ToSet(Order) \ failed
    [] fact[1] = "dir" -> /\ "git" \in ToSet(Order) \ failed
                          /\ <<"listed", fact[2]>> \in held
    [] fact[1] = "task" -> /\ "taskplan" \in ToSet(Order) \ failed
                           /\ ToSet(Queries) \cap failed = {}
    [] OTHER -> FALSE

(* A list of tasks, of all projects, was longer than the facade may return.*)
Crowded == \E status \in ToSet(Queries) : <<"crowded", status>> \in seen

(* What was so all through the read is said, whatever moved meanwhile, by  *)
(* every source that did not fail: a failing one takes nothing away from   *)
(* the others, and a task is only left out for other tasks of its project, *)
(* or when so many tasks were listed that it may have been cut off.        *)
NothingLost ==
  \A fact \in held :
    shown.kind # "none" /\ fact[1] \in Topics(shown.kind) /\ Answered(fact) =>
      \/ fact \in shown.facts
      \/ /\ fact[1] = "task"
         /\ \/ Cardinality({f \in shown.facts : f[1] = "task"}) >= Limit
            \/ Crowded

(* A goal that stood all through the read in the first file with a goal is *)
(* the goal of the message, though several sources read it, some fail and  *)
(* other files change.                                                     *)
GoalStands ==
  \A i \in DOMAIN GoalFiles, text \in Goals :
    /\ shown.kind \in {"goal", "loop"}
    /\ <<"goal", GoalFiles[i], text>> \in held
    /\ \A k \in 1 .. i - 1 : <<"goal", GoalFiles[k], "none">> \in held
    /\ GoalFiles[i] \notin failed
    /\ \E s \in {"files", "goal"} : s \in ToSet(Order) \ failed
    => {f \in shown.facts : f[1] = "goal"} = {<<"goal", GoalFiles[i], text>>}

(* How closely an entry binds a scope: as its very own, as one of those    *)
(* below a wildcard, as one below the scope of the entry.                  *)
Binds(entry, closeness, scope) ==
  /\ entry.active /\ ~entry.global
  /\ CASE closeness = 3 -> ~entry.below /\ entry.scope = scope
       [] closeness = 2 -> entry.below /\ \E n \in 0 .. Len(scope) - 1 :
                                           entry.scope = SubSeq(scope, 1, n)
       [] closeness = 1 -> ~entry.below /\ \E n \in 0 .. Len(scope) - 1 :
                                           entry.scope = SubSeq(scope, 1, n)

(* The rules at some places bind a scope, and no rule that is left out or  *)
(* comes later binds one more closely, or as closely from deeper down.     *)
Closest(places, registry, scopes) ==
  LET closeness(i) == {n \in 1 .. 3 : \E c \in scopes :
                                       Binds(registry[i], n, c)}
      closer(i, k) ==
        \E n \in closeness(i) : \A l \in closeness(k) :
          n > l \/ (n = l /\ Len(registry[i].scope) > Len(registry[k].scope))
  IN /\ \A k \in DOMAIN places : closeness(places[k]) # {}
     /\ \A i \in DOMAIN registry : closeness(i) # {} =>
          \/ \E k \in DOMAIN places : places[k] = i
          \/ Len(places) = MaxEntries
     /\ \A k \in DOMAIN places, i \in DOMAIN registry :
          closer(i, places[k]) /\ closeness(i) # {} =>
            \E l \in 1 .. k - 1 : places[l] = i

(* A session is shown the rules that bind its directory most closely.      *)
ClosestRules == Closest(rules.places, rules.registry, rules.candidates)

=============================================================================
