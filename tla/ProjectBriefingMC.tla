------------------------- MODULE ProjectBriefingMC -------------------------
(***************************************************************************)
(* Instances of ProjectBriefing for TLC.                                   *)
(***************************************************************************)
EXTENDS ProjectBriefing, TLC

CONSTANTS t1, t2, t3, t4

SourceOrder == <<"files", "git", "taskplan", "goal">>

Directory == <<"LOCK-host.txt", "LOCK.txt">>

CopyOf == "LOCK-host.txt" :> "LOCK.txt"

DefaultGoalFiles == <<"AUFGABEN.txt", "GOAL.md">>

(* A change within a directory, a rename into another one, and one out of  *)
(* the project's own.                                                      *)
WorktreeChanges ==
  {[from |-> "a", to |-> "a"], [from |-> "b", to |-> "a"],
   [from |-> ".", to |-> "a"]}

Project(files, first, second, changes, open, active) ==
  [files |-> files,
   goals |-> ("AUFGABEN.txt" :> first) @@ ("GOAL.md" :> second),
   changes |-> changes,
   tasks |-> [t \in Tasks |-> IF t \in open THEN "open"
                              ELSE IF t \in active THEN "active" ELSE "closed"]]

(* One with everything, and one with a copy of nothing and more open tasks *)
(* than the facade returns.                                                *)
SomeProjects ==
  {Project({"LOCK-host.txt", "LOCK.txt"}, "g1", "g2", WorktreeChanges,
           {t1, t4}, {t2}),
   Project({"LOCK-host.txt"}, "none", "g2", {}, {t1, t2, t4}, {t3})}

Rule(scope, below) ==
  [scope |-> scope, below |-> below, global |-> FALSE, active |-> TRUE]

Rules ==
  {Rule(<<"x">>, FALSE), Rule(<<"x">>, TRUE), Rule(<<"x", "y">>, FALSE),
   Rule(<<"x", "y">>, TRUE), Rule(<<"y">>, FALSE),
   [Rule(<<"x">>, FALSE) EXCEPT !.active = FALSE],
   [Rule(<<>>, FALSE) EXCEPT !.global = TRUE]}

RuleLists == [1 .. 3 -> Rules] \cup [1 .. 1 -> Rules]

(* A scope, a repository, one within the other, and neither.               *)
SessionPaths ==
  {<<"w", ".TOPICS", "x", "y">>,
   <<"w", "_Local_DEV", "repos", "x", "y">>,
   <<".TOPICS", "x", "_Local_DEV", "repos", "x">>,
   <<".TOPICS", "x", "y", "z">>,
   <<"w", ".TOPICS">>,
   <<"_Local_DEV", "repos">>}

=============================================================================
