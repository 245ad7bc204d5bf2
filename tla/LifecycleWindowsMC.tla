------------------------- MODULE LifecycleWindowsMC -------------------------
(***************************************************************************)
(* The instance of LifecycleWindows for TLC.                               *)
(***************************************************************************)
EXTENDS LifecycleWindows, TLC

CONSTANT a1

Event(kind, boundary) == [kind |-> kind, boundary |-> boundary, anchor |-> a1]

(* A goal, the end of the session, which may overtake it, and a compaction *)
(* of the one transcript they all name.                                    *)
Boundaries ==
  {Event("GoalComplete", "goal"),
   Event("SessionEnd", "session-end"),
   Event("PreCompact", "none")}

(* Bound: rewrites, deaths, repeated deliveries and pruned jobs, together. *)
FewTroubles ==
  edition[a1] + aborts + repeats + Cardinality(windows \ jobs) <= 2

Symmetry == Permutations(Hooks)

=============================================================================
