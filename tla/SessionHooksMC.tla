--------------------------- MODULE SessionHooksMC ---------------------------
(***************************************************************************)
(* Instances of SessionHooks for TLC.                                      *)
(***************************************************************************)
EXTENDS SessionHooks, TLC

Lock(kind, identity, operations) ==
  [kind |-> kind, identity |-> identity, mode |-> "hard",
   operations |-> operations]

View(records) ==
  [evidence |-> IF records = {} THEN "clean" ELSE "finding",
   records |-> records]

OwnLock == Lock("scoped", "own", {})

(* The session's own lock, or nothing at all.                              *)
OwnOrNothing == {View({}), View({OwnLock})}

(* Own work is always there to be finished.                                *)
AlwaysOwn == {View({OwnLock})}

(* One snapshot for each way a lock counts, and a mixed one.               *)
EveryView ==
  {View({}),
   View({OwnLock}),
   View({Lock("user", "own", {})}),
   View({Lock("root", "foreign", {})}),
   View({Lock("team", "incomplete", {})}),
   View({Lock("scoped", "own", {"commit"})}),
   View({OwnLock, Lock("ticket", "foreign", {})}),
   [evidence |-> "unknown", records |-> {}]}

NoProjects == {[leftovers |-> FALSE, files |-> 0, dirs |-> 0]}

SmallProjects == ProjectStates(2)

NoChecks == <<>>

ThreeChecks == <<"closing_gate", "scope_guard", "drift_warning">>

Symmetry == Permutations(Stops) \cup Permutations(Advisories)
              \cup Permutations(Keys)

=============================================================================
