---------------------------- MODULE ActiveChecks ----------------------------
(***************************************************************************)
(* The advisory checks of workflowhooker/checks and the loop of            *)
(* cli._run_active_checks that runs them in their configured order: the    *)
(* first check with something to say speaks and ends the loop, a check     *)
(* that stays silent too often in a row switches itself off.               *)
(***************************************************************************)
EXTENDS Naturals, Sequences

CONSTANTS
  CheckOrder,        \* config.mode.checks
  IdleDisableAfter,  \* config.mode.idle_disable_after
  MaxChangedFiles,   \* threshold of scope_guard
  MaxTouchedDirs     \* threshold of drift_warning

CheckNames == {"closing_gate", "drift_warning", "scope_guard"}

ASSUME ChecksAssumption ==
  /\ CheckOrder \in Seq(CheckNames)
  /\ \A i, j \in DOMAIN CheckOrder : CheckOrder[i] = CheckOrder[j] => i = j
  /\ IdleDisableAfter \in Nat \ {0}
  /\ MaxChangedFiles \in Nat
  /\ MaxTouchedDirs \in Nat

(* What the state sources report of the project: own locks or conflict     *)
(* copies lying about, uncommitted files, top-level directories touched.   *)
ProjectStates(MaxFiles) ==
  {p \in [leftovers: BOOLEAN, files: 0 .. MaxFiles, dirs: 0 .. MaxFiles] :
     p.dirs <= p.files /\ (p.files > 0 => p.dirs > 0)}

Speaks(check, project) ==
  CASE check = "closing_gate"  -> project.leftovers \/ project.files > 0
    [] check = "drift_warning" -> project.dirs > MaxTouchedDirs
    [] check = "scope_guard"   -> project.files > MaxChangedFiles

CheckRuntimes == [idle: Nat, disabled: BOOLEAN]

FreshRuntimes == [c \in CheckNames |-> [idle |-> 0, disabled |-> FALSE]]

(* The position whose check ends the loop: at most one.                    *)
Finds(runtimes, project, i) ==
  ~runtimes[CheckOrder[i]].disabled /\ Speaks(CheckOrder[i], project)

Speaker(runtimes, project) ==
  {i \in DOMAIN CheckOrder :
     /\ Finds(runtimes, project, i)
     /\ \A j \in 1 .. (i - 1) : ~Finds(runtimes, project, j)}

(* The checks asked in vain: enabled, and before the speaker if there is   *)
(* one. Those behind the speaker are not asked at all.                     *)
AskedInVain(runtimes, project) ==
  {CheckOrder[i] : i \in
     {i \in DOMAIN CheckOrder :
        /\ ~runtimes[CheckOrder[i]].disabled
        /\ \A j \in 1 .. i : ~Finds(runtimes, project, j)}}

AfterSilence(runtime) ==
  [idle |-> runtime.idle + 1,
   disabled |-> runtime.idle + 1 >= IdleDisableAfter]

AfterMessage(runtime) == [idle |-> 0, disabled |-> runtime.disabled]

RunChecks(runtimes, project) ==
  LET speakers == {CheckOrder[i] : i \in Speaker(runtimes, project)}
      silent   == AskedInVain(runtimes, project)
  IN  [c \in CheckNames |->
         IF c \in speakers THEN AfterMessage(runtimes[c])
         ELSE IF c \in silent THEN AfterSilence(runtimes[c])
         ELSE runtimes[c]]

=============================================================================
