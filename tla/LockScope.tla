----------------------------- MODULE LockScope -----------------------------
(***************************************************************************)
(* Where workflowhooker/locks.py looks for the locks of a target. A path   *)
(* is the sequence of its names from the file-system root down. The        *)
(* project may be a Git worktree, whose locks stand in the worktree and in *)
(* its main clone.                                                         *)
(***************************************************************************)
EXTENDS Sequences, Naturals, FiniteSets

SeqExt == INSTANCE SequencesExt

CONSTANTS
  ProjectRoot,  \* canonical_project_root of the call
  MainRoot,     \* the main clone of a worktree; ProjectRoot if it is none
  Directories   \* the paths that are directories

(* The scope of a lock that is about the whole project.                    *)
WholeProject == "project"

ASSUME RootsAssumption ==
  /\ ProjectRoot \in Seq(STRING)
  /\ MainRoot \in Seq(STRING)
  /\ {ProjectRoot, MainRoot} \subseteq Directories

Inside(path, root) == SeqExt!IsPrefix(root, path)

Below(path, root) == SubSeq(path, Len(root) + 1, Len(path))

(* The target as the main clone names it.                                  *)
Mapped(target) ==
  IF Inside(target, ProjectRoot)
    THEN MainRoot \o Below(target, ProjectRoot)
    ELSE MainRoot

(* The directories of a path, itself included if it is one, up to a root;  *)
(* or the root alone.                                                      *)
AncestorsToRoot(path, root) ==
  LET depth == IF path \in Directories THEN Len(path) ELSE Len(path) - 1
  IN  IF Inside(path, root)
        THEN [i \in 1 .. depth - Len(root) + 1 |-> SubSeq(path, 1, depth - i + 1)]
        ELSE <<root>>

Parents(root) == [i \in 1 .. Len(root) |-> SubSeq(root, 1, Len(root) - i)]

(* In the order in which they are looked at, each of them once: what the   *)
(* clone's directories share with the project's are the last ones.         *)
RelevantDirs(target) ==
  LET here  == AncestorsToRoot(target, ProjectRoot) \o Parents(ProjectRoot)
      there == AncestorsToRoot(Mapped(target), MainRoot) \o Parents(MainRoot)
      own   == {i \in DOMAIN there : there[i] \notin SeqExt!ToSet(here)}
  IN  here \o SubSeq(there, 1, Cardinality(own))

FirstName(path, dir) ==
  IF Inside(path, dir) /\ path # dir THEN Below(path, dir)[1] ELSE ""

(* Mutant: the main clone's names of a target are not looked at.           *)
InScopeAsNamed(name, target) ==
  \/ target = ProjectRoot
  \/ name.scope = WholeProject
  \/ name.scope = FirstName(target, name.dir)

(* A scoped lock is about the entry of that name in its own directory. The *)
(* target counts as it is if it lies there at all, and mapped if not. All  *)
(* locks are about the project as a target.                                *)
InScope(name, target) ==
  \/ target = ProjectRoot
  \/ name.scope = WholeProject
  \/ name.scope = FirstName(IF Inside(target, name.dir) THEN target
                                                        ELSE Mapped(target),
                            name.dir)

=============================================================================
