------------------------ MODULE ProjectBriefingProofs ------------------------
(***************************************************************************)
(* Proofs that what a session is told of its project was so at some time   *)
(* of the read, that what was so all through the read is not lost, and     *)
(* that the rules shown at its start are the closest ones.                 *)
(***************************************************************************)
EXTENDS ProjectBriefing, FiniteSetTheorems, SequenceTheorems, TLAPS

-----------------------------------------------------------------------------
(* The inductive invariant                                                 *)

(* How many steps of a Program come before those that read goal files, and *)
(* before those that look for conflict copies.                             *)
BeforeGoals(source) == IF source = "files" THEN Len(DirectoryOrder) + 1 ELSE 1
BeforeCopies == Len(DirectoryOrder) + Len(GoalFiles) + 1

(* In the next definitions s is a snapshot, h holds facts that were so all *)
(* through the read, and f what failed.                                    *)

(* The first goal file with a goal holds this one.                         *)
GoalHolds(i, text, h, f) ==
  /\ <<"goal", GoalFiles[i], text>> \in h
  /\ \A k \in 1 .. i - 1 : <<"goal", GoalFiles[k], "none">> \in h
  /\ GoalFiles[i] \notin f

LocksFound(s, n, h) ==
  \A i \in DOMAIN DirectoryOrder :
    i < n /\ <<"lock", DirectoryOrder[i]>> \in h
    => DirectoryOrder[i] \in s.locks

CopiesFound(s, n, h) ==
  \A i \in DOMAIN DirectoryOrder :
    i < n /\ <<"copy", DirectoryOrder[i]>> \in h
    => DirectoryOrder[i] \in s.copies

GoalsFound(s, n, h, f) ==
  \A i \in DOMAIN GoalFiles, text \in Goals :
    i < n /\ GoalHolds(i, text, h, f) => s.goal = {<<GoalFiles[i], text>>}

(* A goal that was found was not there for want of a file before it.       *)
GoalsLeft(s, n, h) ==
  s.goal # {} => \E i \in DOMAIN GoalFiles :
                   i < n /\ <<"goal", GoalFiles[i], "none">> \notin h

DirsFound(s, h, f) ==
  "git" \notin f =>
    \A c \in Changes : <<"listed", <<c.from>>>> \in h => <<c.from>> \in s.dirs

(* A task was found, or there was no room for it, or the query for it is   *)
(* still to come.                                                          *)
TasksFound(s, queries, left, h, f) ==
  queries \cap f = {} =>
    \A t \in LocalTasks :
      <<"task", t>> \in h =>
        t \in s.tasks \/ Cardinality(s.tasks) >= Limit \/ t \in left

ActiveTasks(p) == {t \in LocalTasks : p.tasks[t] = "active"}

(* What a source has found after k - 1 steps of its program.               *)
PartFound(s, source, k, h, f, active) ==
  /\ source = "files" => /\ LocksFound(s, k - 1, h)
                         /\ CopiesFound(s, k - BeforeCopies, h)
  /\ source # "files" => s.copies = {}
  /\ source \in {"files", "goal"} =>
       /\ GoalsFound(s, k - BeforeGoals(source), h, f)
       /\ GoalsLeft(s, k - BeforeGoals(source), h)
  /\ source \notin {"files", "goal"} => s.goal = {}
  /\ source = "git" /\ k > 2 => DirsFound(s, h, f)
  /\ source = "taskplan" /\ k = 3 => TasksFound(s, {"open"}, active, h, f)
  /\ source = "taskplan" /\ k > 3 => TasksFound(s, {"open", "active"}, {}, h, f)

(* The file that may be a conflict copy was there.                         *)
FileSeen ==
  part.isFile => /\ Current.read = "copy"
                 /\ Current.of \in DOMAIN CanonicalOf
                 /\ <<"lock", Current.of>> \in seen

(* All that a source has to say is in a snapshot.                          *)
Complete(s, source, h, f) ==
  /\ source = "files" => /\ LocksFound(s, Len(DirectoryOrder) + 1, h)
                         /\ CopiesFound(s, Len(DirectoryOrder) + 1, h)
  /\ source \in {"files", "goal"} => GoalsFound(s, Len(GoalFiles) + 1, h, f)
  /\ source = "git" => DirsFound(s, h, f)
  /\ source = "taskplan" => TasksFound(s, {"open", "active"}, {}, h, f)

AllComplete(s, n, h, f) ==
  \A m \in DOMAIN Order :
    m < n /\ Order[m] \notin f => Complete(s, Order[m], h, f)

(* What may be said: each of it was so at some time of the read.           *)
Seen == seen \cup CopiesSeen \cup MovesNamed

(* What was so all through the read, but for tasks once a list of them was *)
(* so long that the facade may have cut it.                                *)
Stood == held \ IF Crowded THEN {<<"task", t>> : t \in LocalTasks} ELSE {}

ReadInv ==
  /\ held \subseteq Facts(project)
  /\ Facts(project) \subseteq seen
  /\ Contents(part) \subseteq Seen /\ Contents(snap) \subseteq Seen
  /\ AllComplete(snap, turn, Stood, failed)
  /\ turn \in DOMAIN Order /\ step > 1 =>
       /\ PartFound(part, Source, step, Stood, failed, ActiveTasks(project))
       /\ FileSeen

BriefingInv ==
  /\ BriefingTypeOK
  /\ phase = "idle" => turn = 1 /\ step = 1 /\ part = Nothing /\ snap = Nothing
  /\ phase # "done" => /\ shown = [kind |-> "none", facts |-> {}]
                       /\ rules.registry = <<>> /\ rules.places = <<>>
  /\ phase = "reading" => ReadInv
  /\ NothingInvented /\ NothingLost /\ GoalStands /\ ClosestRules

-----------------------------------------------------------------------------
(* The steps of a source                                                   *)

LEMMA Constants ==
  /\ Order \in Seq(Sources) /\ Len(Order) \in Nat
  /\ DOMAIN Order = 1 .. Len(Order)
  /\ Len(DirectoryOrder) \in Nat /\ Len(GoalFiles) \in Nat
  /\ DirectoryOrder \in Seq(LockFiles) /\ GoalFiles \in Seq(GoalNames)
  /\ DOMAIN DirectoryOrder = 1 .. Len(DirectoryOrder)
  /\ DOMAIN GoalFiles = 1 .. Len(GoalFiles)
  /\ \A i \in DOMAIN DirectoryOrder : DirectoryOrder[i] \in LockFiles
  /\ \A i \in DOMAIN GoalFiles : GoalFiles[i] \in GoalNames
BY BriefingAssumption

(* A file that exists is somewhere in the directory.                       *)
LEMMA LockFileListed ==
  \A f \in LockFiles : \E i \in DOMAIN DirectoryOrder : f = DirectoryOrder[i]
BY DEF LockFiles, ToSet

ReadKinds ==
  {"open", "lock", "goal", "copy", "status", "tasks", "merge"}

AnyStep == [read: ReadKinds,
            of: LockFiles \cup GoalNames \cup Sources \cup Statuses]

LEMMA StepsOfLists ==
  ASSUME NEW read \in ReadKinds, NEW S, NEW names \in Seq(S),
         S \subseteq LockFiles \cup GoalNames \cup Sources \cup Statuses
  PROVE  /\ StepsOf(read, names) \in Seq(AnyStep)
         /\ Len(StepsOf(read, names)) = Len(names)
         /\ \A i \in 1 .. Len(names) :
              StepsOf(read, names)[i] = Step(read, names[i])
<1>1. DOMAIN names = 1 .. Len(names) /\ Len(names) \in Nat
      /\ \A i \in 1 .. Len(names) : names[i] \in S
  OBVIOUS
<1>2. \A i \in 1 .. Len(names) : Step(read, names[i]) \in AnyStep
  BY <1>1 DEF Step, AnyStep
<1>3. /\ DOMAIN StepsOf(read, names) = 1 .. Len(names)
      /\ \A i \in 1 .. Len(names) :
           StepsOf(read, names)[i] = Step(read, names[i])
  BY <1>1 DEF StepsOf
<1>4. StepsOf(read, names) \in [1 .. Len(names) -> AnyStep]
  BY <1>1, <1>2 DEF StepsOf
<1>5. StepsOf(read, names) \in Seq(AnyStep)
  BY <1>1, <1>4, SeqDef
<1> QED BY <1>1, <1>3, <1>5, LenProperties

(* A program begins with the question whether the source is available and  *)
(* ends with the merge; the reads are in between.                          *)
LEMMA ProgramShape ==
  ASSUME NEW source \in Sources, ReadsOf(source) \in Seq(AnyStep)
  PROVE  LET reads == ReadsOf(source)
         IN /\ Program(source) \in Seq(AnyStep)
            /\ Len(Program(source)) = Len(reads) + 2
            /\ Program(source)[1] = Step("open", source)
            /\ \A k \in 1 .. Len(reads) : Program(source)[k + 1] = reads[k]
            /\ Program(source)[Len(reads) + 2] = Step("merge", source)
<1> DEFINE reads == ReadsOf(source)
<1> HIDE DEF reads
<1>0. reads \in Seq(AnyStep)
  BY DEF reads
<1>1. Step("open", source) \in AnyStep /\ Step("merge", source) \in AnyStep
  BY DEF Step, AnyStep, ReadKinds
<1>2. <<Step("open", source)>> \in Seq(AnyStep)
      /\ <<Step("merge", source)>> \in Seq(AnyStep)
  BY <1>1
<1> DEFINE front == <<Step("open", source)>> \o reads
<1>3. /\ front \in Seq(AnyStep)
      /\ Len(front) = Len(reads) + 1
      /\ front[1] = Step("open", source)
      /\ \A k \in 1 .. Len(reads) : front[k + 1] = reads[k]
  BY <1>0, <1>2
<1> HIDE DEF front
<1>4. /\ front \o <<Step("merge", source)>> \in Seq(AnyStep)
      /\ Len(front \o <<Step("merge", source)>>) = Len(front) + 1
      /\ \A k \in 1 .. Len(front) :
           (front \o <<Step("merge", source)>>)[k] = front[k]
      /\ (front \o <<Step("merge", source)>>)[Len(front) + 1]
           = Step("merge", source)
  BY <1>2, <1>3
<1>5. Program(source) = front \o <<Step("merge", source)>>
  BY DEF Program, front, reads
<1> QED BY <1>0, <1>3, <1>4, <1>5 DEF reads


LEMMA FilesProgram ==
  LET P == Program("files")
      D == Len(DirectoryOrder)
      G == Len(GoalFiles)
  IN /\ Len(P) = 2 * D + G + 2 /\ DOMAIN P = 1 .. 2 * D + G + 2
     /\ P[1] = Step("open", "files")
     /\ \A i \in 1 .. D : P[1 + i] = Step("lock", DirectoryOrder[i])
     /\ \A i \in 1 .. G : P[1 + D + i] = Step("goal", GoalFiles[i])
     /\ \A i \in 1 .. D : P[1 + D + G + i] = Step("copy", DirectoryOrder[i])
     /\ P[2 * D + G + 2] = Step("merge", "files")
<1> DEFINE L == StepsOf("lock", DirectoryOrder)
           M == StepsOf("goal", GoalFiles)
           C == StepsOf("copy", DirectoryOrder)
           D == Len(DirectoryOrder)
           G == Len(GoalFiles)
<1>1. D \in Nat /\ G \in Nat
  BY Constants
<1>2. /\ L \in Seq(AnyStep) /\ Len(L) = D
      /\ \A i \in 1 .. D : L[i] = Step("lock", DirectoryOrder[i])
  BY StepsOfLists, Constants DEF ReadKinds
<1>3. /\ M \in Seq(AnyStep) /\ Len(M) = G
      /\ \A i \in 1 .. G : M[i] = Step("goal", GoalFiles[i])
  BY StepsOfLists, Constants DEF ReadKinds
<1>4. /\ C \in Seq(AnyStep) /\ Len(C) = D
      /\ \A i \in 1 .. D : C[i] = Step("copy", DirectoryOrder[i])
  BY StepsOfLists, Constants DEF ReadKinds
<1>5. ReadsOf("files") = L \o M \o C
  BY DEF ReadsOf
<1> HIDE DEF L, M, C
<1>6. /\ L \o M \in Seq(AnyStep) /\ Len(L \o M) = D + G
      /\ \A i \in 1 .. D : (L \o M)[i] = L[i]
      /\ \A i \in 1 .. G : (L \o M)[D + i] = M[i]
  BY <1>1, <1>2, <1>3
<1>7. /\ L \o M \o C \in Seq(AnyStep) /\ Len(L \o M \o C) = 2 * D + G
      /\ \A i \in 1 .. D + G : (L \o M \o C)[i] = (L \o M)[i]
      /\ \A i \in 1 .. D : (L \o M \o C)[D + G + i] = C[i]
  <2> DEFINE LM == L \o M
  <2>1. LM \in Seq(AnyStep) /\ Len(LM) = D + G
    BY <1>6
  <2> HIDE DEF LM
  <2>2. /\ LM \o C \in Seq(AnyStep) /\ Len(LM \o C) = 2 * D + G
        /\ \A i \in 1 .. D + G : (LM \o C)[i] = LM[i]
        /\ \A i \in 1 .. D : (LM \o C)[D + G + i] = C[i]
    BY <1>1, <1>4, <2>1
  <2> QED BY <2>2 DEF LM
<1> HIDE DEF D, G
<1> DEFINE P == Program("files")
           reads == L \o M \o C
<1>8. /\ P \in Seq(AnyStep) /\ Len(P) = 2 * D + G + 2
      /\ P[1] = Step("open", "files")
      /\ \A k \in 1 .. 2 * D + G : P[k + 1] = reads[k]
      /\ P[2 * D + G + 2] = Step("merge", "files")
  BY <1>1, <1>5, <1>7, ProgramShape DEF Sources
<1> HIDE DEF P, reads
<1>9. /\ \A i \in 1 .. D : reads[i] = L[i]
      /\ \A i \in 1 .. G : reads[D + i] = M[i]
      /\ \A i \in 1 .. D : reads[D + G + i] = C[i]
  BY <1>1, <1>6, <1>7 DEF reads
<1>10. \A i \in 1 .. D : P[1 + i] = L[i]
  BY <1>1, <1>8, <1>9
<1>11. \A i \in 1 .. G : P[1 + D + i] = M[i]
  BY <1>1, <1>8, <1>9
<1>12. \A i \in 1 .. D : P[1 + D + G + i] = C[i]
  BY <1>1, <1>8, <1>9
<1>13. DOMAIN P = 1 .. 2 * D + G + 2
  BY <1>1, <1>8
<1> QED BY <1>2, <1>3, <1>4, <1>8, <1>10, <1>11, <1>12, <1>13 DEF P, D, G

LEMMA GoalProgram ==
  LET P == Program("goal")
      G == Len(GoalFiles)
  IN /\ Len(P) = G + 2 /\ DOMAIN P = 1 .. G + 2
     /\ P[1] = Step("open", "goal")
     /\ \A i \in 1 .. G : P[1 + i] = Step("goal", GoalFiles[i])
     /\ P[G + 2] = Step("merge", "goal")
<1> DEFINE M == StepsOf("goal", GoalFiles)
           G == Len(GoalFiles)
           P == Program("goal")
<1>1. /\ M \in Seq(AnyStep) /\ Len(M) = G /\ G \in Nat
      /\ \A i \in 1 .. G : M[i] = Step("goal", GoalFiles[i])
  BY StepsOfLists, Constants DEF ReadKinds
<1>2. ReadsOf("goal") = M
  BY DEF ReadsOf
<1> HIDE DEF M
<1>3. /\ P \in Seq(AnyStep) /\ Len(P) = G + 2
      /\ P[1] = Step("open", "goal")
      /\ \A k \in 1 .. G : P[k + 1] = M[k]
      /\ P[G + 2] = Step("merge", "goal")
  BY <1>1, <1>2, ProgramShape DEF Sources
<1> HIDE DEF P, G
<1>4. \A i \in 1 .. G : P[1 + i] = M[i]
  BY <1>1, <1>3
<1>5. DOMAIN P = 1 .. G + 2
  BY <1>1, <1>3
<1> QED BY <1>1, <1>3, <1>4, <1>5 DEF P, G

LEMMA GitProgram ==
  LET P == Program("git")
  IN /\ Len(P) = 3 /\ DOMAIN P = 1 .. 3
     /\ P[1] = Step("open", "git")
     /\ P[2] = Step("status", "git")
     /\ P[3] = Step("merge", "git")
<1> DEFINE R == <<Step("status", "git")>>
           P == Program("git")
<1>1. /\ R \in Seq(AnyStep) /\ Len(R) = 1 /\ R[1] = Step("status", "git")
  BY DEF Step, AnyStep, ReadKinds, Sources
<1>2. ReadsOf("git") = R
  BY DEF ReadsOf
<1> HIDE DEF R
<1>3. /\ P \in Seq(AnyStep) /\ Len(P) = 3
      /\ P[1] = Step("open", "git")
      /\ \A k \in 1 .. 1 : P[k + 1] = R[k]
      /\ P[3] = Step("merge", "git")
  <2>1. /\ P \in Seq(AnyStep) /\ Len(P) = Len(R) + 2
        /\ P[1] = Step("open", "git")
        /\ \A k \in 1 .. Len(R) : P[k + 1] = R[k]
        /\ P[Len(R) + 2] = Step("merge", "git")
    BY <1>1, <1>2, ProgramShape DEF Sources
  <2> QED BY <2>1, <1>1
<1> HIDE DEF P
<1> QED BY <1>1, <1>3 DEF P

LEMMA TasksProgram ==
  LET P == Program("taskplan")
  IN /\ Len(P) = 4 /\ DOMAIN P = 1 .. 4
     /\ P[1] = Step("open", "taskplan")
     /\ P[2] = Step("tasks", "open")
     /\ P[3] = Step("tasks", "active")
     /\ P[4] = Step("merge", "taskplan")
<1> DEFINE R == StepsOf("tasks", Queries)
           P == Program("taskplan")
<1>1. Queries \in Seq(Statuses) /\ Len(Queries) = 2
      /\ Queries[1] = "open" /\ Queries[2] = "active"
  BY DEF Queries, Statuses
<1>2. /\ R \in Seq(AnyStep) /\ Len(R) = 2
      /\ \A i \in 1 .. 2 : R[i] = Step("tasks", Queries[i])
  BY <1>1, StepsOfLists DEF ReadKinds
<1>3. ReadsOf("taskplan") = R
  BY DEF ReadsOf
<1> HIDE DEF R
<1>4. /\ P \in Seq(AnyStep) /\ Len(P) = 4
      /\ P[1] = Step("open", "taskplan")
      /\ \A k \in 1 .. 2 : P[k + 1] = R[k]
      /\ P[4] = Step("merge", "taskplan")
  <2>1. /\ P \in Seq(AnyStep) /\ Len(P) = Len(R) + 2
        /\ P[1] = Step("open", "taskplan")
        /\ \A k \in 1 .. Len(R) : P[k + 1] = R[k]
        /\ P[Len(R) + 2] = Step("merge", "taskplan")
    BY <1>2, <1>3, ProgramShape DEF Sources
  <2> QED BY <2>1, <1>2
<1> HIDE DEF P
<1>5. P[2] = R[1] /\ P[3] = R[2]
  BY <1>4
<1> QED BY <1>1, <1>2, <1>4, <1>5 DEF P

(* Where in a program each kind of read is, and what it is of.             *)
LEMMA ReadsWhere ==
  ASSUME NEW source \in Sources, NEW k \in DOMAIN Program(source)
  PROVE  LET P == Program(source)
             at == P[k]
         IN /\ k \in Nat \ {0} /\ 1 \in DOMAIN P
            /\ at.read # "merge" => k + 1 \in DOMAIN P
            /\ at.read = "open" <=> k = 1
            /\ at.read = "merge" =>
                 /\ source = "files" => k > BeforeCopies + Len(DirectoryOrder)
                 /\ source \in {"files", "goal"} =>
                      k > BeforeGoals(source) + Len(GoalFiles)
                 /\ source = "git" => k = 3
                 /\ source = "taskplan" => k = 4
            /\ at.read = "lock" =>
                 /\ source = "files" /\ k <= BeforeGoals(source)
                 /\ k - 1 \in DOMAIN DirectoryOrder
                 /\ at.of = DirectoryOrder[k - 1]
            /\ at.read = "goal" =>
                 /\ source \in {"files", "goal"}
                 /\ source = "files" => k <= BeforeCopies
                 /\ k - BeforeGoals(source) \in DOMAIN GoalFiles
                 /\ at.of = GoalFiles[k - BeforeGoals(source)]
            /\ at.read = "copy" =>
                 /\ source = "files"
                 /\ k - BeforeCopies \in DOMAIN DirectoryOrder
                 /\ at.of = DirectoryOrder[k - BeforeCopies]
            /\ at.read = "status" => source = "git" /\ k = 2
            /\ at.read = "tasks" => /\ source = "taskplan"
                                    /\ \/ k = 2 /\ at.of = "open"
                                       \/ k = 3 /\ at.of = "active"
<1> DEFINE P == Program(source)
           D == Len(DirectoryOrder)
           G == Len(GoalFiles)
<1>0. /\ D \in Nat /\ G \in Nat
      /\ DOMAIN DirectoryOrder = 1 .. D /\ DOMAIN GoalFiles = 1 .. G
  BY Constants
<1> HIDE DEF P, D, G
<1>1. CASE source = "files"
  <2>1. /\ DOMAIN P = 1 .. 2 * D + G + 2
        /\ P[1] = Step("open", "files")
        /\ \A i \in 1 .. D : P[1 + i] = Step("lock", DirectoryOrder[i])
        /\ \A i \in 1 .. G : P[1 + D + i] = Step("goal", GoalFiles[i])
        /\ \A i \in 1 .. D : P[1 + D + G + i] = Step("copy", DirectoryOrder[i])
        /\ P[2 * D + G + 2] = Step("merge", "files")
    BY <1>1, FilesProgram DEF P, D, G
  <2>2. k \in 1 .. 2 * D + G + 2
    BY <2>1 DEF P
  <2>3. BeforeGoals(source) = D + 1 /\ BeforeCopies = D + G + 1
    BY <1>1 DEF BeforeGoals, BeforeCopies, D, G
  <2>4. CASE k = 1
    BY <1>0, <1>1, <2>1, <2>4 DEF Step, P
  <2>5. CASE k - 1 \in 1 .. D
    <3>1. P[k] = Step("lock", DirectoryOrder[k - 1])
      <4>1. 1 + (k - 1) = k
        BY <2>2
      <4> QED BY <2>1, <2>5, <4>1
    <3> QED BY <1>0, <1>1, <2>1, <2>2, <2>3, <2>5, <3>1 DEF Step, P
  <2>6. CASE k - (D + 1) \in 1 .. G
    <3>1. P[k] = Step("goal", GoalFiles[k - (D + 1)])
      <4>1. 1 + D + (k - (D + 1)) = k
        BY <1>0, <2>2
      <4> QED BY <2>1, <2>6, <4>1
    <3> QED BY <1>0, <1>1, <2>1, <2>2, <2>3, <2>6, <3>1 DEF Step, P
  <2>7. CASE k - (D + G + 1) \in 1 .. D
    <3>1. P[k] = Step("copy", DirectoryOrder[k - (D + G + 1)])
      <4>1. 1 + D + G + (k - (D + G + 1)) = k
        BY <1>0, <2>2
      <4> QED BY <2>1, <2>7, <4>1
    <3> QED BY <1>0, <1>1, <2>1, <2>2, <2>3, <2>7, <3>1 DEF Step, P
  <2>8. CASE k = 2 * D + G + 2
    BY <1>0, <1>1, <2>1, <2>3, <2>8 DEF Step, P, D, G
  <2> QED BY <1>0, <2>2, <2>4, <2>5, <2>6, <2>7, <2>8
<1>2. CASE source = "goal"
  <2>1. /\ DOMAIN P = 1 .. G + 2
        /\ P[1] = Step("open", "goal")
        /\ \A i \in 1 .. G : P[1 + i] = Step("goal", GoalFiles[i])
        /\ P[G + 2] = Step("merge", "goal")
    BY <1>2, GoalProgram DEF P, G
  <2>2. k \in 1 .. G + 2
    BY <2>1 DEF P
  <2>3. BeforeGoals(source) = 1
    BY <1>2 DEF BeforeGoals
  <2>4. CASE k = 1
    BY <1>0, <1>2, <2>1, <2>4 DEF Step, P
  <2>5. CASE k - 1 \in 1 .. G
    <3>1. P[k] = Step("goal", GoalFiles[k - 1])
      <4>1. 1 + (k - 1) = k
        BY <2>2
      <4> QED BY <2>1, <2>5, <4>1
    <3> QED BY <1>0, <1>2, <2>1, <2>2, <2>3, <2>5, <3>1 DEF Step, P
  <2>6. CASE k = G + 2
    BY <1>0, <1>2, <2>1, <2>3, <2>6 DEF Step, P, G
  <2> QED BY <1>0, <2>2, <2>4, <2>5, <2>6
<1>3. CASE source = "git"
  BY <1>3, GitProgram DEF Step
<1>4. CASE source = "taskplan"
  BY <1>4, TasksProgram DEF Step
<1> QED BY <1>1, <1>2, <1>3, <1>4 DEF Sources

-----------------------------------------------------------------------------
(* Facts and what is said                                                  *)

LEMMA FactForms ==
  ASSUME NEW p
  PROVE  /\ \A f : <<"lock", f>> \in Facts(p) <=> f \in p.files
         /\ \A f : <<"copy", f>> \in Facts(p) <=>
                     /\ f \in p.files /\ f \in DOMAIN CanonicalOf
                     /\ CanonicalOf[f] \in p.files
         /\ \A f, text : <<"goal", f, text>> \in Facts(p) <=>
                           f \in GoalNames /\ text = p.goals[f]
         /\ \A d : <<"listed", <<d>>>> \in Facts(p) =>
                    \E c \in p.changes : d = c.from /\ ~LeavesRoot(c)
         /\ \A q \in {"open", "active"} :
              Cardinality(Listed(p, q)) > FacadeLimit
              => <<"crowded", q>> \in Facts(p)
         /\ \A t : <<"task", t>> \in Facts(p) <=>
                     t \in LocalTasks /\ p.tasks[t] # "closed"
BY DEF Facts

(* Of what was so all through the read, only tasks may be left aside.      *)
LEMMA StoodFacts ==
  /\ \A f, text : <<"goal", f, text>> \in held => <<"goal", f, text>> \in Stood
  /\ \A t : <<"task", t>> \in held => <<"task", t>> \in Stood \/ Crowded
BY DEF Stood

LEMMA ContentForms ==
  ASSUME NEW s
  PROVE  /\ \A f : <<"lock", f>> \in Contents(s) <=> f \in s.locks
         /\ \A f : <<"copy", f>> \in Contents(s) <=> f \in s.copies
         /\ \A f, text :
              <<"goal", f, text>> \in Contents(s) <=>
                \E g \in s.goal : f = g[1] /\ text = g[2]
         /\ \A d : <<"dir", d>> \in Contents(s) <=> d \in s.dirs
         /\ \A t : <<"task", t>> \in Contents(s) <=> t \in s.tasks
BY DEF Contents

-----------------------------------------------------------------------------
(* Types                                                                   *)

LEMMA ProgramBegins == \A source \in Sources : 1 \in DOMAIN Program(source)
BY FilesProgram, GoalProgram, GitProgram, TasksProgram, Constants DEF Sources

LEMMA Position ==
  ASSUME BriefingTypeOK, turn \in DOMAIN Order
  PROVE  /\ Source \in Sources /\ step \in DOMAIN Program(Source)
         /\ step \in Nat \ {0} /\ turn \in Nat \ {0} /\ turn <= Len(Order)
<1>1. Source \in Sources /\ step \in DOMAIN Program(Source)
  BY Constants, ElementOfSeq DEF BriefingTypeOK, Source
<1> QED BY <1>1, Constants, ReadsWhere

(* Within the bounds of type correctness the program counter may go to the *)
(* next step of a program that is not at its end, or to the next source.   *)
LEMMA CounterStep ==
  ASSUME BriefingTypeOK, turn \in DOMAIN Order
  PROVE  /\ /\ Current.read # "merge" /\ step' = step + 1 /\ turn' = turn
            /\ turn' \in DOMAIN Order
            => step' \in DOMAIN Program(Order[turn'])
         /\ NextSource =>
              /\ turn' \in 1 .. Len(Order) + 1
              /\ turn' \in DOMAIN Order => step' \in DOMAIN Program(Order[turn'])
<1>1. ASSUME Current.read # "merge", step' = step + 1, turn' = turn
      PROVE  step' \in DOMAIN Program(Order[turn'])
  BY <1>1, Position, ReadsWhere DEF Current, Source
<1>2. ASSUME NextSource
      PROVE  /\ turn' \in 1 .. Len(Order) + 1
             /\ turn' \in DOMAIN Order => step' \in DOMAIN Program(Order[turn'])
  BY <1>2, Position, Constants, ProgramBegins, ElementOfSeq DEF NextSource
<1> QED BY <1>1, <1>2

LEMMA NothingIsSnapshot == Nothing \in Snapshots
BY DEF Nothing, Snapshots

(* The tasks taken from an answer are of the project, and no more than may *)
(* be listed.                                                              *)
LEMMA TakenTasks ==
  ASSUME NEW rows \in SUBSET LocalTasks, Cardinality(rows) <= Limit,
         NEW batch, NEW more \in Taken(rows, batch)
  PROVE  /\ more \in SUBSET LocalTasks
         /\ rows \subseteq more /\ more \subseteq rows \cup batch
         /\ Cardinality(more) <= Limit
         /\ batch \cap LocalTasks \subseteq more \/ Cardinality(more) = Limit
<1> DEFINE new == (batch \cap LocalTasks) \ rows
           left == Limit - Cardinality(rows)
<1>1. /\ IsFiniteSet(rows) /\ IsFiniteSet(new)
      /\ Cardinality(rows) \in Nat /\ Cardinality(new) \in Nat
      /\ Limit \in Nat /\ left \in Nat
  BY BriefingAssumption, FS_Subset, FS_CardinalityType
<1>2. \A taken \in SUBSET new :
        /\ Cardinality(rows \cup taken) = Cardinality(rows) + Cardinality(taken)
        /\ Cardinality(taken) \in Nat
  <2> TAKE taken \in SUBSET new
  <2>1. IsFiniteSet(taken) /\ rows \cap taken = {}
    BY <1>1, FS_Subset
  <2>2. Cardinality(rows \cup taken)
          = Cardinality(rows) + Cardinality(taken) - Cardinality(rows \cap taken)
    BY <1>1, <2>1, FS_Union
  <2>3. Cardinality(rows \cap taken) = 0 /\ Cardinality(taken) \in Nat
    BY <2>1, FS_EmptySet, FS_CardinalityType
  <2> QED BY <1>1, <2>2, <2>3
<1>0. Taken(rows, batch) =
        IF Cardinality(new) <= left
          THEN {rows \cup new}
          ELSE {rows \cup taken : taken \in kSubset(left, new)}
  BY DEF Taken
<1> HIDE DEF left
<1>3. CASE Cardinality(new) <= left
  <2>1. more = rows \cup new
    BY <1>0, <1>3
  <2> QED BY <1>1, <1>2, <1>3, <2>1 DEF left
<1>4. CASE ~(Cardinality(new) <= left)
  <2>1. PICK taken \in SUBSET new : Cardinality(taken) = left
                                    /\ more = rows \cup taken
    BY <1>0, <1>4 DEF kSubset
  <2> QED BY <1>1, <1>2, <2>1 DEF left
<1> QED BY <1>3, <1>4

LEMMA TypeInit == BriefingInit => BriefingTypeOK
BY BriefingAssumption, Constants, NothingIsSnapshot, ProgramBegins,
   ElementOfSeq, FS_EmptySet
   DEF BriefingInit, BriefingTypeOK, Nothing

LEMMA TypeStep ==
  BriefingInv /\ [BriefingNext]_briefingVars => BriefingTypeOK'
<1> SUFFICES ASSUME BriefingInv, [BriefingNext]_briefingVars
             PROVE  BriefingTypeOK'
  OBVIOUS
<1>0. BriefingTypeOK
  BY DEF BriefingInv
<1> USE <1>0 DEF readVars, factVars
<1> DEFINE CounterOK == /\ turn \in 1 .. Len(Order) + 1
                        /\ turn \in DOMAIN Order =>
                             step \in DOMAIN Program(Order[turn])
           FoundOK == part \in Snapshots /\ Cardinality(part.tasks) <= Limit
<1>1. CounterOK /\ FoundOK /\ snap \in Snapshots /\ project \in ProjectStates
  BY DEF BriefingTypeOK
<1>2. ASSUME NEW found, Done(found), Current.read # "merge",
             turn \in DOMAIN Order, found \in Snapshots,
             Cardinality(found.tasks) <= Limit,
             failed' \subseteq Sources \cup GoalNames \cup Statuses
      PROVE  BriefingTypeOK'
  <2>1. CounterOK'
    BY <1>1, <1>2, CounterStep DEF Done
  <2> QED BY <1>2, <2>1 DEF BriefingTypeOK, Done
<1>3. ASSUME NEW read, Reads(read), read # "merge"
      PROVE  turn \in DOMAIN Order /\ Current.read # "merge"
             /\ Source \in Sources
  BY <1>3, Position DEF Reads
<1>4. failed \subseteq Sources \cup GoalNames \cup Statuses
  BY DEF BriefingTypeOK
<1>a. CASE BeginsRead
  BY <1>a DEF BeginsRead, BriefingTypeOK
<1>b. CASE OpensSource
  <2>1. Nothing \in Snapshots /\ Cardinality(Nothing.tasks) <= Limit
    BY NothingIsSnapshot, BriefingAssumption, FS_EmptySet DEF Nothing
  <2> QED BY <1>b, <1>2, <1>3, <1>4, <2>1 DEF OpensSource
<1>c. CASE SkipsSource
  <2>1. turn \in DOMAIN Order /\ Source \in Sources /\ NextSource
    BY <1>c, Position DEF SkipsSource
  <2>2. CounterOK'
    BY <2>1, CounterStep
  <2> QED BY <1>c, <2>1, <2>2 DEF SkipsSource, BriefingTypeOK
<1>d. CASE SeesLock
  BY <1>d, <1>1, <1>2, <1>3, <1>4
     DEF SeesLock, Snapshots, ProjectStates
<1>e. CASE SeesCopy
  BY <1>e, <1>1 DEF SeesCopy, Snapshots, BriefingTypeOK
<1>f. CASE SeesOriginal
  <2>1. Current.of \in DOMAIN CanonicalOf
    BY <1>f, Position, ReadsWhere DEF SeesOriginal, Reads, Current, BriefingInv,
                                      ReadInv, FileSeen
  <2> QED BY <1>f, <1>1, <1>2, <1>3, <1>4, <2>1 DEF SeesOriginal, Snapshots
<1>g. CASE PassesFile
  BY <1>g, <1>1, <1>2, <1>3, <1>4 DEF PassesFile
<1>h. CASE ReadsGoal
  <2>1. Current.of \in GoalNames
    BY <1>h, <1>3, Position, ReadsWhere, Constants DEF ReadsGoal, Reads, Current
  <2>2. project.goals[Current.of] \in Goals \cup {"none"}
    BY <1>1, <2>1 DEF ProjectStates, GoalTexts
  <2> QED BY <1>h, <1>1, <1>2, <1>3, <1>4, <2>1, <2>2 DEF ReadsGoal, Snapshots
<1>i. CASE GoalUnreadable
  <2>1. Current.of \in GoalNames
    BY <1>i, <1>3, Position, ReadsWhere, Constants
       DEF GoalUnreadable, Reads, Current
  <2> QED BY <1>i, <1>1, <1>2, <1>3, <1>4, <2>1 DEF GoalUnreadable
<1>j. CASE ReadsStatus
  BY <1>j, <1>1, <1>2, <1>3, <1>4 DEF ReadsStatus, Snapshots, ProjectStates
<1>k. CASE StatusFails
  BY <1>k, <1>1, <1>2, <1>3, <1>4 DEF StatusFails, Sources
<1>l. CASE ReadsTasks
  <2>1. PICK batch \in Answers(Listed(project, Current.of)) :
          \E rows \in Taken(part.tasks, batch) :
            Done([part EXCEPT !.tasks = rows])
    BY <1>l DEF ReadsTasks
  <2>3. PICK rows \in Taken(part.tasks, batch) :
          Done([part EXCEPT !.tasks = rows])
    BY <2>1
  <2>2. rows \in SUBSET LocalTasks /\ Cardinality(rows) <= Limit
    BY <1>1, <2>3, TakenTasks DEF Snapshots
  <2> QED BY <1>l, <1>1, <1>2, <1>3, <1>4, <2>2, <2>3 DEF ReadsTasks, Snapshots
<1>m. CASE QueryFails
  <2>1. Current.of \in Statuses
    BY <1>m, <1>3, Position, ReadsWhere
       DEF QueryFails, Reads, Current, Statuses
  <2> QED BY <1>m, <1>1, <1>2, <1>3, <1>4, <2>1 DEF QueryFails
<1>n. CASE MergesSource
  <2>1. turn \in DOMAIN Order /\ NextSource
    BY <1>n DEF MergesSource, Reads
  <2>2. CounterOK'
    BY <2>1, CounterStep
  <2>3. Merged(snap, part) \in Snapshots
    BY <1>1 DEF Merged, Snapshots
  <2> QED BY <1>n, <2>1, <2>2, <2>3 DEF MergesSource, BriefingTypeOK
<1>o. CASE Speaks
  BY <1>o DEF Speaks, BriefingTypeOK
<1>p. CASE NothingAvailable
  BY <1>p DEF NothingAvailable, BriefingTypeOK
<1>q. CASE StartsSession
  BY <1>q DEF StartsSession, BriefingTypeOK
<1>r. ASSUME NEW p \in ProjectStates, Moves(p)
      PROVE  BriefingTypeOK'
  BY <1>r, BriefingAssumption DEF Moves, BriefingTypeOK
<1>s. CASE LockMoves
  BY <1>s, <1>1, <1>r DEF LockMoves, ProjectStates
<1>t. CASE GoalMoves
  BY <1>t, <1>1, <1>r DEF GoalMoves, ProjectStates
<1>u. CASE WorktreeMoves
  BY <1>u, <1>1, <1>r DEF WorktreeMoves, ProjectStates
<1>v. CASE TaskMoves
  BY <1>v, <1>1, <1>r DEF TaskMoves, ProjectStates
<1>w. CASE UNCHANGED briefingVars
  BY <1>w DEF briefingVars, BriefingTypeOK
<1> QED BY <1>a, <1>b, <1>c, <1>d, <1>e, <1>f, <1>g, <1>h, <1>i, <1>j, <1>k,
           <1>l, <1>m, <1>n, <1>o, <1>p, <1>q, <1>s, <1>t, <1>u, <1>v, <1>w
        DEF BriefingNext

-----------------------------------------------------------------------------
(* What is found stays found                                               *)

(* Fewer facts that stood, and more that failed, ask for less.             *)
LEMMA FoundStands ==
  ASSUME NEW s, NEW n, NEW h, NEW h2 \in SUBSET h, NEW f, NEW f2, f \subseteq f2
  PROVE  /\ LocksFound(s, n, h) => LocksFound(s, n, h2)
         /\ CopiesFound(s, n, h) => CopiesFound(s, n, h2)
         /\ GoalsFound(s, n, h, f) => GoalsFound(s, n, h2, f2)
         /\ GoalsLeft(s, n, h) => GoalsLeft(s, n, h2)
         /\ DirsFound(s, h, f) => DirsFound(s, h2, f2)
<1>1. LocksFound(s, n, h) => LocksFound(s, n, h2)
  BY DEF LocksFound
<1>2. CopiesFound(s, n, h) => CopiesFound(s, n, h2)
  BY DEF CopiesFound
<1>3. GoalsFound(s, n, h, f) => GoalsFound(s, n, h2, f2)
  BY DEF GoalsFound, GoalHolds
<1>4. GoalsLeft(s, n, h) => GoalsLeft(s, n, h2)
  BY DEF GoalsLeft
<1>5. DirsFound(s, h, f) => DirsFound(s, h2, f2)
  BY DEF DirsFound
<1> QED BY <1>1, <1>2, <1>3, <1>4, <1>5

LEMMA TasksStand ==
  ASSUME NEW s, NEW h, NEW h2 \in SUBSET h, NEW f, NEW f2, f \subseteq f2,
         NEW queries, NEW left, NEW left2,
         \A t \in left : <<"task", t>> \in h2 => t \in left2,
         TasksFound(s, queries, left, h, f)
  PROVE  TasksFound(s, queries, left2, h2, f2)
BY DEF TasksFound

LEMMA PartStands ==
  ASSUME NEW s, NEW source, NEW k, NEW h, NEW h2 \in SUBSET h,
         NEW f, NEW f2, f \subseteq f2, NEW active, NEW active2,
         \A t \in active : <<"task", t>> \in h2 => t \in active2,
         PartFound(s, source, k, h, f, active)
  PROVE  PartFound(s, source, k, h2, f2, active2)
<1>1. \A n : /\ LocksFound(s, n, h) => LocksFound(s, n, h2)
             /\ CopiesFound(s, n, h) => CopiesFound(s, n, h2)
             /\ GoalsFound(s, n, h, f) => GoalsFound(s, n, h2, f2)
             /\ GoalsLeft(s, n, h) => GoalsLeft(s, n, h2)
  BY FoundStands
<1>2. DirsFound(s, h, f) => DirsFound(s, h2, f2)
  BY FoundStands
<1>3. TasksFound(s, {"open"}, active, h, f)
        => TasksFound(s, {"open"}, active2, h2, f2)
  BY TasksStand
<1>4. TasksFound(s, {"open", "active"}, {}, h, f)
        => TasksFound(s, {"open", "active"}, {}, h2, f2)
  BY TasksStand
<1> QED BY <1>1, <1>2, <1>3, <1>4 DEF PartFound

LEMMA CompleteStands ==
  ASSUME NEW s, NEW source, NEW h, NEW h2 \in SUBSET h,
         NEW f, NEW f2, f \subseteq f2, Complete(s, source, h, f)
  PROVE  Complete(s, source, h2, f2)
<1>1. \A n : /\ LocksFound(s, n, h) => LocksFound(s, n, h2)
             /\ CopiesFound(s, n, h) => CopiesFound(s, n, h2)
             /\ GoalsFound(s, n, h, f) => GoalsFound(s, n, h2, f2)
  BY FoundStands
<1>2. DirsFound(s, h, f) => DirsFound(s, h2, f2)
  BY FoundStands
<1>3. TasksFound(s, {"open", "active"}, {}, h, f)
        => TasksFound(s, {"open", "active"}, {}, h2, f2)
  BY TasksStand
<1> QED BY <1>1, <1>2, <1>3 DEF Complete

LEMMA AllCompleteStands ==
  ASSUME NEW s, NEW n, NEW h, NEW h2 \in SUBSET h,
         NEW f, NEW f2, f \subseteq f2, AllComplete(s, n, h, f)
  PROVE  AllComplete(s, n, h2, f2)
BY CompleteStands DEF AllComplete

(* A source that has reached its merge has found all it has to say.        *)
LEMMA PartComplete ==
  ASSUME NEW s, NEW source \in Sources, NEW k \in DOMAIN Program(source),
         Program(source)[k].read = "merge", NEW h, NEW f, NEW active,
         PartFound(s, source, k, h, f, active)
  PROVE  Complete(s, source, h, f)
<1>1. /\ source = "files" => k > BeforeCopies + Len(DirectoryOrder)
      /\ source \in {"files", "goal"} =>
           k > BeforeGoals(source) + Len(GoalFiles)
      /\ source = "git" => k = 3
      /\ source = "taskplan" => k = 4
      /\ k \in Nat
  BY ReadsWhere
<1>2. BeforeCopies \in Nat /\ BeforeGoals(source) \in Nat /\ BeforeCopies >= 1
  BY Constants DEF BeforeCopies, BeforeGoals
<1>3. source = "files" => /\ LocksFound(s, Len(DirectoryOrder) + 1, h)
                          /\ CopiesFound(s, Len(DirectoryOrder) + 1, h)
  BY <1>1, <1>2, Constants DEF PartFound, LocksFound, CopiesFound
<1>4. source \in {"files", "goal"} => GoalsFound(s, Len(GoalFiles) + 1, h, f)
  BY <1>1, <1>2, Constants DEF PartFound, GoalsFound
<1> QED BY <1>1, <1>3, <1>4 DEF PartFound, Complete

(* A merge takes away nothing that the sources before it had to say, ...   *)
LEMMA MergeKeeps ==
  ASSUME NEW a \in Snapshots, NEW b \in Snapshots, NEW source, NEW h, NEW f,
         Complete(a, source, h, f),
         b.copies # {} => CopiesFound(b, Len(DirectoryOrder) + 1, h),
         b.goal # {} => GoalsFound(b, Len(GoalFiles) + 1, h, f)
  PROVE  Complete(Merged(a, b), source, h, f)
<1> DEFINE m == Merged(a, b)
<1>1. /\ m.locks = a.locks \cup b.locks
      /\ m.copies = IF b.copies # {} THEN b.copies ELSE a.copies
      /\ m.goal = IF b.goal # {} THEN b.goal ELSE a.goal
      /\ m.dirs = a.dirs \cup b.dirs
      /\ m.tasks = a.tasks \cup b.tasks
  BY DEF Merged, Snapshots
<1>2. IsFiniteSet(m.tasks) /\ Cardinality(m.tasks) \in Nat
      /\ Cardinality(a.tasks) \in Nat /\ Cardinality(a.tasks) <= Cardinality(m.tasks)
  BY <1>1, BriefingAssumption, FS_Subset, FS_CardinalityType DEF Snapshots
<1> HIDE DEF m
<1>3. source = "files" => /\ LocksFound(m, Len(DirectoryOrder) + 1, h)
                          /\ CopiesFound(m, Len(DirectoryOrder) + 1, h)
  BY <1>1 DEF Complete, LocksFound, CopiesFound
<1>4. source \in {"files", "goal"} => GoalsFound(m, Len(GoalFiles) + 1, h, f)
  BY <1>1 DEF Complete, GoalsFound
<1>5. source = "git" => DirsFound(m, h, f)
  BY <1>1 DEF Complete, DirsFound
<1>6. source = "taskplan" => TasksFound(m, {"open", "active"}, {}, h, f)
  BY <1>1, <1>2, BriefingAssumption DEF Complete, TasksFound
<1> QED BY <1>3, <1>4, <1>5, <1>6 DEF Complete, m

(* ... and nothing that the merged source has to say.                      *)
LEMMA MergeAdds ==
  ASSUME NEW a \in Snapshots, NEW b \in Snapshots, NEW source, NEW h, NEW f,
         Complete(b, source, h, f)
  PROVE  Complete(Merged(a, b), source, h, f)
<1> DEFINE m == Merged(a, b)
<1>1. /\ m.locks = a.locks \cup b.locks
      /\ m.copies = IF b.copies # {} THEN b.copies ELSE a.copies
      /\ m.goal = IF b.goal # {} THEN b.goal ELSE a.goal
      /\ m.dirs = a.dirs \cup b.dirs
      /\ m.tasks = a.tasks \cup b.tasks
  BY DEF Merged, Snapshots
<1>2. IsFiniteSet(m.tasks) /\ Cardinality(m.tasks) \in Nat
      /\ Cardinality(b.tasks) \in Nat /\ Cardinality(b.tasks) <= Cardinality(m.tasks)
  BY <1>1, BriefingAssumption, FS_Subset, FS_CardinalityType DEF Snapshots
<1> HIDE DEF m
<1>3. source = "files" => /\ LocksFound(m, Len(DirectoryOrder) + 1, h)
                          /\ CopiesFound(m, Len(DirectoryOrder) + 1, h)
  BY <1>1 DEF Complete, LocksFound, CopiesFound
<1>4. source \in {"files", "goal"} => GoalsFound(m, Len(GoalFiles) + 1, h, f)
  BY <1>1 DEF Complete, GoalsFound
<1>5. source = "git" => DirsFound(m, h, f)
  BY <1>1 DEF Complete, DirsFound
<1>6. source = "taskplan" => TasksFound(m, {"open", "active"}, {}, h, f)
  BY <1>1, <1>2, BriefingAssumption DEF Complete, TasksFound
<1> QED BY <1>3, <1>4, <1>5, <1>6 DEF Complete, m

-----------------------------------------------------------------------------
(* Every read adds what it is there for                                    *)

LEMMA OpenFinds ==
  ASSUME NEW source \in Sources, NEW h, NEW f, NEW active
  PROVE  PartFound(Nothing, source, 2, h, f, active)
<1>1. BeforeCopies \in Nat /\ BeforeGoals(source) \in Nat
      /\ BeforeCopies >= 1 /\ BeforeGoals(source) >= 1
  BY Constants DEF BeforeCopies, BeforeGoals
<1>2. LocksFound(Nothing, 2 - 1, h)
  BY Constants DEF LocksFound
<1>3. CopiesFound(Nothing, 2 - BeforeCopies, h)
  BY <1>1, Constants DEF CopiesFound
<1>4. GoalsFound(Nothing, 2 - BeforeGoals(source), h, f)
  BY <1>1, Constants DEF GoalsFound
<1>5. GoalsLeft(Nothing, 2 - BeforeGoals(source), h)
  BY DEF GoalsLeft, Nothing
<1> QED BY <1>2, <1>3, <1>4, <1>5 DEF PartFound, Nothing

LEMMA LockFinds ==
  ASSUME NEW p \in ProjectStates, NEW s \in Snapshots, NEW source \in Sources,
         NEW k \in DOMAIN Program(source), Program(source)[k].read = "lock",
         NEW h \in SUBSET Facts(p), NEW f, NEW active,
         PartFound(s, source, k, h, f, active),
         NEW found,
         found = [s EXCEPT !.locks =
                    @ \cup (p.files \cap {Program(source)[k].of})]
  PROVE  PartFound(found, source, k + 1, h, f, active)
<1>1. /\ source = "files" /\ k <= BeforeGoals(source) /\ k \in Nat
      /\ k - 1 \in DOMAIN DirectoryOrder
      /\ Program(source)[k].of = DirectoryOrder[k - 1]
  BY ReadsWhere
<1>2. /\ BeforeCopies \in Nat /\ BeforeGoals(source) \in Nat
      /\ BeforeGoals(source) <= BeforeCopies
      /\ DOMAIN DirectoryOrder \subseteq Nat \ {0}
      /\ DOMAIN GoalFiles \subseteq Nat \ {0}
  BY <1>1, Constants DEF BeforeCopies, BeforeGoals
<1>3. /\ found.goal = s.goal /\ found.copies = s.copies
      /\ found.locks = s.locks \cup (p.files \cap {DirectoryOrder[k - 1]})
  BY <1>1 DEF Snapshots
<1>4. /\ LocksFound(s, k - 1, h)
      /\ GoalsLeft(s, k - BeforeGoals(source), h)
  BY <1>1 DEF PartFound
<1>5. LocksFound(found, (k + 1) - 1, h)
  <2>1. \A i \in DOMAIN DirectoryOrder :
          i < (k + 1) - 1 => i < k - 1 \/ i = k - 1
    BY <1>1, <1>2
  <2>2. <<"lock", DirectoryOrder[k - 1]>> \in h
          => DirectoryOrder[k - 1] \in found.locks
    BY <1>3, FactForms
  <2> QED BY <1>3, <1>4, <2>1, <2>2 DEF LocksFound
<1>6. CopiesFound(found, (k + 1) - BeforeCopies, h)
  BY <1>1, <1>2 DEF CopiesFound
<1>7. GoalsFound(found, (k + 1) - BeforeGoals(source), h, f)
  BY <1>1, <1>2 DEF GoalsFound
<1>8. GoalsLeft(found, (k + 1) - BeforeGoals(source), h)
  BY <1>1, <1>2, <1>3, <1>4 DEF GoalsLeft
<1> QED BY <1>1, <1>5, <1>6, <1>7, <1>8 DEF PartFound

(* The next three are about goal files: one that is read, one that cannot  *)
(* be, and one whose turn comes after a goal was found.                    *)
LEMMA GoalFinds ==
  ASSUME NEW p \in ProjectStates, NEW s \in Snapshots, NEW source \in Sources,
         NEW k \in DOMAIN Program(source), Program(source)[k].read = "goal",
         NEW h \in SUBSET Facts(p), NEW f, NEW active,
         PartFound(s, source, k, h, f, active),
         NEW found \in Snapshots,
         found.locks = s.locks, found.copies = s.copies,
         LET file == Program(source)[k].of
         IN \/ s.goal # {} /\ found.goal = s.goal
            \/ /\ s.goal = {} /\ found.goal = {}
               /\ p.goals[file] = "none" \/ file \in f
            \/ /\ s.goal = {} /\ p.goals[file] # "none"
               /\ found.goal = {<<file, p.goals[file]>>}
  PROVE  PartFound(found, source, k + 1, h, f, active)
<1> DEFINE n == k - BeforeGoals(source)
<1>1. /\ source \in {"files", "goal"} /\ k \in Nat
      /\ source = "files" => k <= BeforeCopies
      /\ n \in DOMAIN GoalFiles
      /\ Program(source)[k].of = GoalFiles[n]
  BY ReadsWhere
<1>2. /\ BeforeCopies \in Nat /\ BeforeGoals(source) \in Nat
      /\ DOMAIN DirectoryOrder \subseteq Nat \ {0}
      /\ DOMAIN GoalFiles \subseteq Nat \ {0}
      /\ source = "files" =>
           \A i \in DOMAIN DirectoryOrder : i < BeforeGoals(source)
  BY Constants DEF BeforeCopies, BeforeGoals
<1>3. /\ GoalsFound(s, n, h, f) /\ GoalsLeft(s, n, h)
      /\ source = "files" => LocksFound(s, k - 1, h)
      /\ source = "goal" => found.copies = {}
  BY <1>1 DEF PartFound
<1>4. n \in Nat /\ (k + 1) - BeforeGoals(source) = n + 1
  BY <1>1, <1>2
<1>5. source = "files" => LocksFound(found, (k + 1) - 1, h)
  <2> SUFFICES ASSUME source = "files" PROVE LocksFound(found, (k + 1) - 1, h)
    OBVIOUS
  <2>1. \A i \in DOMAIN DirectoryOrder : i < k - 1
    BY <1>1, <1>2, <1>4
  <2> QED BY <1>3, <2>1 DEF LocksFound
<1>6. source = "files" => CopiesFound(found, (k + 1) - BeforeCopies, h)
  BY <1>1, <1>2 DEF CopiesFound
<1> HIDE DEF n
<1>7. \A text : <<"goal", GoalFiles[n], text>> \in h => text = p.goals[GoalFiles[n]]
  BY FactForms
<1>8. p.goals[GoalFiles[n]] \in Goals \cup {"none"}
  BY <1>1, Constants DEF ProjectStates, GoalTexts
<1>9. GoalsFound(found, n + 1, h, f)
  <2> SUFFICES ASSUME NEW i \in DOMAIN GoalFiles, NEW text \in Goals,
                      i < n + 1, GoalHolds(i, text, h, f)
               PROVE  found.goal = {<<GoalFiles[i], text>>}
    BY DEF GoalsFound
  <2>1. CASE i < n
    <3>1. s.goal = {<<GoalFiles[i], text>>}
      BY <1>3, <2>1 DEF GoalsFound
    <3> QED BY <3>1
  <2>2. CASE i = n
    <3>1. text = p.goals[GoalFiles[n]] /\ GoalFiles[n] \notin f /\ text # "none"
      BY <1>7, <2>2, BriefingAssumption DEF GoalHolds
    <3>2. s.goal = {}
      <4>1. \A m \in DOMAIN GoalFiles : m < n => m \in 1 .. i - 1
        BY <1>2, <1>4, <2>2
      <4> QED BY <1>3, <4>1 DEF GoalsLeft, GoalHolds
    <3> QED BY <1>1, <2>2, <3>1, <3>2
  <2> QED BY <1>2, <1>4, <2>1, <2>2
<1>10. GoalsLeft(found, n + 1, h)
  <2>1. CASE s.goal # {}
    <3>1. PICK i \in DOMAIN GoalFiles :
                 i < n /\ <<"goal", GoalFiles[i], "none">> \notin h
      BY <1>3, <2>1 DEF GoalsLeft
    <3>2. i < n + 1
      BY <1>2, <1>4, <3>1
    <3> QED BY <3>1, <3>2 DEF GoalsLeft
  <2>2. CASE s.goal = {} /\ p.goals[GoalFiles[n]] # "none"
    <3>1. <<"goal", GoalFiles[n], "none">> \notin h
      BY <1>7, <2>2
    <3> QED BY <1>1, <1>4, <3>1 DEF GoalsLeft
  <2>3. CASE found.goal = {}
    BY <2>3 DEF GoalsLeft
  <2> QED BY <1>1, <2>1, <2>2, <2>3
<1> QED BY <1>1, <1>3, <1>4, <1>5, <1>6, <1>9, <1>10 DEF PartFound

(* A file is a conflict copy, or it was not there, or what it copies was   *)
(* not.                                                                    *)
LEMMA CopyFinds ==
  ASSUME NEW p \in ProjectStates, NEW s \in Snapshots, NEW source \in Sources,
         NEW k \in DOMAIN Program(source), Program(source)[k].read = "copy",
         NEW h \in SUBSET Facts(p), NEW f, NEW active,
         PartFound(s, source, k, h, f, active),
         NEW found \in Snapshots,
         found.locks = s.locks, found.goal = s.goal,
         s.copies \subseteq found.copies,
         <<"copy", Program(source)[k].of>> \in Facts(p)
           => Program(source)[k].of \in found.copies
  PROVE  PartFound(found, source, k + 1, h, f, active)
<1> DEFINE n == k - BeforeCopies
<1>1. /\ source = "files" /\ k \in Nat
      /\ n \in DOMAIN DirectoryOrder
      /\ Program(source)[k].of = DirectoryOrder[n]
  BY ReadsWhere
<1>2. /\ BeforeCopies \in Nat /\ BeforeGoals(source) \in Nat
      /\ DOMAIN DirectoryOrder \subseteq Nat \ {0}
      /\ DOMAIN GoalFiles \subseteq Nat \ {0}
      /\ \A i \in DOMAIN DirectoryOrder : i < BeforeCopies
      /\ \A i \in DOMAIN GoalFiles : i <= BeforeCopies - BeforeGoals(source)
  BY <1>1, Constants DEF BeforeCopies, BeforeGoals
<1>3. /\ LocksFound(s, k - 1, h) /\ CopiesFound(s, n, h)
      /\ GoalsFound(s, k - BeforeGoals(source), h, f)
      /\ GoalsLeft(s, k - BeforeGoals(source), h)
  BY <1>1 DEF PartFound
<1>4. n \in Nat \ {0} /\ (k + 1) - BeforeCopies = n + 1
  BY <1>1, <1>2
<1>5. LocksFound(found, (k + 1) - 1, h)
  <2>1. \A i \in DOMAIN DirectoryOrder : i < k - 1
    BY <1>1, <1>2, <1>4
  <2> QED BY <1>3, <2>1 DEF LocksFound
<1>6. \A i \in DOMAIN GoalFiles : i < k - BeforeGoals(source)
  BY <1>1, <1>2, <1>4
<1>7. GoalsFound(found, (k + 1) - BeforeGoals(source), h, f)
  BY <1>3, <1>6 DEF GoalsFound
<1>8. GoalsLeft(found, (k + 1) - BeforeGoals(source), h)
  BY <1>1, <1>2, <1>3 DEF GoalsLeft
<1> HIDE DEF n
<1>9. CopiesFound(found, n + 1, h)
  <2>1. \A i \in DOMAIN DirectoryOrder : i < n + 1 => i < n \/ i = n
    BY <1>2, <1>4
  <2> QED BY <1>1, <1>3, <2>1 DEF CopiesFound
<1> QED BY <1>1, <1>4, <1>5, <1>7, <1>8, <1>9 DEF PartFound

LEMMA StatusFinds ==
  ASSUME NEW p \in ProjectStates, NEW s \in Snapshots, NEW source \in Sources,
         NEW k \in DOMAIN Program(source), Program(source)[k].read = "status",
         NEW h \in SUBSET Facts(p), NEW f, NEW active,
         PartFound(s, source, k, h, f, active),
         NEW found, found.goal = s.goal, found.copies = s.copies,
         "git" \in f \/ found.dirs = {Named(c) : c \in p.changes}
  PROVE  PartFound(found, source, k + 1, h, f, active)
<1>1. source = "git" /\ k = 2
  BY ReadsWhere
<1>2. DirsFound(found, h, f)
  BY FactForms DEF DirsFound, Named
<1> QED BY <1>1, <1>2 DEF PartFound

(* A task that is not in the answer for open tasks, and for which there is *)
(* room, is active; one that still is when active tasks are asked for is   *)
(* in that answer. Nothing is said when an answer may have been cut.       *)
LEMMA TasksFind ==
  ASSUME NEW p \in ProjectStates, NEW s \in Snapshots, NEW source \in Sources,
         NEW k \in DOMAIN Program(source), Program(source)[k].read = "tasks",
         NEW h \in SUBSET Facts(p), NEW f,
         PartFound(s, source, k, h, f, ActiveTasks(p)),
         NEW found \in Snapshots, found.goal = s.goal, found.copies = s.copies,
         LET of == Program(source)[k].of
         IN \/ /\ found.tasks = s.tasks
               /\ of \in f
            \/ /\ s.tasks \subseteq found.tasks
               /\ \/ {t \in LocalTasks : p.tasks[t] = of} \subseteq found.tasks
                  \/ Cardinality(found.tasks) = Limit
                  \/ \A t \in LocalTasks : <<"task", t>> \notin h
  PROVE  PartFound(found, source, k + 1, h, f, ActiveTasks(p))
<1>1. /\ source = "taskplan"
      /\ \/ k = 2 /\ Program(source)[k].of = "open"
         \/ k = 3 /\ Program(source)[k].of = "active"
  BY ReadsWhere
<1>2. found.goal = {} /\ found.copies = {}
  BY <1>1 DEF PartFound
<1>3. \A t \in LocalTasks :
        <<"task", t>> \in h => p.tasks[t] \in {"open", "active"}
  BY BriefingAssumption, FactForms DEF ProjectStates, Statuses
<1>4. Limit \in Nat
  BY BriefingAssumption
<1>5. CASE k = 2
  <2>1. TasksFound(found, {"open"}, ActiveTasks(p), h, f)
    BY <1>1, <1>3, <1>4, <1>5 DEF TasksFound, ActiveTasks
  <2> QED BY <1>1, <1>2, <1>5, <2>1 DEF PartFound
<1>6. CASE k = 3
  <2>1. TasksFound(s, {"open"}, ActiveTasks(p), h, f)
    BY <1>1, <1>6 DEF PartFound
  <2>2. /\ IsFiniteSet(found.tasks) /\ IsFiniteSet(s.tasks)
        /\ Cardinality(found.tasks) \in Nat /\ Cardinality(s.tasks) \in Nat
        /\ s.tasks \subseteq found.tasks =>
             Cardinality(s.tasks) <= Cardinality(found.tasks)
    BY BriefingAssumption, FS_Subset, FS_CardinalityType DEF Snapshots
  <2>3. TasksFound(found, {"open", "active"}, {}, h, f)
    BY <1>1, <1>3, <1>4, <1>6, <2>1, <2>2 DEF TasksFound, ActiveTasks
  <2> QED BY <1>1, <1>2, <1>6, <2>3 DEF PartFound
<1> QED BY <1>1, <1>5, <1>6

-----------------------------------------------------------------------------
(* The read keeps its invariant                                            *)

LEMMA MergedContents ==
  ASSUME NEW a \in Snapshots, NEW b \in Snapshots
  PROVE  Contents(Merged(a, b)) \subseteq Contents(a) \cup Contents(b)
BY DEF Contents, Merged, Snapshots

(* A step that asks for nothing of the project and skips no source.        *)
LEMMA DoneKeeps ==
  ASSUME BriefingInv, NEW read, Reads(read), NEW found, Done(found),
         failed \subseteq failed', Contents(found) \subseteq Seen,
         PartFound(found, Source, step + 1, Stood, failed', ActiveTasks(project)),
         ~found.isFile
  PROVE  ReadInv'
<1> USE DEF readVars, factVars
<1>1. ReadInv
  BY DEF BriefingInv, Reads
<1>2. AllComplete(snap, turn, Stood, failed')
  BY <1>1, AllCompleteStands DEF ReadInv
<1>3. /\ part' = found /\ step' = step + 1 /\ turn' = turn /\ snap' = snap
      /\ held' = held /\ seen' = seen /\ project' = project
      /\ Source' = Source /\ Seen' = Seen /\ Stood' = Stood
  BY DEF Done, Source, Seen, CopiesSeen, MovesNamed, Stood, Crowded
<1> QED BY <1>1, <1>2, <1>3 DEF ReadInv, FileSeen

LEMMA ReadsBegun ==
  ASSUME BriefingInv, NEW read, Reads(read), read # "open"
  PROVE  /\ turn \in DOMAIN Order /\ Source \in Sources
         /\ step \in DOMAIN Program(Source) /\ Current.read = read
         /\ ReadInv /\ project \in ProjectStates /\ part \in Snapshots
         /\ PartFound(part, Source, step, Stood, failed, ActiveTasks(project))
      /\ Stood \in SUBSET Facts(project)
         /\ Stood \in SUBSET Facts(project) /\ FileSeen
<1>1. /\ turn \in DOMAIN Order /\ Source \in Sources
      /\ step \in DOMAIN Program(Source) /\ Current.read = read /\ ReadInv
      /\ project \in ProjectStates /\ part \in Snapshots
      /\ step \in Nat \ {0}
  BY Position DEF BriefingInv, Reads, BriefingTypeOK
<1>2. step # 1
  BY <1>1, ReadsWhere DEF Current
<1> QED BY <1>1, <1>2 DEF ReadInv, Stood

LEMMA OpenKeeps ==
  ASSUME BriefingInv, OpensSource
  PROVE  ReadInv'
<1>1. Reads("open") /\ Done(Nothing) /\ failed' = failed
  BY DEF OpensSource
<1>2. step = 1 /\ Source \in Sources
  BY <1>1, Position, ReadsWhere DEF Reads, Current, BriefingInv
<1>3. PartFound(Nothing, Source, step + 1, Stood, failed', ActiveTasks(project))
  BY <1>2, OpenFinds
<1>4. Contents(Nothing) = {}
  BY DEF Contents, Nothing
<1> QED BY <1>1, <1>3, <1>4, DoneKeeps DEF Nothing

LEMMA LockKeeps ==
  ASSUME BriefingInv, SeesLock
  PROVE  ReadInv'
<1> DEFINE found ==
             [part EXCEPT !.locks = @ \cup (project.files \cap {Current.of})]
<1>1. Reads("lock") /\ Done(found) /\ failed' = failed
  BY DEF SeesLock
<1>2. /\ Source \in Sources /\ step \in DOMAIN Program(Source)
      /\ Current.read = "lock" /\ ReadInv
      /\ project \in ProjectStates /\ part \in Snapshots
      /\ PartFound(part, Source, step, Stood, failed, ActiveTasks(project))
      /\ Stood \in SUBSET Facts(project)
      /\ FileSeen
  BY <1>1, ReadsBegun
<1>3. PartFound(found, Source, step + 1, Stood, failed', ActiveTasks(project))
  BY <1>1, <1>2, LockFinds DEF Current, ReadInv
<1>4. Contents(found) \subseteq Seen
  <2>1. \A f \in project.files : <<"lock", f>> \in Seen
    BY <1>2, FactForms DEF ReadInv, Seen
  <2>2. Contents(found) \subseteq
          Contents(part) \cup {<<"lock", f>> : f \in project.files}
    BY <1>2 DEF Contents, Snapshots
  <2> QED BY <1>2, <2>1, <2>2 DEF ReadInv
<1>5. ~found.isFile
  BY <1>2 DEF FileSeen, Snapshots
<1> HIDE DEF found
<1> QED BY <1>1, <1>3, <1>4, <1>5, DoneKeeps

LEMMA CopyKeeps ==
  ASSUME BriefingInv, SeesCopy
  PROVE  ReadInv'
<1> USE DEF readVars, factVars
<1>1. Reads("copy") /\ Current.of \in DOMAIN CanonicalOf \cap project.files
      /\ part' = [part EXCEPT !.isFile = TRUE]
      /\ UNCHANGED <<project, turn, step, snap, failed, seen, held>>
  BY DEF SeesCopy
<1>2. /\ Current.read = "copy" /\ ReadInv /\ part \in Snapshots
      /\ PartFound(part, Source, step, Stood, failed, ActiveTasks(project))
      /\ Stood \in SUBSET Facts(project)
  BY <1>1, ReadsBegun
<1>3. /\ part'.locks = part.locks /\ part'.copies = part.copies
      /\ part'.goal = part.goal /\ part'.dirs = part.dirs
      /\ part'.tasks = part.tasks
  BY <1>1, <1>2 DEF Snapshots
<1>4. PartFound(part', Source, step, Stood, failed, ActiveTasks(project))
  BY <1>2, <1>3 DEF PartFound, LocksFound, CopiesFound, GoalsFound, GoalsLeft,
                    DirsFound, TasksFound
<1>5. Contents(part') = Contents(part)
  BY <1>3 DEF Contents
<1>6. <<"lock", Current.of>> \in seen
  BY <1>1, <1>2, FactForms DEF ReadInv
<1>7. FileSeen'
  BY <1>1, <1>2, <1>6 DEF FileSeen, Current, Source
<1> QED BY <1>1, <1>2, <1>4, <1>5, <1>7
        DEF ReadInv, Source, Seen, CopiesSeen, MovesNamed, Stood, Crowded

LEMMA OriginalKeeps ==
  ASSUME BriefingInv, SeesOriginal
  PROVE  ReadInv'
<1> DEFINE found == [part EXCEPT
                       !.isFile = FALSE,
                       !.copies = IF CanonicalOf[Current.of] \in project.files
                                    THEN @ \cup {Current.of} ELSE @]
<1>1. Reads("copy") /\ part.isFile /\ Done(found) /\ failed' = failed
  BY DEF SeesOriginal
<1>2. /\ Source \in Sources /\ step \in DOMAIN Program(Source)
      /\ Current.read = "copy" /\ ReadInv
      /\ project \in ProjectStates /\ part \in Snapshots
      /\ PartFound(part, Source, step, Stood, failed, ActiveTasks(project))
      /\ Stood \in SUBSET Facts(project)
      /\ FileSeen
  BY <1>1, ReadsBegun
<1>3. /\ Current.of \in DOMAIN CanonicalOf /\ <<"lock", Current.of>> \in seen
  BY <1>1, <1>2 DEF FileSeen
<1>4. found \in Snapshots /\ found.locks = part.locks /\ found.goal = part.goal
      /\ found.dirs = part.dirs /\ found.tasks = part.tasks /\ ~found.isFile
      /\ found.copies = IF CanonicalOf[Current.of] \in project.files
                          THEN part.copies \cup {Current.of} ELSE part.copies
  BY <1>2, <1>3 DEF Snapshots
<1> HIDE DEF found
<1>5. PartFound(found, Source, step + 1, Stood, failed', ActiveTasks(project))
  <2>1. <<"copy", Current.of>> \in Facts(project) => Current.of \in found.copies
    BY <1>4, FactForms
  <2> QED BY <1>1, <1>2, <1>4, <2>1, CopyFinds DEF Current, ReadInv
<1>6. Contents(found) \subseteq Seen
  <2>1. CanonicalOf[Current.of] \in project.files
          => <<"copy", Current.of>> \in CopiesSeen
    <3> SUFFICES ASSUME CanonicalOf[Current.of] \in project.files
                 PROVE  <<"copy", Current.of>> \in CopiesSeen
      OBVIOUS
    <3>1. <<"lock", CanonicalOf[Current.of]>> \in seen
      BY <1>2, FactForms DEF ReadInv
    <3>2. Current.of \in {g \in DOMAIN CanonicalOf :
             {<<"lock", g>>, <<"lock", CanonicalOf[g]>>} \subseteq seen}
      BY <1>3, <3>1
    <3> QED BY <3>2 DEF CopiesSeen
  <2>2. Contents(found) \subseteq
          Contents(part) \cup {<<"copy", f>> : f \in found.copies \ part.copies}
    BY <1>4 DEF Contents
  <2>3. \A f \in found.copies \ part.copies :
          f = Current.of /\ CanonicalOf[Current.of] \in project.files
    BY <1>4
  <2> QED BY <1>2, <2>1, <2>2, <2>3 DEF ReadInv, Seen
<1> QED BY <1>1, <1>4, <1>5, <1>6, DoneKeeps

LEMMA PassKeeps ==
  ASSUME BriefingInv, PassesFile
  PROVE  ReadInv'
<1>1. /\ Reads("copy") /\ ~part.isFile /\ Done(part) /\ failed' = failed
      /\ Current.of \notin DOMAIN CanonicalOf \cap project.files
  BY DEF PassesFile
<1>2. /\ Source \in Sources /\ step \in DOMAIN Program(Source)
      /\ Current.read = "copy" /\ ReadInv
      /\ project \in ProjectStates /\ part \in Snapshots
      /\ PartFound(part, Source, step, Stood, failed, ActiveTasks(project))
      /\ Stood \in SUBSET Facts(project)
  BY <1>1, ReadsBegun
<1>3. PartFound(part, Source, step + 1, Stood, failed', ActiveTasks(project))
  <2>1. <<"copy", Current.of>> \notin Facts(project)
    BY <1>1, FactForms
  <2> QED BY <1>1, <1>2, <2>1, CopyFinds DEF Current, ReadInv
<1> QED BY <1>1, <1>2, <1>3, DoneKeeps DEF ReadInv

LEMMA GoalKeeps ==
  ASSUME BriefingInv, ReadsGoal \/ GoalUnreadable
  PROVE  ReadInv'
<1> DEFINE file == Current.of
           text == project.goals[file]
           read == [part EXCEPT !.goal = IF @ = {} /\ text # "none"
                                           THEN {<<file, text>>} ELSE @]
<1>1. Reads("goal")
  BY DEF ReadsGoal, GoalUnreadable
<1>2. /\ Source \in Sources /\ step \in DOMAIN Program(Source)
      /\ Current.read = "goal" /\ ReadInv
      /\ project \in ProjectStates /\ part \in Snapshots
      /\ PartFound(part, Source, step, Stood, failed, ActiveTasks(project))
      /\ Stood \in SUBSET Facts(project)
      /\ ~part.isFile
  BY <1>1, ReadsBegun DEF FileSeen
<1>3. CASE ReadsGoal
  <2>1. Done(read) /\ failed' = failed
    BY <1>3 DEF ReadsGoal
  <2>2. file \in GoalNames
    BY <1>2, ReadsWhere, Constants DEF Current
  <2>3. /\ read \in Snapshots /\ read.locks = part.locks
        /\ read.copies = part.copies /\ read.dirs = part.dirs
        /\ read.tasks = part.tasks /\ read.isFile = part.isFile
        /\ read.goal = IF part.goal = {} /\ text # "none"
                         THEN {<<file, text>>} ELSE part.goal
    <3>1. text \in Goals \cup {"none"}
      BY <1>2, <2>2 DEF ProjectStates, GoalTexts
    <3> QED BY <1>2, <2>2, <3>1 DEF Snapshots
  <2> HIDE DEF read
  <2>4. PartFound(read, Source, step + 1, Stood, failed', ActiveTasks(project))
    BY <1>2, <2>1, <2>3, GoalFinds DEF Current, ReadInv
  <2>5. Contents(read) \subseteq Seen
    <3>1. <<"goal", file, text>> \in Seen
      BY <1>2, <2>2, FactForms DEF ReadInv, Seen
    <3>2. Contents(read) \subseteq Contents(part) \cup {<<"goal", file, text>>}
      BY <2>3 DEF Contents
    <3> QED BY <1>2, <3>1, <3>2 DEF ReadInv
  <2> QED BY <1>1, <1>2, <2>1, <2>3, <2>4, <2>5, DoneKeeps
<1>4. CASE GoalUnreadable
  <2>1. Done(part) /\ failed' = failed \cup {file} /\ part.goal = {}
    BY <1>4 DEF GoalUnreadable
  <2>2. PartFound(part, Source, step, Stood, failed', ActiveTasks(project))
    BY <1>2, <2>1, PartStands
  <2>3. PartFound(part, Source, step + 1, Stood, failed', ActiveTasks(project))
    BY <1>2, <2>1, <2>2, GoalFinds DEF Current, ReadInv
  <2> QED BY <1>1, <1>2, <2>1, <2>3, DoneKeeps DEF ReadInv
<1> QED BY <1>3, <1>4

LEMMA StatusKeeps ==
  ASSUME BriefingInv, ReadsStatus \/ StatusFails
  PROVE  ReadInv'
<1> DEFINE read == [part EXCEPT !.dirs = {Named(c) : c \in project.changes}]
<1>1. Reads("status")
  BY DEF ReadsStatus, StatusFails
<1>2. /\ Source \in Sources /\ step \in DOMAIN Program(Source)
      /\ Current.read = "status" /\ ReadInv
      /\ project \in ProjectStates /\ part \in Snapshots
      /\ PartFound(part, Source, step, Stood, failed, ActiveTasks(project))
      /\ Stood \in SUBSET Facts(project)
      /\ ~part.isFile
  BY <1>1, ReadsBegun DEF FileSeen
<1>3. CASE ReadsStatus
  <2>1. Done(read) /\ failed' = failed
    BY <1>3 DEF ReadsStatus
  <2>2. /\ read.locks = part.locks /\ read.copies = part.copies
        /\ read.goal = part.goal /\ read.tasks = part.tasks
        /\ read.dirs = {Named(c) : c \in project.changes}
        /\ read.isFile = part.isFile
    BY <1>2 DEF Snapshots
  <2> HIDE DEF read
  <2>3. PartFound(read, Source, step + 1, Stood, failed', ActiveTasks(project))
    BY <1>2, <2>1, <2>2, StatusFinds DEF Current, ReadInv
  <2>4. Contents(read) \subseteq Seen
    <3>1. \A d \in read.dirs : <<"dir", d>> \in Seen
      <4> SUFFICES ASSUME NEW c \in project.changes
                   PROVE  <<"dir", Named(c)>> \in Seen
        BY <2>2
      <4>1. c \in Changes /\ Facts(project) \subseteq seen
        BY <1>2 DEF ProjectStates, ReadInv
      <4>2. CASE LeavesRoot(c)
        <5>1. <<"move", <<c.from, c.to>>>> \in Facts(project)
          BY <4>2 DEF Facts
        <5>2. <<"dir", <<c.from, c.to>>>> \in MovesNamed
          <6>1. c \in {d \in Changes : <<"move", <<d.from, d.to>>>> \in seen}
            BY <4>1, <5>1
          <6> QED BY <6>1 DEF MovesNamed
        <5> QED BY <4>2, <5>2 DEF Named, Seen
      <4>3. CASE ~LeavesRoot(c)
        <5>1. <<"dir", <<c.from>>>> \in Facts(project)
          BY DEF Facts
        <5> QED BY <4>1, <4>3, <5>1 DEF Named, Seen
      <4> QED BY <4>2, <4>3
    <3>2. Contents(read) \subseteq
            Contents(part) \cup {<<"dir", d>> : d \in read.dirs}
      BY <2>2 DEF Contents
    <3> QED BY <1>2, <3>1, <3>2 DEF ReadInv
  <2> QED BY <1>1, <1>2, <2>1, <2>2, <2>3, <2>4, DoneKeeps
<1>4. CASE StatusFails
  <2>1. Done(part) /\ failed' = failed \cup {"git"}
    BY <1>4 DEF StatusFails
  <2>2. PartFound(part, Source, step, Stood, failed', ActiveTasks(project))
    BY <1>2, <2>1, PartStands
  <2>3. PartFound(part, Source, step + 1, Stood, failed', ActiveTasks(project))
    BY <1>2, <2>1, <2>2, StatusFinds DEF Current, ReadInv
  <2> QED BY <1>1, <1>2, <2>1, <2>3, DoneKeeps DEF ReadInv
<1> QED BY <1>3, <1>4

LEMMA TasksKeep ==
  ASSUME BriefingInv, ReadsTasks \/ QueryFails
  PROVE  ReadInv'
<1> DEFINE of == Current.of
           listed == Listed(project, of)
<1>1. Reads("tasks")
  BY DEF ReadsTasks, QueryFails
<1>2. /\ Source \in Sources /\ step \in DOMAIN Program(Source)
      /\ Current.read = "tasks" /\ ReadInv
      /\ project \in ProjectStates /\ part \in Snapshots
      /\ PartFound(part, Source, step, Stood, failed, ActiveTasks(project))
      /\ Stood \in SUBSET Facts(project)
      /\ ~part.isFile /\ Cardinality(part.tasks) <= Limit
  BY <1>1, ReadsBegun DEF FileSeen, BriefingInv, BriefingTypeOK
<1>3. of \in {"open", "active"}
  BY <1>2, ReadsWhere DEF Current
<1>4. CASE ReadsTasks
  <2>1. PICK batch \in Answers(listed) :
          \E rows \in Taken(part.tasks, batch) :
            Done([part EXCEPT !.tasks = rows]) /\ failed' = failed
    BY <1>4 DEF ReadsTasks
  <2>8. PICK rows \in Taken(part.tasks, batch) :
          Done([part EXCEPT !.tasks = rows]) /\ failed' = failed
    BY <2>1
  <2>9. /\ batch \subseteq listed
        /\ batch = listed \/ \A t \in LocalTasks : <<"task", t>> \notin Stood
    <3>1. batch \subseteq listed
          /\ (batch = listed \/ Cardinality(batch) >= FacadeLimit)
      BY DEF Answers
    <3>2. ASSUME batch # listed, Cardinality(batch) >= FacadeLimit
          PROVE  \A t \in LocalTasks : <<"task", t>> \notin Stood
      <4>1. IsFiniteSet(listed)
        BY BriefingAssumption, FS_Subset DEF Listed
      <4>2. Cardinality(batch) < Cardinality(listed)
            /\ Cardinality(batch) \in Nat /\ Cardinality(listed) \in Nat
        BY <3>1, <3>2, <4>1, FS_Subset, FS_CardinalityType
      <4>3. <<"crowded", of>> \in Facts(project)
        <5>1. Cardinality(listed) > FacadeLimit
          BY <3>2, <4>2, BriefingAssumption
        <5> QED BY <1>3, <5>1, FactForms
      <4>4. Crowded
        <5>1. ToSet(Queries) = {"open", "active"}
          BY DEF ToSet, Queries
        <5> QED BY <1>2, <1>3, <4>3, <5>1 DEF Crowded, ReadInv
      <4> QED BY <4>4 DEF Stood
    <3> QED BY <3>1, <3>2
  <2>2. /\ rows \in SUBSET LocalTasks
        /\ part.tasks \subseteq rows /\ rows \subseteq part.tasks \cup batch
        /\ batch \cap LocalTasks \subseteq rows \/ Cardinality(rows) = Limit
    BY <1>2, <2>8, TakenTasks DEF Snapshots
  <2> DEFINE read == [part EXCEPT !.tasks = rows]
  <2>3. /\ read \in Snapshots /\ read.locks = part.locks
        /\ read.copies = part.copies /\ read.goal = part.goal
        /\ read.dirs = part.dirs /\ read.isFile = part.isFile
        /\ read.tasks = rows
    BY <1>2, <2>2 DEF Snapshots
  <2> HIDE DEF read
  <2>4. {t \in LocalTasks : project.tasks[t] = of} \subseteq rows
          \/ Cardinality(rows) = Limit
          \/ \A t \in LocalTasks : <<"task", t>> \notin Stood
    BY <2>2, <2>9, BriefingAssumption DEF Listed
  <2>5. PartFound(read, Source, step + 1, Stood, failed', ActiveTasks(project))
    BY <1>2, <2>2, <2>3, <2>4, <2>8, TasksFind DEF Current, ReadInv
  <2>6. Contents(read) \subseteq Seen
    <3>1. \A t \in rows \ part.tasks : <<"task", t>> \in Seen
      BY <1>2, <1>3, <2>2, <2>9, FactForms DEF ReadInv, Seen, Listed
    <3>2. Contents(read) \subseteq
            Contents(part) \cup {<<"task", t>> : t \in rows \ part.tasks}
      BY <2>3 DEF Contents
    <3> QED BY <1>2, <3>1, <3>2 DEF ReadInv
  <2>7. Done(read)
    BY <2>8 DEF read
  <2> QED BY <1>1, <1>2, <2>3, <2>5, <2>6, <2>7, <2>8, DoneKeeps
<1>5. CASE QueryFails
  <2>1. Done(part) /\ failed' = failed \cup {of}
    BY <1>5 DEF QueryFails
  <2>2. PartFound(part, Source, step, Stood, failed', ActiveTasks(project))
    BY <1>2, <2>1, PartStands
  <2>3. PartFound(part, Source, step + 1, Stood, failed', ActiveTasks(project))
    BY <1>2, <2>1, <2>2, TasksFind DEF Current, ReadInv
  <2> QED BY <1>1, <1>2, <2>1, <2>3, DoneKeeps DEF ReadInv
<1> QED BY <1>4, <1>5

LEMMA SkipKeeps ==
  ASSUME BriefingInv, SkipsSource
  PROVE  ReadInv'
<1> USE DEF readVars, factVars
<1>1. /\ turn \in DOMAIN Order /\ failed' = failed \cup {Source}
      /\ turn' = turn + 1 /\ step' = 1
      /\ UNCHANGED <<project, part, snap, seen, held>> /\ ReadInv
      /\ turn \in Nat /\ DOMAIN Order \subseteq Nat
  BY Constants DEF SkipsSource, NextSource, BriefingInv
<1>2. AllComplete(snap, turn, Stood, failed')
  BY <1>1, AllCompleteStands DEF ReadInv
<1>3. AllComplete(snap, turn + 1, Stood, failed')
  <2>1. \A m \in DOMAIN Order : m < turn + 1 => m < turn \/ m = turn
    BY <1>1
  <2> QED BY <1>1, <1>2, <2>1 DEF AllComplete, Source
<1>4. Seen' = Seen /\ Stood' = Stood
  BY <1>1 DEF Seen, CopiesSeen, MovesNamed, Stood, Crowded
<1> QED BY <1>1, <1>3, <1>4 DEF ReadInv

LEMMA MergeInvKeeps ==
  ASSUME BriefingInv, MergesSource
  PROVE  ReadInv'
<1> USE DEF readVars, factVars
<1>1. Reads("merge") /\ turn' = turn + 1 /\ step' = 1
      /\ snap' = Merged(snap, part) /\ snap \in Snapshots
      /\ UNCHANGED <<project, part, failed, seen, held>>
  BY DEF MergesSource, NextSource, BriefingInv, BriefingTypeOK
<1>2. /\ turn \in DOMAIN Order /\ Source \in Sources
      /\ step \in DOMAIN Program(Source)
      /\ Current.read = "merge" /\ ReadInv /\ part \in Snapshots
      /\ PartFound(part, Source, step, Stood, failed, ActiveTasks(project))
      /\ Stood \in SUBSET Facts(project)
  BY <1>1, ReadsBegun
<1>3. Complete(part, Source, Stood, failed)
  BY <1>2, PartComplete DEF Current
<1>4. /\ part.copies # {} =>
           CopiesFound(part, Len(DirectoryOrder) + 1, Stood)
      /\ part.goal # {} => GoalsFound(part, Len(GoalFiles) + 1, Stood, failed)
  BY <1>2, <1>3 DEF PartFound, Complete
<1>5. AllComplete(snap', turn + 1, Stood, failed)
  <2> SUFFICES ASSUME NEW m \in DOMAIN Order, m < turn + 1,
                      Order[m] \notin failed
               PROVE  Complete(Merged(snap, part), Order[m], Stood, failed)
    BY <1>1 DEF AllComplete
  <2>1. CASE m < turn
    <3>1. Complete(snap, Order[m], Stood, failed)
      BY <1>2, <2>1 DEF ReadInv, AllComplete
    <3> QED BY <1>1, <1>2, <1>4, <3>1, MergeKeeps
  <2>2. CASE m = turn
    BY <1>1, <1>2, <1>3, <2>2, MergeAdds DEF Source
  <2> QED BY <1>2, <2>1, <2>2, Constants
<1>6. Contents(snap') \subseteq Seen
  BY <1>1, <1>2, MergedContents DEF ReadInv
<1>7. Seen' = Seen /\ Stood' = Stood
  BY <1>1 DEF Seen, CopiesSeen, MovesNamed, Stood, Crowded
<1> QED BY <1>1, <1>2, <1>5, <1>6, <1>7 DEF ReadInv

LEMMA MovesKeep ==
  ASSUME BriefingInv, NEW p \in ProjectStates, Moves(p)
  PROVE  ReadInv'
<1> USE DEF readVars, factVars
<1>1. /\ project' = p /\ seen' = seen \cup Facts(p)
      /\ held' = (held \cap Facts(p)) \
                   {<<"task", t>> : t \in {u \in Tasks :
                      project.tasks[u] = "active" /\ p.tasks[u] = "open"}}
      /\ UNCHANGED <<turn, step, part, snap, failed>>
      /\ ReadInv /\ project \in ProjectStates
  BY DEF Moves, BriefingInv, BriefingTypeOK
<1>2. held' \in SUBSET held /\ held' \subseteq Facts(project')
      /\ Facts(project') \subseteq seen' /\ Seen \subseteq Seen'
      /\ Stood' \in SUBSET Stood /\ Stood' \subseteq held'
  BY <1>1 DEF Seen, CopiesSeen, MovesNamed, Stood, Crowded
<1>3. \A t \in ActiveTasks(project) :
        <<"task", t>> \in Stood' => t \in ActiveTasks(p)
  <2> SUFFICES ASSUME NEW t \in ActiveTasks(project), <<"task", t>> \in Stood'
               PROVE  t \in ActiveTasks(p)
    OBVIOUS
  <2>3. <<"task", t>> \in held'
    BY <1>2
  <2>1. t \in LocalTasks /\ t \in Tasks /\ p.tasks[t] # "closed"
    BY <1>1, <2>3, FactForms, BriefingAssumption
  <2>2. p.tasks[t] # "open"
    BY <1>1, <2>1, <2>3 DEF ActiveTasks
  <2> QED BY <2>1, <2>2 DEF ActiveTasks, ProjectStates, Statuses
<1>4. AllComplete(snap, turn, Stood', failed)
  BY <1>1, <1>2, AllCompleteStands DEF ReadInv
<1>5. ASSUME turn \in DOMAIN Order, step > 1
      PROVE  PartFound(part, Source, step, Stood', failed, ActiveTasks(p))
             /\ FileSeen'
  <2>1. PartFound(part, Source, step, Stood, failed, ActiveTasks(project))
        /\ FileSeen
    BY <1>1, <1>5 DEF ReadInv
  <2>2. PartFound(part, Source, step, Stood', failed, ActiveTasks(p))
    BY <1>1, <1>2, <1>3, <2>1, PartStands
  <2>3. FileSeen'
    BY <1>1, <2>1 DEF FileSeen, Current, Source
  <2> QED BY <2>2, <2>3
<1> QED BY <1>1, <1>2, <1>4, <1>5 DEF ReadInv, Source

LEMMA ReadStep ==
  BriefingInv /\ [BriefingNext]_briefingVars /\ phase' = "reading" => ReadInv'
<1> SUFFICES ASSUME BriefingInv, [BriefingNext]_briefingVars,
                    phase' = "reading"
             PROVE  ReadInv'
  OBVIOUS
<1> USE DEF readVars, factVars
<1>a. CASE BeginsRead
  <2>1. /\ turn = 1 /\ step = 1 /\ part = Nothing /\ snap = Nothing
        /\ seen' = Facts(project) /\ held' = Facts(project)
        /\ UNCHANGED <<project, turn, step, part, snap, failed>>
    BY <1>a DEF BeginsRead, BriefingInv
  <2>2. Contents(Nothing) = {}
    BY DEF Contents, Nothing
  <2>3. \A h, f : AllComplete(Nothing, 1, h, f)
    BY Constants DEF AllComplete
  <2> QED BY <2>1, <2>2, <2>3 DEF ReadInv
<1>b. CASE OpensSource
  BY <1>b, OpenKeeps
<1>c. CASE SkipsSource
  BY <1>c, SkipKeeps
<1>d. CASE SeesLock
  BY <1>d, LockKeeps
<1>e. CASE SeesCopy
  BY <1>e, CopyKeeps
<1>f. CASE SeesOriginal
  BY <1>f, OriginalKeeps
<1>g. CASE PassesFile
  BY <1>g, PassKeeps
<1>h. CASE ReadsGoal \/ GoalUnreadable
  BY <1>h, GoalKeeps
<1>i. CASE ReadsStatus \/ StatusFails
  BY <1>i, StatusKeeps
<1>j. CASE ReadsTasks \/ QueryFails
  BY <1>j, TasksKeep
<1>k. CASE MergesSource
  BY <1>k, MergeInvKeeps
<1>l. CASE Speaks \/ NothingAvailable \/ StartsSession
  BY <1>l DEF Speaks, NothingAvailable, StartsSession
<1>m. project \in ProjectStates
  BY DEF BriefingInv, BriefingTypeOK
<1>n. CASE LockMoves
  <2>1. PICK p \in ProjectStates : Moves(p)
    BY <1>m, <1>n DEF LockMoves, ProjectStates
  <2> QED BY <2>1, MovesKeep
<1>o. CASE GoalMoves
  <2>1. PICK p \in ProjectStates : Moves(p)
    BY <1>m, <1>o DEF GoalMoves, ProjectStates
  <2> QED BY <2>1, MovesKeep
<1>p. CASE WorktreeMoves
  <2>1. PICK p \in ProjectStates : Moves(p)
    BY <1>m, <1>p DEF WorktreeMoves, ProjectStates
  <2> QED BY <2>1, MovesKeep
<1>q. CASE TaskMoves
  <2>1. PICK p \in ProjectStates : Moves(p)
    BY <1>m, <1>q DEF TaskMoves, ProjectStates
  <2> QED BY <2>1, MovesKeep
<1>r. CASE UNCHANGED briefingVars
  BY <1>r DEF briefingVars, BriefingInv, ReadInv, PartFound, FileSeen, Source,
              Current, Seen, CopiesSeen, MovesNamed, Stood, Crowded
<1> QED BY <1>a, <1>b, <1>c, <1>d, <1>e, <1>f, <1>g, <1>h, <1>i, <1>j, <1>k,
           <1>l, <1>n, <1>o, <1>p, <1>q, <1>r
        DEF BriefingNext

-----------------------------------------------------------------------------
(* The message                                                             *)

LEMMA SilentHolds ==
  ASSUME shown = [kind |-> "none", facts |-> {}]
  PROVE  NothingInvented /\ NothingLost /\ GoalStands
BY DEF NothingInvented, NothingLost, GoalStands

(* When the read has ended every source that did not fail has its say in   *)
(* the snapshot.                                                           *)
LEMMA ReadEnds ==
  ASSUME BriefingInv, Speaks
  PROVE  /\ \A source \in ToSet(Order) \ failed :
              Complete(snap, source, Stood, failed)
         /\ snap \in Snapshots /\ ReadInv /\ BriefingTypeOK
<1>1. BriefingTypeOK /\ ReadInv /\ turn > Len(Order) /\ snap \in Snapshots
  BY DEF Speaks, BriefingInv, BriefingTypeOK
<1> QED BY <1>1, Constants DEF ReadInv, AllComplete, ToSet, BriefingTypeOK

LEMMA SaysOnlyTrue ==
  ASSUME BriefingInv, Speaks
  PROVE  NothingInvented'
<1>1. PICK kind \in Kinds :
        shown' = [kind |-> kind,
                  facts |-> {f \in Contents(snap) : f[1] \in Topics(kind)}]
  BY DEF Speaks
<1>2. Contents(snap) \subseteq Seen /\ seen' = seen
  BY ReadEnds DEF ReadInv, Speaks, factVars
<1> QED BY <1>1, <1>2 DEF NothingInvented, Seen, CopiesSeen, MovesNamed

(* The facts of a message about tasks are as many as the tasks.            *)
LEMMA TaskFactsCount ==
  ASSUME NEW s \in Snapshots
  PROVE  LET F == {<<"task", t>> : t \in s.tasks}
         IN IsFiniteSet(F) /\ Cardinality(F) = Cardinality(s.tasks)
<1> DEFINE T == s.tasks
           F == {<<"task", t>> : t \in T}
           g == [t \in T |-> <<"task", t>>]
<1>1. IsFiniteSet(T)
  BY BriefingAssumption, FS_Subset DEF Snapshots
<1>2. g \in Bijection(T, F)
  <2>1. g \in [T -> F]
    OBVIOUS
  <2>2. \A a, b \in T : g[a] = g[b] => a = b
    OBVIOUS
  <2>3. \A x \in F : \E t \in T : g[t] = x
    OBVIOUS
  <2> HIDE DEF g, F
  <2> QED BY <2>1, <2>2, <2>3 DEF Bijection, Injection, Surjection, IsInjective
<1> HIDE DEF g, F, T
<1>3. ExistsBijection(T, F)
  BY <1>2 DEF ExistsBijection
<1>4. IsFiniteSet(F) /\ Cardinality(F) = Cardinality(T)
  BY <1>1, <1>3, FS_Bijection
<1> QED BY <1>4 DEF F, T

LEMMA SaysAll ==
  ASSUME BriefingInv, Speaks
  PROVE  NothingLost'
<1>1. PICK kind \in Kinds :
        shown' = [kind |-> kind,
                  facts |-> {f \in Contents(snap) : f[1] \in Topics(kind)}]
  BY DEF Speaks
<1>2. held' = held /\ failed' = failed /\ project' = project
  BY DEF Speaks, factVars
<1>3. /\ \A source \in ToSet(Order) \ failed :
           Complete(snap, source, Stood, failed)
      /\ snap \in Snapshots /\ ReadInv /\ project \in ProjectStates
  BY ReadEnds DEF BriefingTypeOK
<1> SUFFICES ASSUME NEW fact \in held, fact[1] \in Topics(kind),
                    Answered(fact)
             PROVE  \/ fact \in Contents(snap)
                    \/ /\ fact[1] = "task"
                       /\ \/ Cardinality({f \in shown'.facts : f[1] = "task"})
                               >= Limit
                          \/ Crowded
  <2>1. Crowded' = Crowded
    BY DEF Speaks, factVars, Crowded
  <2> QED BY <1>1, <1>2, <2>1 DEF NothingLost, Answered
<1>4. fact \in Facts(project)
  BY <1>3 DEF ReadInv
<1>5. CASE fact[1] = "lock"
  <2>1. PICK f \in LockFiles : fact = <<"lock", f>>
    BY <1>3, <1>4, <1>5 DEF Facts, ProjectStates
  <2>2. LocksFound(snap, Len(DirectoryOrder) + 1, Stood)
    BY <1>3, <1>5 DEF Answered, Complete
  <2>3. f \in snap.locks
    <3>1. <<"lock", f>> \in Stood
      BY <2>1 DEF Stood
    <3> QED BY <2>2, <3>1, LockFileListed, Constants DEF LocksFound
  <2> QED BY <2>1, <2>3, ContentForms
<1>6. CASE fact[1] = "copy"
  <2>1. PICK f \in LockFiles : fact = <<"copy", f>>
    BY <1>3, <1>4, <1>6 DEF Facts, ProjectStates
  <2>2. CopiesFound(snap, Len(DirectoryOrder) + 1, Stood)
    BY <1>3, <1>6 DEF Answered, Complete
  <2>3. f \in snap.copies
    <3>1. <<"copy", f>> \in Stood
      BY <2>1 DEF Stood
    <3> QED BY <2>2, <3>1, LockFileListed, Constants DEF CopiesFound
  <2> QED BY <2>1, <2>3, ContentForms
<1>7. CASE fact[1] = "dir"
  <2>1. PICK d : fact = <<"dir", <<d>>>>
    BY <1>3, <1>4, <1>7 DEF Facts
  <2>4. <<"listed", <<d>>>> \in held
    BY <1>7, <2>1 DEF Answered
  <2>5. PICK c \in Changes : d = c.from
    BY <1>3, <2>4, FactForms DEF ReadInv, ProjectStates
  <2>2. DirsFound(snap, Stood, failed) /\ "git" \notin failed
    BY <1>3, <1>7 DEF Answered, Complete
  <2>3. <<c.from>> \in snap.dirs
    <3>1. <<"listed", <<c.from>>>> \in Stood
      BY <2>4, <2>5 DEF Stood
    <3> QED BY <2>2, <3>1 DEF DirsFound
  <2> QED BY <2>1, <2>3, <2>5, ContentForms
<1>8. CASE fact[1] = "task"
  <2>1. PICK t \in LocalTasks : fact = <<"task", t>>
    BY <1>3, <1>4, <1>8 DEF Facts
  <2>2. /\ TasksFound(snap, {"open", "active"}, {}, Stood, failed)
        /\ {"open", "active"} \cap failed = {}
    <3>1. ToSet(Queries) = {"open", "active"}
      BY DEF ToSet, Queries
    <3> QED BY <1>3, <1>8, <3>1 DEF Answered, Complete
  <2>3. t \in snap.tasks \/ Cardinality(snap.tasks) >= Limit \/ Crowded
    BY <2>1, <2>2, StoodFacts DEF TasksFound
  <2>4. CASE t \in snap.tasks
    BY <2>1, <2>4, ContentForms
  <2>5. CASE Cardinality(snap.tasks) >= Limit
    <3>1. {f \in shown'.facts : f[1] = "task"}
            = {<<"task", u>> : u \in snap.tasks}
      BY <1>1, <1>8 DEF Contents
    <3> QED BY <1>3, <1>8, <2>5, <3>1, TaskFactsCount
  <2>6. CASE Crowded
    BY <1>8, <2>6
  <2> QED BY <2>3, <2>4, <2>5, <2>6
<1>9. CASE fact[1] \notin {"lock", "copy", "dir", "task"}
  BY <1>9 DEF Answered
<1> QED BY <1>5, <1>6, <1>7, <1>8, <1>9

LEMMA SaysFirstGoal ==
  ASSUME BriefingInv, Speaks
  PROVE  GoalStands'
<1>1. PICK kind \in Kinds :
        shown' = [kind |-> kind,
                  facts |-> {f \in Contents(snap) : f[1] \in Topics(kind)}]
  BY DEF Speaks
<1>2. held' = held /\ failed' = failed
  BY DEF Speaks, factVars
<1>3. \A source \in ToSet(Order) \ failed :
        Complete(snap, source, Stood, failed)
  BY ReadEnds
<1> SUFFICES ASSUME NEW i \in DOMAIN GoalFiles, NEW text \in Goals,
                    kind \in {"goal", "loop"}, GoalHolds(i, text, held, failed),
                    NEW s \in {"files", "goal"}, s \in ToSet(Order) \ failed
             PROVE  {f \in shown'.facts : f[1] = "goal"}
                      = {<<"goal", GoalFiles[i], text>>}
  BY <1>1, <1>2 DEF GoalStands, GoalHolds
<1>4. GoalsFound(snap, Len(GoalFiles) + 1, Stood, failed)
  BY <1>3 DEF Complete
<1>5. i < Len(GoalFiles) + 1
  BY Constants
<1>6. snap.goal = {<<GoalFiles[i], text>>}
  <2>1. GoalHolds(i, text, Stood, failed)
    BY StoodFacts DEF GoalHolds
  <2> QED BY <1>4, <1>5, <2>1 DEF GoalsFound
<1>7. "goal" \in Topics(kind)
  BY DEF Topics
<1>8. {f \in Contents(snap) : f[1] = "goal"} = {<<"goal", GoalFiles[i], text>>}
  BY <1>6 DEF Contents
<1> QED BY <1>1, <1>7, <1>8

-----------------------------------------------------------------------------
(* Sorted lists                                                            *)

(* What proves by induction a fact of all subsets of a finite set: if some *)
(* subset is bad, so is one all of whose proper subsets are good.          *)
LEMMA MinimalSet ==
  ASSUME NEW S, IsFiniteSet(S), NEW Bad \in SUBSET SUBSET S, Bad # {}
  PROVE  \E T \in Bad : \A U \in Bad : ~(U \subseteq T /\ U # T)
<1>1. IsWellFoundedOn(StrictSubsetOrdering(S), FiniteSubsetsOf(S))
  BY FS_StrictSubsetOrderingWellFounded
<1>2. Bad \subseteq FiniteSubsetsOf(S)
  BY FS_Subset DEF FiniteSubsetsOf
<1>3. \E T \in Bad : \A U \in Bad : ~(<<U, T>> \in StrictSubsetOrdering(S))
  BY <1>1, <1>2, WFMin
<1> QED BY <1>3 DEF StrictSubsetOrdering

Total(R, S) == \A x, y \in S : x # y => <<x, y>> \in R \/ <<y, x>> \in R

Transitive(R, S) ==
  \A x, y, z \in S : <<x, y>> \in R /\ <<y, z>> \in R => <<x, z>> \in R

LEMMA LeastElement ==
  ASSUME NEW S, IsFiniteSet(S), S # {}, NEW R, Total(R, S), Transitive(R, S)
  PROVE  \E x \in S : \A y \in S \ {x} : <<x, y>> \in R
<1> DEFINE Bad == {T \in SUBSET S :
                     T # {} /\ ~\E x \in T : \A y \in T \ {x} : <<x, y>> \in R}
<1> SUFFICES ASSUME Bad # {} PROVE FALSE
  OBVIOUS
<1>1. PICK T \in Bad : \A U \in Bad : ~(U \subseteq T /\ U # T)
  <2>1. Bad \in SUBSET SUBSET S
    OBVIOUS
  <2> HIDE DEF Bad
  <2> QED BY <2>1, MinimalSet
<1>2. PICK x \in T : TRUE
  OBVIOUS
<1>3. T \ {x} # {}
  BY <1>2
<1>4. T \ {x} \notin Bad /\ T \ {x} \in SUBSET S
  BY <1>1, <1>2
<1>5. PICK z \in T \ {x} : \A y \in (T \ {x}) \ {z} : <<z, y>> \in R
  BY <1>3, <1>4
<1>6. CASE <<z, x>> \in R
  BY <1>2, <1>5, <1>6
<1>7. CASE <<x, z>> \in R
  BY <1>2, <1>5, <1>7 DEF Transitive
<1> QED BY <1>2, <1>5, <1>6, <1>7 DEF Total

Sorted(list, R) ==
  \A m, n \in DOMAIN list : m < n => <<list[m], list[n]>> \in R

(* A finite set has a list that is sorted by a total order on it.          *)
LEMMA SortedList ==
  ASSUME NEW S, IsFiniteSet(S), NEW R, Total(R, S), Transitive(R, S)
  PROVE  \E list \in SetToSeqs(S) : Sorted(list, R)
<1> DEFINE Bad == {T \in SUBSET S : ~\E list \in SetToSeqs(T) : Sorted(list, R)}
<1> SUFFICES ASSUME Bad # {} PROVE FALSE
  OBVIOUS
<1>1. PICK T \in Bad : \A U \in Bad : ~(U \subseteq T /\ U # T)
  <2>1. Bad \in SUBSET SUBSET S
    OBVIOUS
  <2> HIDE DEF Bad
  <2> QED BY <2>1, MinimalSet
<1>2. IsFiniteSet(T) /\ Cardinality(T) \in Nat
  BY FS_Subset, FS_CardinalityType
<1>3. T # {}
  <2> SUFFICES ASSUME T = {} PROVE FALSE
    OBVIOUS
  <2> DEFINE none == [m \in 1 .. Cardinality({}) |-> m]
  <2>1. none \in SetToSeqs({}) /\ Sorted(none, R)
    BY FS_EmptySet DEF SetToSeqs, Sorted
  <2> QED BY <2>1
<1>4. PICK x \in T : \A y \in T \ {x} : <<x, y>> \in R
  <2>1. Total(R, T) /\ Transitive(R, T)
    BY DEF Total, Transitive
  <2> QED BY <1>2, <1>3, <2>1, LeastElement
<1> DEFINE U == T \ {x}
           N == Cardinality(T)
<1>5. Cardinality(U) = N - 1 /\ N \in Nat \ {0}
  BY <1>2, <1>3, <1>4, FS_RemoveElement, FS_EmptySet
<1>6. PICK list \in SetToSeqs(U) : Sorted(list, R)
  BY <1>1, <1>4
<1>7. /\ list \in [1 .. N - 1 -> U]
      /\ \A m, n \in 1 .. N - 1 : m # n => list[m] # list[n]
      /\ \A m, n \in 1 .. N - 1 : m < n => <<list[m], list[n]>> \in R
  BY <1>5, <1>6 DEF SetToSeqs, Sorted
<1> DEFINE more == [m \in 1 .. N |-> IF m = 1 THEN x ELSE list[m - 1]]
<1> HIDE DEF N
<1>8. \A m \in 1 .. N : m # 1 => m - 1 \in 1 .. N - 1 /\ more[m] \in U
  BY <1>5, <1>7
<1>9. more \in [1 .. N -> T] /\ more[1] = x
  BY <1>4, <1>5, <1>8
<1>10. \A m, n \in 1 .. N : m # n => more[m] # more[n]
  <2> SUFFICES ASSUME NEW m \in 1 .. N, NEW n \in 1 .. N, m < n
               PROVE  more[m] # more[n]
    OBVIOUS
  <2>1. CASE m = 1
    BY <1>8, <1>9, <2>1
  <2>2. CASE m # 1
    <3>1. m - 1 \in 1 .. N - 1 /\ n - 1 \in 1 .. N - 1 /\ m - 1 # n - 1
      BY <1>5, <2>2
    <3> QED BY <1>7, <2>2, <3>1
  <2> QED BY <2>1, <2>2
<1>11. \A m, n \in 1 .. N : m < n => <<more[m], more[n]>> \in R
  <2> SUFFICES ASSUME NEW m \in 1 .. N, NEW n \in 1 .. N, m < n
               PROVE  <<more[m], more[n]>> \in R
    OBVIOUS
  <2>1. CASE m = 1
    BY <1>4, <1>8, <1>9, <2>1
  <2>2. CASE m # 1
    <3>1. m - 1 \in 1 .. N - 1 /\ n - 1 \in 1 .. N - 1 /\ m - 1 < n - 1
      BY <1>5, <2>2
    <3> QED BY <1>7, <2>2, <3>1
  <2> QED BY <2>1, <2>2
<1>12. more \in SetToSeqs(T) /\ Sorted(more, R)
  BY <1>9, <1>10, <1>11 DEF SetToSeqs, Sorted, N
<1> QED BY <1>12

-----------------------------------------------------------------------------
(* The closest rules                                                       *)

Closeness(entry, candidates) ==
  {n \in 1 .. 3 : \E c \in candidates : Binds(entry, n, c)}

LEMMA StrictPrefixes ==
  ASSUME NEW S, NEW s \in Seq(S), NEW c \in Seq(S)
  PROVE  IsStrictPrefix(s, c) <=> \E n \in 0 .. Len(c) - 1 : s = SubSeq(c, 1, n)
<1>1. Len(s) \in Nat /\ Len(c) \in Nat
  OBVIOUS
<1>2. SubSeq(s, 1, Len(s)) = s /\ SubSeq(c, 1, Len(c)) = c
  BY SubSeqFull
<1>3. ASSUME IsStrictPrefix(s, c)
      PROVE  \E n \in 0 .. Len(c) - 1 : s = SubSeq(c, 1, n)
  <2>1. Len(s) <= Len(c) /\ s = SubSeq(c, 1, Len(s)) /\ s # c
    BY <1>2, <1>3 DEF IsStrictPrefix, IsPrefix
  <2>2. Len(s) # Len(c)
    BY <1>2, <2>1
  <2>3. Len(s) \in 0 .. Len(c) - 1
    BY <1>1, <2>1, <2>2
  <2> QED BY <2>1, <2>3
<1>4. ASSUME NEW n \in 0 .. Len(c) - 1, s = SubSeq(c, 1, n)
      PROVE  IsStrictPrefix(s, c)
  <2>1. \A i \in 1 .. n : c[i] \in S
    BY <1>1
  <2>2. Len(SubSeq(c, 1, n)) = n
    BY <1>1, <2>1, SubSeqProperties
  <2>3. Len(s) = n /\ n <= Len(c) /\ n # Len(c)
    BY <1>1, <1>4, <2>2
  <2>4. SubSeq(s, 1, Len(s)) = SubSeq(c, 1, Len(s))
    BY <1>2, <1>4, <2>3
  <2> QED BY <2>3, <2>4 DEF IsStrictPrefix, IsPrefix
<1> QED BY <1>3, <1>4

(* How closely an entry binds a scope is the rank of their relation.       *)
LEMMA RankIsCloseness ==
  ASSUME NEW e \in Entries, NEW c \in Seq(STRING)
  PROVE  /\ RelationRank(e, c) \in -1 .. 3
         /\ \A n \in 1 .. 3 :
              Binds(e, n, c) <=> e.active /\ RelationRank(e, c) = n
<1> DEFINE strict == IsStrictPrefix(e.scope, c)
<1>1. /\ e.scope \in Seq(STRING) /\ e.below \in BOOLEAN
      /\ e.global \in BOOLEAN /\ e.active \in BOOLEAN
  BY DEF Entries
<1>2. strict <=> \E n \in 0 .. Len(c) - 1 : e.scope = SubSeq(c, 1, n)
  BY <1>1, StrictPrefixes
<1>3. strict <=> IsPrefix(e.scope, c) /\ e.scope # c
  BY DEF IsStrictPrefix
<1> HIDE DEF strict
<1>4. RelationRank(e, c) =
        IF e.global THEN 0
        ELSE IF e.below THEN (IF strict THEN 2 ELSE -1)
        ELSE IF e.scope = c THEN 3 ELSE IF strict THEN 1 ELSE -1
  BY <1>1, <1>3 DEF RelationRank, strict
<1>5. /\ Binds(e, 3, c) <=>
           e.active /\ ~e.global /\ ~e.below /\ e.scope = c
      /\ Binds(e, 2, c) <=> e.active /\ ~e.global /\ e.below /\ strict
      /\ Binds(e, 1, c) <=> e.active /\ ~e.global /\ ~e.below /\ strict
  BY <1>2 DEF Binds
<1>6. strict => e.scope # c
  BY <1>3
<1> QED BY <1>1, <1>4, <1>5, <1>6

LEMMA MatchesAreCloseness ==
  ASSUME NEW e \in Entries, NEW C \in SUBSET Seq(STRING), e.active
  PROVE  Matches(e, C) = {<<n, Len(e.scope)>> : n \in Closeness(e, C)}
<1>1. \A c \in C : /\ RelationRank(e, c) \in -1 .. 3
                   /\ \A n \in 1 .. 3 :
                        Binds(e, n, c) <=> RelationRank(e, c) = n
  BY RankIsCloseness
<1> QED BY <1>1 DEF Matches, Precedence, Closeness

(* The precedence of an entry is how closely it binds at best, with the    *)
(* depth of its scope.                                                     *)
LEMMA BestIsClosest ==
  ASSUME NEW e \in Entries, NEW C \in SUBSET Seq(STRING), e.active,
         Closeness(e, C) # {}
  PROVE  \E n \in Closeness(e, C) :
           /\ BestRank(e, C) = <<n, Len(e.scope)>>
           /\ \A l \in Closeness(e, C) : l <= n
<1>1. PICK n \in Closeness(e, C) : \A l \in Closeness(e, C) : l <= n
  <2>1. Closeness(e, C) \subseteq 1 .. 3
    BY DEF Closeness
  <2> QED BY <2>1
<1>2. Matches(e, C) = {<<m, Len(e.scope)>> : m \in Closeness(e, C)}
  BY MatchesAreCloseness
<1>3. Closeness(e, C) \subseteq 1 .. 3 /\ Len(e.scope) \in Nat
  BY DEF Closeness, Entries
<1>4. \A q \in Matches(e, C) : ~Outranks(q, <<n, Len(e.scope)>>)
  BY <1>1, <1>2, <1>3 DEF Outranks
<1>5. \A p \in Matches(e, C) :
        (\A q \in Matches(e, C) : ~Outranks(q, p)) => p = <<n, Len(e.scope)>>
  <2> SUFFICES ASSUME NEW m \in Closeness(e, C),
                      ~Outranks(<<n, Len(e.scope)>>, <<m, Len(e.scope)>>)
               PROVE  m = n
    BY <1>1, <1>2
  <2> QED BY <1>1, <1>3 DEF Outranks
<1>6. BestRank(e, C) = <<n, Len(e.scope)>>
  BY <1>1, <1>2, <1>4, <1>5 DEF BestRank
<1> QED BY <1>1, <1>6

LesserOf(m, n) == IF m < n THEN m ELSE n

Before(registry, C, i, k) ==
  LET p == BestRank(registry[i], C)
      q == BestRank(registry[k], C)
  IN Outranks(p, q) \/ (p = q /\ i < k)

(* The entries that apply are those that bind some candidate, and their    *)
(* order compares how closely, then how deep, then which is first.         *)
LEMMA ApplicableAreBound ==
  ASSUME NEW registry \in Seq(Entries), NEW C \in SUBSET Seq(STRING)
  PROVE  /\ Applicable(registry, C) =
              {i \in DOMAIN registry : Closeness(registry[i], C) # {}}
         /\ \A i \in Applicable(registry, C) :
              \E n \in Closeness(registry[i], C) :
                /\ BestRank(registry[i], C) = <<n, Len(registry[i].scope)>>
                /\ \A l \in Closeness(registry[i], C) : l <= n
<1>1. \A i \in DOMAIN registry : registry[i] \in Entries
  BY ElementOfSeq
<1>2. \A i \in DOMAIN registry :
        Closeness(registry[i], C) # {} => registry[i].active
  BY DEF Closeness, Binds
<1>3. \A i \in DOMAIN registry :
        registry[i].active =>
          (Matches(registry[i], C) # {} <=> Closeness(registry[i], C) # {})
  <2> SUFFICES ASSUME NEW i \in DOMAIN registry, registry[i].active
               PROVE  Matches(registry[i], C) # {}
                        <=> Closeness(registry[i], C) # {}
    OBVIOUS
  <2>1. Matches(registry[i], C)
          = {<<n, Len(registry[i].scope)>> : n \in Closeness(registry[i], C)}
    BY <1>1, MatchesAreCloseness
  <2> QED BY <2>1
<1>4. Applicable(registry, C) =
        {i \in DOMAIN registry : Closeness(registry[i], C) # {}}
  BY <1>2, <1>3 DEF Applicable
<1>5. ASSUME NEW i \in Applicable(registry, C)
      PROVE  \E n \in Closeness(registry[i], C) :
               /\ BestRank(registry[i], C) = <<n, Len(registry[i].scope)>>
               /\ \A l \in Closeness(registry[i], C) : l <= n
  BY <1>1, <1>2, <1>4, BestIsClosest
<1> QED BY <1>4, <1>5

(* Ranked lists every entry that applies once, each before those that come *)
(* behind it in that order.                                                *)
LEMMA RankedList ==
  ASSUME NEW registry \in Seq(Entries), NEW C \in SUBSET Seq(STRING)
  PROVE  LET A == Applicable(registry, C)
             list == Ranked(registry, C)
             N == Cardinality(A)
         IN /\ N \in Nat /\ list \in [1 .. N -> A]
            /\ \A i \in A : \E m \in 1 .. N : list[m] = i
            /\ \A m, n \in 1 .. N :
                 m < n => ~Before(registry, C, list[n], list[m])
<1> DEFINE A == Applicable(registry, C)
           N == Cardinality(A)
           rank(i) == BestRank(registry[i], C)
           before(i, k) == \/ Outranks(rank(i), rank(k))
                           \/ rank(i) = rank(k) /\ i < k
           R == {e \in A \X A : before(e[1], e[2])}
<1>1. /\ A \subseteq DOMAIN registry /\ DOMAIN registry = 1 .. Len(registry)
      /\ Len(registry) \in Nat
  BY DEF Applicable
<1>2. IsFiniteSet(A) /\ N \in Nat
  <2>1. IsFiniteSet(1 .. Len(registry)) /\ A \in SUBSET (1 .. Len(registry))
    BY <1>1, FS_Interval
  <2> QED BY <2>1, FS_Subset, FS_CardinalityType
<1>3. \A i \in A : rank(i) \in Nat \X Nat /\ i \in Nat
  <2> SUFFICES ASSUME NEW i \in A PROVE rank(i) \in Nat \X Nat /\ i \in Nat
    OBVIOUS
  <2>1. PICK n \in Closeness(registry[i], C) :
          rank(i) = <<n, Len(registry[i].scope)>>
    BY ApplicableAreBound
  <2>2. n \in Nat /\ Len(registry[i].scope) \in Nat
    BY <1>1, ElementOfSeq DEF Closeness, Entries
  <2> QED BY <1>1, <2>1, <2>2
<1>4. \A i, k \in A : <<i, k>> \in R <=> before(i, k)
  OBVIOUS
<1> HIDE DEF R, N, A, rank
<1>5. Total(R, A)
  <2> SUFFICES ASSUME NEW i \in A, NEW k \in A, i # k
               PROVE  before(i, k) \/ before(k, i)
    BY <1>4 DEF Total
  <2>1. /\ rank(i)[1] \in Nat /\ rank(i)[2] \in Nat
        /\ rank(k)[1] \in Nat /\ rank(k)[2] \in Nat
        /\ rank(i) = <<rank(i)[1], rank(i)[2]>>
        /\ rank(k) = <<rank(k)[1], rank(k)[2]>>
    BY <1>3
  <2> QED BY <1>3, <2>1 DEF Outranks
<1>6. Transitive(R, A)
  <2> SUFFICES ASSUME NEW i \in A, NEW k \in A, NEW l \in A,
                      before(i, k), before(k, l)
               PROVE  before(i, l)
    BY <1>4 DEF Transitive
  <2>1. /\ rank(i)[1] \in Nat /\ rank(i)[2] \in Nat
        /\ rank(k)[1] \in Nat /\ rank(k)[2] \in Nat
        /\ rank(l)[1] \in Nat /\ rank(l)[2] \in Nat
    BY <1>3
  <2> QED BY <1>3, <2>1 DEF Outranks
<1>7. \A i, k \in A : ~(before(i, k) /\ before(k, i))
  <2> SUFFICES ASSUME NEW i \in A, NEW k \in A, before(i, k), before(k, i)
               PROVE  FALSE
    OBVIOUS
  <2>1. /\ rank(i)[1] \in Nat /\ rank(i)[2] \in Nat
        /\ rank(k)[1] \in Nat /\ rank(k)[2] \in Nat
    BY <1>3
  <2> QED BY <1>3, <2>1 DEF Outranks
<1>8. PICK some \in SetToSeqs(A) : Sorted(some, R)
  BY <1>2, <1>5, <1>6, SortedList
<1> DEFINE OfA(list) == \A m, n \in DOMAIN list : m < n => before(list[m], list[n])
           list == Ranked(registry, C)
<1>9. \A l \in SetToSeqs(A) : Sorted(l, R) => OfA(l)
  <2> SUFFICES ASSUME NEW l \in SetToSeqs(A), Sorted(l, R) PROVE OfA(l)
    OBVIOUS
  <2>1. \A m \in DOMAIN l : l[m] \in A
    BY DEF SetToSeqs
  <2> QED BY <1>4, <2>1 DEF Sorted
<1>10. list = CHOOSE l \in SetToSeqs(A) : OfA(l)
  BY DEF Ranked, A, rank
<1> HIDE DEF list
<1>11. list \in SetToSeqs(A) /\ OfA(list)
  <2>1. \E l \in SetToSeqs(A) : OfA(l)
    BY <1>8, <1>9
  <2> HIDE DEF OfA
  <2> QED BY <1>10, <2>1
<1>12. /\ list \in [1 .. N -> A]
       /\ \A m, n \in 1 .. N : m # n => list[m] # list[n]
  BY <1>11 DEF SetToSeqs, N
<1>13. \A i \in A : \E m \in 1 .. N : list[m] = i
  <2>1. list \in Injection(1 .. N, A)
    BY <1>12 DEF Injection, IsInjective
  <2>2. Cardinality(1 .. N) = N
    BY <1>2, FS_Interval
  <2>3. list \in Surjection(1 .. N, A)
    BY <1>2, <2>1, <2>2, FS_Injection DEF N
  <2> QED BY <2>3 DEF Surjection
<1>14. \A m, n \in 1 .. N : m < n => ~before(list[n], list[m])
  BY <1>7, <1>11, <1>12
<1> QED BY <1>2, <1>12, <1>13, <1>14 DEF A, N, list, rank, Before

(* The rules that are shown are the first of the list.                     *)
LEMMA ShownAreFirst ==
  ASSUME NEW registry \in Seq(Entries), NEW C \in SUBSET Seq(STRING)
  PROVE  LET A == Applicable(registry, C)
             list == Ranked(registry, C)
             N == Cardinality(A)
             n == LesserOf(MaxEntries, N)
             places == RulesShown(registry, C)
         IN /\ Len(places) = n /\ DOMAIN places = 1 .. n
            /\ \A k \in 1 .. n : places[k] = list[k]
<1> DEFINE A == Applicable(registry, C)
           list == Ranked(registry, C)
           N == Cardinality(A)
           n == LesserOf(MaxEntries, N)
<1>1. N \in Nat /\ list \in [1 .. N -> A]
  BY RankedList
<1> HIDE DEF A, list, N
<1>2. Len(list) = N /\ n \in Nat /\ n <= N
  BY <1>1, MaxEntriesAssumption, SeqDef, LenProperties DEF LesserOf
<1>3. RulesShown(registry, C) = SubSeq(list, 1, n)
  BY <1>2 DEF RulesShown, list, LesserOf
<1>4. \A i \in 1 .. n : list[i] \in A
  BY <1>1, <1>2
<1> HIDE DEF n
<1>5. /\ SubSeq(list, 1, n) \in Seq(A) /\ Len(SubSeq(list, 1, n)) = n
      /\ \A i \in 1 .. n : SubSeq(list, 1, n)[i] = list[i]
  <2>1. /\ SubSeq(list, 1, n) \in Seq(A)
        /\ Len(SubSeq(list, 1, n)) = IF 1 <= n THEN n - 1 + 1 ELSE 0
        /\ \A i \in 1 .. n - 1 + 1 : SubSeq(list, 1, n)[i] = list[1 + i - 1]
    BY <1>2, <1>4, SubSeqProperties
  <2>2. \A i \in 1 .. n : i \in 1 .. n - 1 + 1 /\ 1 + i - 1 = i
    BY <1>2
  <2> QED BY <1>2, <2>1, <2>2
<1> QED BY <1>3, <1>5 DEF A, list, N, n

LEMMA CandidatesAreScopes ==
  ASSUME NEW path \in Seq(STRING)
  PROVE  CandidateScopes(path) \in SUBSET Seq(STRING)
<1>1. \A i \in DOMAIN path : SubSeq(path, i + 1, Len(path)) \in Seq(STRING)
  <2> SUFFICES ASSUME NEW i \in DOMAIN path
               PROVE  SubSeq(path, i + 1, Len(path)) \in Seq(STRING)
    OBVIOUS
  <2>1. i \in Nat /\ Len(path) \in Nat
    OBVIOUS
  <2>2. \A k \in i + 1 .. Len(path) : path[k] \in STRING
    BY <2>1
  <2> QED BY <2>1, <2>2, SubSeqProperties
<1>2. \A i \in DOMAIN path :
        i + 2 \in DOMAIN path => <<path[i + 2]>> \in Seq(STRING)
  <2> SUFFICES ASSUME NEW i \in DOMAIN path, i + 2 \in DOMAIN path
               PROVE  <<path[i + 2]>> \in Seq(STRING)
    OBVIOUS
  <2>1. path[i + 2] \in STRING
    OBVIOUS
  <2> QED BY <2>1
<1> QED BY <1>1, <1>2 DEF CandidateScopes, FirstOf

LEMMA ShownAreClosest ==
  ASSUME NEW path \in Seq(STRING), NEW registry \in Seq(Entries)
  PROVE  Closest(RulesShown(registry, CandidateScopes(path)), registry,
                 CandidateScopes(path))
<1> DEFINE C == CandidateScopes(path)
           A == Applicable(registry, C)
           list == Ranked(registry, C)
           N == Cardinality(A)
           n == LesserOf(MaxEntries, N)
           places == RulesShown(registry, C)
           closeness(i) == Closeness(registry[i], C)
           closer(i, k) ==
             \E a \in closeness(i) : \A l \in closeness(k) :
               \/ a > l
               \/ a = l /\ Len(registry[i].scope) > Len(registry[k].scope)
<1>1. C \in SUBSET Seq(STRING)
  BY CandidatesAreScopes
<1> HIDE DEF C
<1>2. /\ N \in Nat /\ list \in [1 .. N -> A]
      /\ \A i \in A : \E m \in 1 .. N : list[m] = i
      /\ \A l, m \in 1 .. N : l < m => ~Before(registry, C, list[m], list[l])
  BY <1>1, RankedList
<1>3. /\ Len(places) = n /\ DOMAIN places = 1 .. n
      /\ \A k \in 1 .. n : places[k] = list[k]
  BY <1>1, ShownAreFirst
<1>4. /\ A = {i \in DOMAIN registry : closeness(i) # {}}
      /\ \A i \in A : \E m \in closeness(i) :
           /\ BestRank(registry[i], C) = <<m, Len(registry[i].scope)>>
           /\ \A l \in closeness(i) : l <= m
  BY <1>1, ApplicableAreBound
<1>5. \A i \in DOMAIN registry :
        closeness(i) \subseteq Nat /\ Len(registry[i].scope) \in Nat
  <2> TAKE i \in DOMAIN registry
  <2>1. registry[i] \in Entries
    BY ElementOfSeq
  <2> QED BY <2>1 DEF Closeness, Entries
<1> HIDE DEF A, list, N, places, closeness
<1>6. n \in Nat /\ n <= N /\ (n = MaxEntries \/ n = N)
  BY <1>2, MaxEntriesAssumption DEF LesserOf
<1> HIDE DEF n
<1>7. \A k \in DOMAIN places : closeness(places[k]) # {}
  BY <1>2, <1>3, <1>4, <1>6
<1>8. ASSUME NEW i \in DOMAIN registry, closeness(i) # {}
      PROVE  (\E k \in DOMAIN places : places[k] = i) \/ Len(places) = MaxEntries
  <2>1. PICK m \in 1 .. N : list[m] = i
    BY <1>2, <1>4, <1>8
  <2> QED BY <1>2, <1>3, <1>6, <2>1
<1>9. ASSUME NEW i \in A, NEW k \in A, closer(i, k)
      PROVE  Before(registry, C, i, k)
  <2>1. PICK a \in closeness(i) : \A l \in closeness(k) :
          \/ a > l
          \/ a = l /\ Len(registry[i].scope) > Len(registry[k].scope)
    BY <1>9
  <2>2. PICK x \in closeness(i) :
          /\ BestRank(registry[i], C) = <<x, Len(registry[i].scope)>>
          /\ \A l \in closeness(i) : l <= x
    BY <1>4
  <2>3. PICK y \in closeness(k) :
          BestRank(registry[k], C) = <<y, Len(registry[k].scope)>>
    BY <1>4
  <2>4. /\ a \in Nat /\ x \in Nat /\ y \in Nat /\ a <= x
        /\ Len(registry[i].scope) \in Nat /\ Len(registry[k].scope) \in Nat
    BY <1>4, <1>5, <2>2
  <2>5. \/ x > y
        \/ x = y /\ Len(registry[i].scope) > Len(registry[k].scope)
    BY <2>1, <2>4
  <2> QED BY <2>2, <2>3, <2>5 DEF Before, Outranks
<1>10. \A i, k \in A : closer(i, k) => ~Before(registry, C, k, i)
  <2> SUFFICES ASSUME NEW i \in A, NEW k \in A, closer(i, k),
                      Before(registry, C, k, i)
               PROVE  FALSE
    OBVIOUS
  <2>1. Before(registry, C, i, k)
    BY <1>9
  <2>2. PICK x \in closeness(i) :
          BestRank(registry[i], C) = <<x, Len(registry[i].scope)>>
    BY <1>4
  <2>3. PICK y \in closeness(k) :
          BestRank(registry[k], C) = <<y, Len(registry[k].scope)>>
    BY <1>4
  <2>4. /\ x \in Nat /\ y \in Nat /\ i \in Nat /\ k \in Nat
        /\ Len(registry[i].scope) \in Nat /\ Len(registry[k].scope) \in Nat
    BY <1>4, <1>5
  <2>5. Outranks(<<x, Len(registry[i].scope)>>, <<y, Len(registry[k].scope)>>)
        \/ /\ <<x, Len(registry[i].scope)>> = <<y, Len(registry[k].scope)>>
           /\ i < k
    BY <2>1, <2>2, <2>3 DEF Before
  <2>6. Outranks(<<y, Len(registry[k].scope)>>, <<x, Len(registry[i].scope)>>)
        \/ /\ <<x, Len(registry[i].scope)>> = <<y, Len(registry[k].scope)>>
           /\ k < i
    BY <2>2, <2>3 DEF Before
  <2>7. \/ x > y \/ (x = y /\ Len(registry[i].scope) > Len(registry[k].scope))
        \/ x = y /\ Len(registry[i].scope) = Len(registry[k].scope) /\ i < k
    BY <2>5 DEF Outranks
  <2>8. \/ y > x \/ (x = y /\ Len(registry[k].scope) > Len(registry[i].scope))
        \/ x = y /\ Len(registry[i].scope) = Len(registry[k].scope) /\ k < i
    BY <2>6 DEF Outranks
  <2> QED BY <2>4, <2>7, <2>8
<1>11. ASSUME NEW k \in DOMAIN places, NEW i \in DOMAIN registry,
              closer(i, places[k]), closeness(i) # {}
       PROVE  \E l \in 1 .. k - 1 : places[l] = i
  <2>1. i \in A /\ k \in 1 .. n /\ places[k] = list[k] /\ list[k] \in A
        /\ k \in 1 .. N
    BY <1>2, <1>3, <1>4, <1>6, <1>11
  <2>2. PICK m \in 1 .. N : list[m] = i
    BY <1>2, <2>1
  <2>3. Before(registry, C, list[m], list[k])
    BY <1>9, <1>11, <2>1, <2>2
  <2>4. ~Before(registry, C, list[k], list[m])
    BY <1>10, <1>11, <2>1, <2>2
  <2>5. ~(k < m)
    BY <1>2, <2>1, <2>3
  <2>6. k # m
    BY <2>3, <2>4
  <2> QED BY <1>3, <1>6, <2>1, <2>2, <2>5, <2>6
<1>12. \A i : {a \in 1 .. 3 : \E c \in C : Binds(registry[i], a, c)}
              = closeness(i)
  BY DEF closeness, Closeness
<1> HIDE DEF places
<1>13. Closest(places, registry, C)
  BY <1>7, <1>8, <1>11, <1>12 DEF Closest
<1> QED BY <1>13 DEF places, C

-----------------------------------------------------------------------------
(* The invariant                                                           *)

LEMMA BriefingBegins == BriefingInit => BriefingInv
<1> SUFFICES ASSUME BriefingInit PROVE BriefingInv
  OBVIOUS
<1>1. BriefingTypeOK
  BY TypeInit
<1>2. /\ turn = 1 /\ step = 1 /\ part = Nothing /\ snap = Nothing
      /\ shown = [kind |-> "none", facts |-> {}] /\ phase = "idle"
      /\ rules = [registry |-> <<>>, candidates |-> {}, places |-> <<>>]
  BY DEF BriefingInit
<1>3. ClosestRules
  BY <1>2 DEF ClosestRules, Closest
<1> QED BY <1>1, <1>2, <1>3, SilentHolds DEF BriefingInv

LEMMA BriefingStep ==
  BriefingInv /\ [BriefingNext]_briefingVars => BriefingInv'
<1> SUFFICES ASSUME BriefingInv, [BriefingNext]_briefingVars
             PROVE  BriefingInv'
  OBVIOUS
<1> USE DEF readVars, factVars
<1>1. BriefingTypeOK'
  BY TypeStep
<1>2. phase' = "reading" => ReadInv'
  BY ReadStep
<1>3. phase \in {"idle", "reading", "done"}
  BY DEF BriefingInv, BriefingTypeOK
<1> DEFINE Silent == /\ shown = [kind |-> "none", facts |-> {}]
                     /\ rules.registry = <<>> /\ rules.places = <<>>
           Idle == /\ turn = 1 /\ step = 1 /\ part = Nothing /\ snap = Nothing
           Told == NothingInvented /\ NothingLost /\ GoalStands
<1>4. /\ phase # "done" => Silent
      /\ phase = "idle" => Idle
      /\ Told /\ ClosestRules
  BY DEF BriefingInv
<1> SUFFICES /\ phase' # "done" => Silent'
             /\ phase' = "idle" => Idle'
             /\ Told' /\ ClosestRules'
  BY <1>1, <1>2 DEF BriefingInv
<1>5. CASE UNCHANGED briefingVars
  <2>1. /\ UNCHANGED <<phase, turn, step, part, snap, shown, rules, failed,
                      seen, held, project>>
    BY <1>5 DEF briefingVars
  <2>2. Silent' = Silent /\ Idle' = Idle
    BY <2>1
  <2>3. NothingInvented' /\ NothingLost'
    BY <1>4, <2>1 DEF NothingInvented, CopiesSeen, MovesNamed, NothingLost,
                      Answered, Crowded
  <2>4. GoalStands'
    BY <1>4, <2>1 DEF GoalStands
  <2>5. ClosestRules'
    BY <1>4, <2>1 DEF ClosestRules
  <2> QED BY <1>4, <2>1, <2>2, <2>3, <2>4, <2>5
<1>6. CASE Speaks
  <2>1. phase' = "done" /\ rules' = rules
    BY <1>6 DEF Speaks
  <2>2. Told'
    BY <1>6, SaysOnlyTrue, SaysAll, SaysFirstGoal
  <2>3. ClosestRules'
    BY <1>4, <2>1 DEF ClosestRules
  <2> QED BY <2>1, <2>2, <2>3
<1>7. CASE StartsSession
  <2>1. phase' = "done" /\ shown' = shown /\ phase = "idle"
    BY <1>7 DEF StartsSession
  <2>2. PICK path \in Paths, registry \in Registries :
          rules' = [registry |-> registry, candidates |-> CandidateScopes(path),
                    places |-> RulesShown(registry, CandidateScopes(path))]
    BY <1>7 DEF StartsSession
  <2>3. path \in Seq(STRING) /\ registry \in Seq(Entries)
    BY BriefingAssumption
  <2>4. Closest(RulesShown(registry, CandidateScopes(path)), registry,
                CandidateScopes(path))
    BY <2>3, ShownAreClosest
  <2>5. ClosestRules'
    BY <2>2, <2>4 DEF ClosestRules
  <2>6. Told'
    BY <2>1, <1>4, SilentHolds DEF NothingInvented, NothingLost, GoalStands
  <2> QED BY <2>1, <2>5, <2>6
<1>8. CASE BriefingNext /\ ~Speaks /\ ~StartsSession
  <2>1. shown' = shown /\ rules' = rules /\ phase # "done" /\ phase' # "idle"
    BY <1>8 DEF BriefingNext, BeginsRead, OpensSource, SkipsSource, SeesLock,
                SeesCopy, SeesOriginal, PassesFile, ReadsGoal, GoalUnreadable,
                ReadsStatus, StatusFails, ReadsTasks, QueryFails, MergesSource,
                NothingAvailable, LockMoves, GoalMoves, WorktreeMoves,
                TaskMoves, Moves, Done, Reads
  <2>2. Silent'
    BY <1>4, <2>1
  <2>3. Told'
    BY <2>2 DEF NothingInvented, NothingLost, GoalStands
  <2>4. ClosestRules'
    BY <1>4, <2>1 DEF ClosestRules
  <2> QED BY <2>1, <2>2, <2>3, <2>4
<1> QED BY <1>5, <1>6, <1>7, <1>8

(* Every behaviour of the specification keeps the invariant.               *)
LEMMA BriefingInvariant == BriefingSpec => []BriefingInv
<1>1. BriefingInit => BriefingInv
  BY BriefingBegins
<1>2. BriefingInv /\ [BriefingNext]_briefingVars => BriefingInv'
  BY BriefingStep
<1> QED BY <1>1, <1>2, PTL DEF BriefingSpec

(* The variables keep their types: no more tasks than the limit are taken  *)
(* from the two answers of TASKPLAN, and no read runs past its source.     *)
THEOREM BriefingTypeCorrect == BriefingSpec => []BriefingTypeOK
<1>1. BriefingInv => BriefingTypeOK
  BY DEF BriefingInv
<1> QED BY <1>1, BriefingInvariant, PTL

(* No message states what was not so at some time of its read, however the *)
(* project changes between the steps of CompositeStateSource.snapshot; the *)
(* one exception is the text GitStateSource.snapshot makes of a file that  *)
(* leaves the project's own directory.                                     *)
THEOREM NothingIsInvented == BriefingSpec => []NothingInvented
<1>1. BriefingInv => NothingInvented
  BY DEF BriefingInv
<1> QED BY <1>1, BriefingInvariant, PTL

(* What was so all through the read is in the message, by every source     *)
(* that did not fail, whatever the order of sources, and failures of other *)
(* ones. A task is missing only for want of room, or when there were so    *)
(* many that the facade of TASKPLAN may cut the list before the project is *)
(* looked at.                                                              *)
THEOREM NothingIsLost == BriefingSpec => []NothingLost
<1>1. BriefingInv => NothingLost
  BY DEF BriefingInv
<1> QED BY <1>1, BriefingInvariant, PTL

(* The goal of a message is the one of the first goal file with a goal, if *)
(* it stood, though two sources read the files at different times.         *)
THEOREM FirstGoalStands == BriefingSpec => []GoalStands
<1>1. BriefingInv => GoalStands
  BY DEF BriefingInv
<1> QED BY <1>1, BriefingInvariant, PTL

(* For every registry and every directory, the rules that a session start  *)
(* shows bind the directory, and none that binds it more closely is left   *)
(* out or comes later.                                                     *)
THEOREM ClosestRulesShown == BriefingSpec => []ClosestRules
<1>1. BriefingInv => ClosestRules
  BY DEF BriefingInv
<1> QED BY <1>1, BriefingInvariant, PTL

=============================================================================
