------------------------- MODULE ActionGuardProofs -------------------------
(***************************************************************************)
(* Theorems about ActionGuard for any locks, targets and roots, however    *)
(* often locks are written and removed while the guard looks.              *)
(***************************************************************************)
EXTENDS ActionGuard, TLAPS, SequenceTheorems, FiniteSetTheorems

-----------------------------------------------------------------------------
(* Paths                                                                   *)

Paths == Seq(STRING)

(* What begins with a longer or equal path continues it.                   *)
LEMMA InsideIsLonger ==
  ASSUME NEW path \in Paths, NEW dir \in Paths, Inside(path, dir), path # dir
  PROVE  Len(dir) < Len(path)
<1>1. Len(dir) <= Len(path)
      /\ SubSeq(dir, 1, Len(dir)) = SubSeq(path, 1, Len(dir))
  BY DEF Inside, SeqExt!IsPrefix
<1>2. SubSeq(dir, 1, Len(dir)) = dir /\ SubSeq(path, 1, Len(path)) = path
  BY SubSeqFull DEF Paths
<1>3. Len(dir) \in Nat /\ Len(path) \in Nat
  BY DEF Paths
<1> QED
  BY <1>1, <1>2, <1>3

(* The first name below a directory is the entry of that directory.        *)
LEMMA FirstNameIsEntry ==
  ASSUME NEW path \in Paths, NEW n \in LockNames
  PROVE  n.scope = FirstName(path, n.dir) <=> Entry(path, n)
<1>1. n.scope # ""
  BY GuardAssumption
<1>a. n.dir \in Paths
  BY GuardAssumption DEF Paths
<1>2. CASE Inside(path, n.dir) /\ path # n.dir
  <2>1. Len(n.dir) < Len(path)
    BY <1>a, <1>2, InsideIsLonger
  <2>a. Len(n.dir) \in Nat /\ Len(path) \in Nat
    BY <1>a DEF Paths
  <2>2. Below(path, n.dir)[1] = path[Len(n.dir) + 1]
    <3>1. \A i \in Len(n.dir) + 1 .. Len(path) : path[i] \in STRING
      BY <2>1, <2>a DEF Paths
    <3>2. \A i \in 1 .. Len(path) - (Len(n.dir) + 1) + 1 :
            SubSeq(path, Len(n.dir) + 1, Len(path))[i]
              = path[Len(n.dir) + 1 + i - 1]
      BY <2>1, <2>a, <3>1, SubSeqProperties
    <3> QED
      BY <2>1, <2>a, <3>2 DEF Below
  <2> QED
    BY <1>2, <2>2 DEF FirstName, Entry
<1>3. CASE ~(Inside(path, n.dir) /\ path # n.dir)
  BY <1>1, <1>3 DEF FirstName, Entry
<1> QED
  BY <1>2, <1>3

(* A target has a path in the main clone.                                  *)
LEMMA MappedIsPath ==
  ASSUME NEW t \in Paths
  PROVE  Mapped(t) \in Paths
<1>1. CASE Inside(t, ProjectRoot)
  <2>1. Len(ProjectRoot) \in Nat /\ Len(t) \in Nat
    BY RootsAssumption DEF Paths
  <2>2. \A i \in Len(ProjectRoot) + 1 .. Len(t) : t[i] \in STRING
    BY <2>1 DEF Paths
  <2>3. Below(t, ProjectRoot) \in Paths
    BY <2>1, <2>2, SubSeqProperties DEF Below, Paths
  <2> QED
    BY <1>1, <2>3, RootsAssumption DEF Mapped, Paths
<1>2. CASE ~Inside(t, ProjectRoot)
  BY <1>2, RootsAssumption DEF Mapped, Paths
<1> QED
  BY <1>1, <1>2

(* in_scope finds the locks that are meant for the target, and no others.  *)
LEMMA ScopeGoverns ==
  ASSUME NEW n \in LockNames, NEW t \in Paths
  PROVE  InScope(n, t) <=> Governs(n, t)
<1>1. Mapped(t) \in Paths
  BY MappedIsPath
<1>4. CASE t = ProjectRoot
  BY <1>4 DEF InScope, Governs
<1>2. CASE Inside(t, n.dir)
  BY <1>2, FirstNameIsEntry DEF InScope, Governs
<1>3. CASE ~Inside(t, n.dir)
  <2>1. ~Entry(t, n)
    BY <1>3 DEF Entry
  <2> QED
    BY <1>1, <1>3, <2>1, FirstNameIsEntry DEF InScope, Governs
<1> QED
  BY <1>2, <1>3, <1>4

(* The beginning of a path is a path.                                      *)
LEMMA BeginningIsPath ==
  ASSUME NEW path \in Paths, NEW n \in Int, n <= Len(path)
  PROVE  SubSeq(path, 1, n) \in Paths
<1>1. \A i \in 1 .. n : path[i] \in STRING
  BY DEF Paths
<1> QED
  BY <1>1, SubSeqProperties DEF Paths

(* The directories of a path up to a root are one or more paths.           *)
LEMMA AncestorsArePaths ==
  ASSUME NEW path \in Paths, NEW root \in Paths, root \in Directories
  PROVE  /\ AncestorsToRoot(path, root) # <<>>
         /\ AncestorsToRoot(path, root) \in Seq(Paths)
<1> DEFINE depth == IF path \in Directories THEN Len(path) ELSE Len(path) - 1
           count == depth - Len(root) + 1
           f(i)  == SubSeq(path, 1, depth - i + 1)
           up    == [i \in 1 .. count |-> f(i)]
<1>1. Len(path) \in Nat /\ Len(root) \in Nat
  BY DEF Paths
<1>2. CASE Inside(path, root)
  <2>1. path # root => Len(root) < Len(path)
    BY <1>2, InsideIsLonger
  <2>2. Len(root) <= depth /\ depth \in Int /\ depth <= Len(path)
    BY <1>1, <2>1
  <2>3. AncestorsToRoot(path, root) = up
    BY <1>2 DEF AncestorsToRoot
  <2> HIDE DEF depth
  <2>4. count \in Nat /\ count > 0
    BY <1>1, <2>2
  <2>5. \A i \in 1 .. count : f(i) \in Paths
    BY <1>1, <2>2, BeginningIsPath
  <2> HIDE DEF f, count
  <2>6. up \in Seq(Paths) /\ Len(up) = count
    BY <2>4, <2>5
  <2> HIDE DEF up
  <2> QED
    BY <2>3, <2>4, <2>6
<1>3. CASE ~Inside(path, root)
  BY <1>3 DEF AncestorsToRoot
<1> QED
  BY <1>2, <1>3

(* The directories above a root are paths.                                 *)
LEMMA ParentsArePaths ==
  ASSUME NEW root \in Paths
  PROVE  Parents(root) \in Seq(Paths)
<1>1. Len(root) \in Nat
  BY DEF Paths
<1>2. \A i \in 1 .. Len(root) : SubSeq(root, 1, Len(root) - i) \in Paths
  BY <1>1, BeginningIsPath
<1> DEFINE f(i) == SubSeq(root, 1, Len(root) - i)
<1>3. Parents(root) = [i \in 1 .. Len(root) |-> f(i)]
  BY DEF Parents
<1> HIDE DEF f
<1> QED
  BY <1>1, <1>2, <1>3 DEF f

(* The guard has one directory to look at, or more.                        *)
LEMMA RelevantDirsArePaths ==
  ASSUME NEW t \in Paths
  PROVE  RelevantDirs(t) \in Seq(Paths) /\ RelevantDirs(t) # <<>>
<1> DEFINE here  == AncestorsToRoot(t, ProjectRoot) \o Parents(ProjectRoot)
           there == AncestorsToRoot(Mapped(t), MainRoot) \o Parents(MainRoot)
           own   == {i \in DOMAIN there : there[i] \notin SeqExt!ToSet(here)}
<1>1. /\ ProjectRoot \in Paths /\ MainRoot \in Paths /\ Mapped(t) \in Paths
      /\ ProjectRoot \in Directories /\ MainRoot \in Directories
  BY RootsAssumption, MappedIsPath DEF Paths
<1>2. here \in Seq(Paths) /\ here # <<>>
  BY <1>1, AncestorsArePaths, ParentsArePaths
<1>3. there \in Seq(Paths)
  BY <1>1, AncestorsArePaths, ParentsArePaths
<1>4. RelevantDirs(t) = here \o SubSeq(there, 1, Cardinality(own))
  BY DEF RelevantDirs
<1> HIDE DEF here, there
<1>5. Cardinality(own) \in Nat /\ Cardinality(own) <= Len(there)
  <2>1. Len(there) \in Nat /\ own \subseteq 1 .. Len(there)
    BY <1>3
  <2>2. /\ IsFiniteSet(1 .. Len(there))
        /\ Cardinality(1 .. Len(there)) = Len(there)
    <3> DEFINE last == Len(there)
    <3>1. 1 \in Int /\ last \in Int
      BY <2>1
    <3> HIDE DEF last
    <3>2. /\ IsFiniteSet(1 .. last)
          /\ Cardinality(1 .. last) = IF 1 > last THEN 0 ELSE last - 1 + 1
      BY <3>1, FS_Interval, Zenon
    <3>3. Cardinality(1 .. last) = IF 1 > last THEN 0 ELSE last
      BY <3>1, <3>2
    <3> QED
      BY <2>1, <3>2, <3>3 DEF last
  <2>3. IsFiniteSet(own) /\ Cardinality(own) <= Len(there)
    BY <2>1, <2>2, FS_Subset
  <2> QED
    BY <2>3, FS_CardinalityType
<1> HIDE DEF own
<1>6. \A i \in 1 .. Cardinality(own) : there[i] \in Paths
  BY <1>3, <1>5
<1>7. SubSeq(there, 1, Cardinality(own)) \in Seq(Paths)
  BY <1>5, <1>6, SubSeqProperties
<1> QED
  BY <1>2, <1>4, <1>7

-----------------------------------------------------------------------------
(* Types                                                                   *)

Looking == {"choosing", "listing", "reading"}

AtTarget == {"listing", "reading"}

DirsOf(t) == SeqExt!ToSet(RelevantDirs(t))

(* What the guard has in hand at each place.                               *)
InHand ==
  /\ dirs \in Seq(Paths)
  /\ looksAt <= now
  /\ pc \in Looking =>
       config.enabled /\ config.owner /\ action.coverage = "resolved"
  /\ pc \in AtTarget =>
       /\ config.mainKnown
       /\ target \in action.targets \ remaining
       /\ Inside(target, ProjectRoot)
       /\ SeqExt!ToSet(dirs) \subseteq DirsOf(target)
  /\ pc \notin AtTarget => target = NoTarget /\ records = {}
  /\ pc = "listing" => dirs # <<>>
  /\ pc # "reading" => listed = {}
  /\ pc = "idle" => results = {}

Typing == TypeOK /\ InHand

(* The first of some directories and the rest are all of them.             *)
LEMMA HeadAndTail ==
  ASSUME NEW s \in Seq(Paths), s # <<>>
  PROVE  /\ Tail(s) \in Seq(Paths)
         /\ SeqExt!ToSet(s) = {Head(s)} \cup SeqExt!ToSet(Tail(s))
<1>1. /\ Tail(s) \in Seq(Paths)
      /\ Len(Tail(s)) = Len(s) - 1
      /\ \A i \in 1 .. Len(Tail(s)) : Tail(s)[i] = s[i + 1]
      /\ Head(s) = s[1]
  BY HeadTailProperties
<1>2. Len(s) \in Nat /\ Len(s) > 0
      /\ DOMAIN s = 1 .. Len(s) /\ DOMAIN Tail(s) = 1 .. Len(Tail(s))
  BY <1>1
<1>3. ASSUME NEW d \in SeqExt!ToSet(s)
      PROVE  d = Head(s) \/ d \in SeqExt!ToSet(Tail(s))
  <2>1. PICK i \in 1 .. Len(s) : d = s[i]
    BY <1>2, <1>3 DEF SeqExt!ToSet
  <2>2. CASE i = 1
    BY <1>1, <2>1, <2>2
  <2>3. CASE i # 1
    <3>1. i - 1 \in 1 .. Len(Tail(s)) /\ Tail(s)[i - 1] = d
      BY <1>1, <1>2, <2>1, <2>3
    <3> QED
      BY <1>2, <3>1 DEF SeqExt!ToSet
  <2> QED
    BY <2>2, <2>3
<1>4. ASSUME NEW d \in SeqExt!ToSet(Tail(s))
      PROVE  d \in SeqExt!ToSet(s)
  <2>1. PICK i \in 1 .. Len(Tail(s)) : d = Tail(s)[i]
    BY <1>2, <1>4 DEF SeqExt!ToSet
  <2>2. i + 1 \in 1 .. Len(s) /\ d = s[i + 1]
    BY <1>1, <1>2, <2>1
  <2> QED
    BY <1>2, <2>2 DEF SeqExt!ToSet
<1>5. Head(s) \in SeqExt!ToSet(s)
  BY <1>1, <1>2 DEF SeqExt!ToSet
<1> QED
  BY <1>1, <1>3, <1>4, <1>5

(* No directories.                                                         *)
LEMMA NoDirs == SeqExt!ToSet(<<>>) = {} /\ <<>> \in Seq(Paths)
  BY DEF SeqExt!ToSet

(* Every target has its directories.                                       *)
LEMMA TargetsArePaths ==
  ASSUME TypeOK, NEW t \in action.targets
  PROVE  /\ t \in Paths
         /\ t # NoTarget
         /\ RelevantDirs(t) \in Seq(Paths)
         /\ RelevantDirs(t) # <<>>
<1>1. t \in Paths \ {NoTarget}
  BY GuardAssumption DEF TypeOK, Paths
<1> QED
  BY <1>1, RelevantDirsArePaths

(* The bounds are numbers.                                                 *)
LEMMA Bounds == MaxTime \in Nat /\ MaxWrites \in Nat
  BY GuardAssumption

(* A lock that is there has a record.                                      *)
LEMMA RecordHasType ==
  ASSUME TypeOK, NEW n \in OnDisk
  PROVE  RecordOf(Lock(n)) \in LockRecords(Operations)
<1>1. files[n] \in Contents /\ n \in LockNames
  BY DEF TypeOK, OnDisk
<1>2. /\ n.kind \in Kinds
      /\ files[n].identity \in Identities
      /\ files[n].mode \in {"soft", "hard"}
      /\ files[n].operations \in SUBSET Operations
  BY <1>1, GuardAssumption
<1> QED
  BY <1>2 DEF RecordOf, Lock, LockRecords

(* Init gives every variable its type.                                     *)
LEMMA TypingInit == Init => Typing
<1> SUFFICES ASSUME Init
             PROVE  Typing
  OBVIOUS
<1>1. TypeOK
  <2>1. SeqExt!ToSet(dirs) = {}
    BY NoDirs DEF Init
  <2>2. 0 \in 0 .. MaxTime /\ 0 \in 0 .. MaxWrites
    BY Bounds
  <2> QED
    BY <2>1, <2>2 DEF Init, TypeOK, PCs
<1>2. InHand
  BY NoDirs DEF Init, InHand, Looking, AtTarget
<1> QED
  BY <1>1, <1>2 DEF Typing

(* An answer leaves the guard with empty hands.                            *)
LEMMA AnswerKeepsTypes ==
  ASSUME Typing, NEW decision \in Decisions, Answers(decision),
         standing' \subseteq LockNames,
         UNCHANGED <<files, writes, now, config, action>>
  PROVE  Typing'
<1>1. answer' \in Decisions
  BY DEF Answers, Emitted, Decisions
<1>2. TypeOK'
  <2>1. SeqExt!ToSet(dirs') = {}
    BY NoDirs DEF Answers
  <2>2. 0 \in 0 .. MaxTime
    BY Bounds
  <2> QED
    BY <1>1, <2>1, <2>2 DEF Typing, TypeOK, Answers, PCs
<1>3. InHand'
  BY NoDirs DEF Typing, TypeOK, InHand, Answers, Looking, AtTarget
<1> QED
  BY <1>2, <1>3 DEF Typing

(* So does the end of a target.                                            *)
LEMMA ConclusionKeepsTypes ==
  ASSUME Typing, NEW decision \in Decisions, Concludes(decision),
         pc \in AtTarget,
         UNCHANGED <<diskVars, now, config, action, remaining, answer>>
  PROVE  Typing'
<1>1. TypeOK'
  <2>1. SeqExt!ToSet(dirs') = {}
    BY NoDirs DEF Concludes
  <2>2. 0 \in 0 .. MaxTime
    BY Bounds
  <2> QED
    BY <2>1, <2>2 DEF Typing, TypeOK, Concludes, PCs, diskVars
<1>2. InHand'
  BY NoDirs DEF Typing, TypeOK, InHand, Concludes, Looking, AtTarget
<1> QED
  BY <1>1, <1>2 DEF Typing

(* The decision on a set of decisions is one.                              *)
LEMMA CombineType == ASSUME NEW S PROVE Combine(S) \in Decisions
  BY DEF Combine, Decisions

(* Every step of the guard keeps the types.                                *)
LEMMA TypingGuard ==
  ASSUME Typing, GuardStep
  PROVE  Typing'
<1> USE DEF Typing
<1>1. CASE AnswersAtOnce
  <2>1. PICK decision \in Decisions : Answers(decision)
    BY <1>1 DEF AnswersAtOnce, Decisions
  <2> QED
    BY <1>1, <2>1, AnswerKeepsTypes DEF AnswersAtOnce
<1>2. CASE BeginGuard
  <2>1. TypeOK'
    BY <1>2 DEF BeginGuard, TypeOK, PCs
  <2>2. InHand'
    BY <1>2 DEF BeginGuard, InHand, Looking, AtTarget
  <2> QED
    BY <2>1, <2>2
<1>3. CASE TakesOutsideTarget
  <2>1. TypeOK'
    BY <1>3 DEF TakesOutsideTarget, TypeOK, PCs, Decisions, diskVars
  <2>2. InHand'
    BY <1>3 DEF TakesOutsideTarget, InHand, Looking, AtTarget, diskVars
  <2> QED
    BY <2>1, <2>2
<1>4. CASE TakesTarget
  <2>1. PICK t \in remaining : /\ Inside(t, ProjectRoot)
                               /\ remaining' = remaining \ {t}
                               /\ target' = t
                               /\ dirs' = RelevantDirs(t)
    BY <1>4 DEF TakesTarget
  <2>2. /\ UNCHANGED <<diskVars, now, config, action, listed, records, results,
                       answer>>
        /\ pc = "choosing" /\ pc' = "listing" /\ looksAt' = now
        /\ config.mainKnown
    BY <1>4 DEF TakesTarget
  <2>3. t \in action.targets
    BY <2>1 DEF TypeOK
  <2>4. RelevantDirs(t) \in Seq(Paths) /\ RelevantDirs(t) # <<>>
    BY <2>3, TargetsArePaths
  <2>5. TypeOK'
    BY <2>1, <2>2, <2>3 DEF TypeOK, PCs, diskVars
  <2>6. InHand'
    BY <2>1, <2>2, <2>3, <2>4 DEF TypeOK, InHand, Looking, AtTarget, DirsOf
  <2> QED
    BY <2>5, <2>6
<1>5. CASE ListsDirectory
  <2>1. /\ UNCHANGED <<diskVars, now, config, action, remaining, target,
                       looksAt, records, results, answer>>
        /\ pc = "listing" /\ pc' = "reading" /\ dirs' = Tail(dirs)
        /\ listed' \subseteq LockNames
    BY <1>5 DEF ListsDirectory, OnDisk
  <2>2. dirs' \in Seq(Paths) /\ SeqExt!ToSet(dirs') \subseteq SeqExt!ToSet(dirs)
    BY <2>1, HeadAndTail DEF InHand
  <2>3. TypeOK'
    BY <2>1, <2>2 DEF TypeOK, PCs, diskVars
  <2>4. InHand'
    BY <2>1, <2>2 DEF InHand, Looking, AtTarget
  <2> QED
    BY <2>3, <2>4
<1>6. CASE ReadsLock
  <2>1. PICK n \in listed :
          /\ Legible(n)
          /\ listed' = listed \ {n}
          /\ records' \subseteq records \cup {RecordOf(Lock(n))}
    BY <1>6 DEF ReadsLock
  <2>2. /\ UNCHANGED <<diskVars, now, pc, config, action, remaining, target,
                       looksAt, dirs, results, answer>>
        /\ pc = "reading"
    BY <1>6 DEF ReadsLock
  <2>3. records' \subseteq LockRecords(Operations)
    BY <2>1, RecordHasType DEF Legible, TypeOK
  <2>4. TypeOK'
    BY <2>1, <2>2, <2>3 DEF TypeOK, diskVars
  <2>5. InHand'
    BY <2>1, <2>2 DEF InHand, Looking, AtTarget
  <2> QED
    BY <2>4, <2>5
<1>7. CASE CannotReadLock
  BY <1>7, ConclusionKeepsTypes DEF CannotReadLock, AtTarget, Decisions
<1>8. CASE EndsDirectory
  <2>1. /\ pc = "reading" /\ listed = {}
        /\ UNCHANGED <<diskVars, now, config, action, remaining, answer>>
    BY <1>8 DEF EndsDirectory
  <2>2. CASE dirs # <<>>
    <3>1. /\ pc' = "listing"
          /\ UNCHANGED <<target, looksAt, dirs, listed, records, results>>
      BY <1>8, <2>2 DEF EndsDirectory
    <3>2. TypeOK'
      BY <2>1, <3>1 DEF TypeOK, PCs, diskVars
    <3>3. InHand'
      BY <2>1, <2>2, <3>1 DEF InHand, Looking, AtTarget
    <3> QED
      BY <3>2, <3>3
  <2>3. CASE dirs = <<>>
    <3>1. PICK decision \in Decisions : Concludes(decision)
      BY <1>8, <2>3 DEF EndsDirectory, Decisions
    <3> QED
      BY <2>1, <3>1, ConclusionKeepsTypes DEF AtTarget
  <2> QED
    BY <2>2, <2>3
<1>9. CASE Decides
  BY <1>9, CombineType, AnswerKeepsTypes DEF Decides, diskVars, TypeOK
<1>10. CASE CannotFindMain
  <2>1. TypeOK'
    BY <1>10 DEF CannotFindMain, TypeOK, PCs, Decisions, diskVars
  <2>2. InHand'
    BY <1>10 DEF CannotFindMain, InHand, Looking, AtTarget, diskVars
  <2> QED
    BY <2>1, <2>2
<1>11. CASE CannotList
  BY <1>11, ConclusionKeepsTypes DEF CannotList, AtTarget, Decisions
<1> QED
  BY <1>1, <1>2, <1>3, <1>4, <1>5, <1>6, <1>7, <1>8, <1>9, <1>10, <1>11
  DEF GuardStep

(* Other sessions and the clock do not touch what the guard has in hand.   *)
LEMMA TypingAround ==
  ASSUME Typing, (\E n \in LockNames : TouchLock(n)) \/ Tick \/ UNCHANGED vars
  PROVE  Typing'
<1>1. ASSUME NEW n \in LockNames, TouchLock(n)
      PROVE  Typing'
  <2>1. PICK content \in Contents \cup {NoFile} :
          files' = [files EXCEPT ![n] = content]
    BY <1>1 DEF TouchLock
  <2>2. /\ files' \in [LockNames -> Contents \cup {NoFile}]
        /\ writes' \in 0 .. MaxWrites
        /\ standing' \subseteq LockNames
    BY <1>1, <2>1, Bounds DEF TouchLock, Typing, TypeOK
  <2>3. UNCHANGED <<now, guardVars>>
    BY <1>1 DEF TouchLock
  <2> QED
    BY <2>2, <2>3 DEF guardVars, Typing, TypeOK, InHand
<1>2. CASE Tick
  <2>1. now \in Nat /\ looksAt \in Nat /\ now' = now + 1
        /\ now' \in 0 .. MaxTime
    BY <1>2, Bounds DEF Tick, Typing, TypeOK
  <2>2. looksAt <= now'
    BY <2>1 DEF Typing, InHand
  <2>3. UNCHANGED <<diskVars, guardVars>>
    BY <1>2 DEF Tick
  <2> QED
    BY <2>1, <2>2, <2>3 DEF diskVars, guardVars, Typing, TypeOK, InHand
<1>3. CASE UNCHANGED vars
  BY <1>3 DEF vars, diskVars, guardVars, Typing, TypeOK, InHand
<1> QED
  BY <1>1, <1>2, <1>3

(* Every step keeps the types.                                             *)
LEMMA TypingNext == Typing /\ [Next]_vars => Typing'
  BY TypingGuard, TypingAround DEF Next

(* The guard only ever has targets, directories and records of its own     *)
(* action in hand.                                                         *)
THEOREM GuardTypeCorrect == Spec => []TypeOK
<1>1. Typing => TypeOK
  BY DEF Typing
<1> QED
  BY <1>1, TypingInit, TypingNext, PTL DEF Spec

-----------------------------------------------------------------------------
(* Locks that stand                                                        *)

Harmless(n, t) ==
  /\ Legible(n)
  /\ Governs(n, t) /\ ~Released(Lock(n), now)
       => ~Blocks(RecordOf(Lock(n)), action.aliases)

(* Nothing that stood all the time speaks against the target.              *)
Clear(t) ==
  /\ Inside(t, ProjectRoot)
  /\ \A n \in Near(t) \cap standing : Harmless(n, t)

(* The guard has read the lock and has its record, if it counts.           *)
Recorded(n) ==
  /\ Legible(n)
  /\ InScope(n, target) /\ ~Released(Lock(n), looksAt)
       => RecordOf(Lock(n)) \in records

SeenSoFar ==
  pc \in AtTarget =>
    \A n \in Near(target) \cap standing :
      \/ n.dir \in SeqExt!ToSet(dirs)
      \/ n \in listed
      \/ Recorded(n)

Objections == results \cap {"ask", "deny"}

ClearedSoFar ==
  pc \in Looking =>
    \A t \in action.targets \ (remaining \cup {target}) :
      Clear(t) \/ Objections # {}

StandingParts == SeenSoFar /\ ClearedSoFar /\ StandingLockDenies

StandingInv == Typing /\ StandingParts

(* A lock that time has released stays released.                           *)
LEMMA ReleasedForGood ==
  ASSUME NEW f, f.expires \in Int, f.notBefore \in Int,
         NEW a \in Nat, NEW b \in Nat, a <= b, Released(f, a)
  PROVE  Released(f, b)
  BY DEF Released, Passed

(* The fields of a lock that is there.                                     *)
LEMMA LockHasDates ==
  ASSUME TypeOK, NEW n \in OnDisk
  PROVE  Lock(n).expires \in Int /\ Lock(n).notBefore \in Int
<1>1. files[n] \in Contents
  BY DEF TypeOK, OnDisk
<1>2. files[n].expires \in Int /\ files[n].notBefore \in Int
  BY <1>1, GuardAssumption
<1> QED
  BY <1>2 DEF Lock

(* What the guard has seen of a target is all there is to see.             *)
LEMMA NothingUnseen ==
  ASSUME Typing, SeenSoFar, pc = "reading", listed = {}, dirs = <<>>,
         \A r \in records : ~Blocks(r, action.aliases)
  PROVE  Clear(target)
<1>1. /\ target \in action.targets
      /\ Inside(target, ProjectRoot)
      /\ target \in Paths
      /\ TypeOK
  BY TargetsArePaths DEF Typing, InHand, AtTarget
<1>2. ASSUME NEW n \in Near(target) \cap standing
      PROVE  Harmless(n, target)
  <2>1. n \in LockNames /\ n \in OnDisk
    BY <1>2 DEF Near, OnDisk
  <2>2. Recorded(n)
    BY <1>2, NoDirs DEF SeenSoFar, AtTarget
  <2>3. looksAt \in Nat /\ now \in Nat /\ looksAt <= now
    BY Bounds DEF Typing, TypeOK, InHand
  <2>4. ASSUME Governs(n, target), ~Released(Lock(n), now)
        PROVE  ~Blocks(RecordOf(Lock(n)), action.aliases)
    <3>1. ~Released(Lock(n), looksAt)
      BY <1>1, <2>1, <2>3, <2>4, LockHasDates, ReleasedForGood
    <3>2. InScope(n, target)
      BY <1>1, <2>1, <2>4, ScopeGoverns
    <3> QED
      BY <2>2, <3>1, <3>2 DEF Recorded
  <2> QED
    BY <2>2, <2>4 DEF Harmless, Recorded
<1> QED
  BY <1>1, <1>2 DEF Clear

(* Nothing but the guard's hands moved.                                    *)
LEMMA SameLocksSameClear ==
  ASSUME UNCHANGED <<files, standing, now, action, config>>
  PROVE  \A t : Clear(t)' <=> Clear(t)
  BY DEF Clear, Harmless, Near, OnDisk, Legible, Lock, Governs, Entry

(* A target that is done is clear or has an objection.                     *)
LEMMA ConclusionKeepsStanding ==
  ASSUME StandingInv, NEW decision \in Decisions, Concludes(decision),
         pc \in AtTarget,
         decision = "allow" => Clear(target),
         UNCHANGED <<diskVars, now, config, action, remaining, answer>>
  PROVE  StandingParts'
<1>1. SeenSoFar' /\ StandingLockDenies'
  BY DEF Concludes, SeenSoFar, StandingLockDenies, AtTarget
<1>2. \A t : Clear(t)' <=> Clear(t)
  BY SameLocksSameClear DEF diskVars
<1>3. /\ pc' = "choosing" /\ target' = NoTarget
      /\ results' = results \cup {decision}
  BY DEF Concludes
<1>4. ASSUME NEW t \in action.targets \ remaining
      PROVE  Clear(t) \/ Objections' # {}
  <2>1. CASE t = target
    BY <1>3, <2>1 DEF Decisions, Objections
  <2>2. CASE t # target
    BY <1>3, <1>4, <2>2 DEF StandingInv, StandingParts, ClearedSoFar, Looking,
                            AtTarget, Objections
  <2> QED
    BY <2>1, <2>2
<1>5. ClearedSoFar'
  BY <1>2, <1>4 DEF ClearedSoFar
<1> QED
  BY <1>1, <1>5 DEF StandingParts

(* The answer allows only what is clear.                                   *)
LEMMA AnswerKeepsStanding ==
  ASSUME StandingInv, NEW decision \in Decisions, Answers(decision),
         decision = "allow" /\ Guarded => \A t \in action.targets : Clear(t)',
         UNCHANGED <<config, action>>
  PROVE  StandingParts'
<1>1. pc' = "done" /\ (answer' = "allow" => decision = "allow")
  BY DEF Answers, Emitted, Decisions
<1>2. SeenSoFar' /\ ClearedSoFar'
  BY <1>1 DEF SeenSoFar, ClearedSoFar, AtTarget, Looking
<1>3. Guarded' <=> Guarded
  BY DEF Guarded
<1>4. StandingLockDenies'
  BY <1>1, <1>3 DEF StandingLockDenies, Clear, Harmless
<1> QED
  BY <1>2, <1>4 DEF StandingParts

(* Every step of the guard keeps the invariant.                            *)
LEMMA StandingGuard ==
  ASSUME StandingInv, GuardStep
  PROVE  StandingParts'
<1>1. CASE AnswersAtOnce
  <2>1. PICK decision \in Decisions :
          Answers(decision) /\ (decision = "allow" => ~Guarded)
    BY <1>1 DEF AnswersAtOnce, Guarded, Decisions
  <2> QED
    BY <1>1, <2>1, AnswerKeepsStanding DEF AnswersAtOnce
<1>2. CASE BeginGuard
  <2>1. pc' = "choosing" /\ remaining' = action'.targets
    BY <1>2 DEF BeginGuard
  <2> QED
    BY <2>1 DEF StandingParts, SeenSoFar, ClearedSoFar, StandingLockDenies,
                AtTarget
<1>3. CASE TakesOutsideTarget
  <2>1. pc' = "choosing" /\ results' = results \cup {"ask"}
    BY <1>3 DEF TakesOutsideTarget
  <2> QED
    BY <2>1 DEF StandingParts, SeenSoFar, ClearedSoFar, StandingLockDenies,
                AtTarget, Objections
<1>4. CASE TakesTarget
  <2>1. PICK t \in remaining : /\ remaining' = remaining \ {t}
                               /\ target' = t
                               /\ dirs' = RelevantDirs(t)
    BY <1>4 DEF TakesTarget
  <2>2. /\ UNCHANGED <<files, standing, now, action, config, results>>
        /\ pc = "choosing" /\ pc' = "listing"
    BY <1>4 DEF TakesTarget, diskVars
  <2>3. SeenSoFar'
    BY <2>1, <2>2 DEF SeenSoFar, Near
  <2>4. target = NoTarget
    BY <2>2 DEF StandingInv, Typing, InHand, AtTarget
  <2>5. action.targets \ (remaining' \cup {target'})
          \subseteq action.targets \ (remaining \cup {target})
    <3>1. NoTarget \notin action.targets
      BY TargetsArePaths DEF StandingInv, Typing
    <3> QED
      BY <2>1, <2>4, <3>1
  <2>6. \A u : Clear(u)' <=> Clear(u)
    BY <2>2, SameLocksSameClear
  <2>7. ClearedSoFar'
    BY <2>2, <2>5, <2>6 DEF StandingInv, StandingParts, ClearedSoFar, Looking,
                            Objections
  <2> QED
    BY <2>2, <2>3, <2>7 DEF StandingParts, StandingLockDenies
<1>5. CASE ListsDirectory
  <2>1. /\ UNCHANGED <<files, standing, now, action, config, remaining, target,
                       looksAt, records, results>>
        /\ pc = "listing" /\ pc' = "reading" /\ dirs' = Tail(dirs)
        /\ listed' = {n \in OnDisk : /\ n.dir = Head(dirs)
                                 /\ n.dir \notin config.closed}
    BY <1>5 DEF ListsDirectory, diskVars
  <2>2. /\ SeqExt!ToSet(dirs) = {Head(dirs)} \cup SeqExt!ToSet(dirs')
        /\ listed = {}
    BY <2>1, HeadAndTail DEF StandingInv, Typing, InHand
  <2>3. ASSUME NEW n \in Near(target) \cap standing
        PROVE  \/ n.dir \in SeqExt!ToSet(dirs')
               \/ n \in listed'
               \/ Recorded(n)
    BY <2>1, <2>2, <2>3 DEF StandingInv, StandingParts, SeenSoFar, AtTarget,
                            Near
  <2>4. SeenSoFar'
    BY <2>1, <2>3 DEF SeenSoFar, Near, OnDisk, Recorded, Legible, Lock
  <2>5. ClearedSoFar'
    BY <2>1, SameLocksSameClear DEF StandingInv, StandingParts, ClearedSoFar,
                                    Looking, Objections
  <2> QED
    BY <2>1, <2>4, <2>5 DEF StandingParts, StandingLockDenies
<1>6. CASE ReadsLock
  <2>1. PICK m \in listed :
          /\ Legible(m)
          /\ listed' = listed \ {m}
          /\ records' = IF InScope(m, target) /\ ~Released(Lock(m), looksAt)
                          THEN records \cup {RecordOf(Lock(m))}
                          ELSE records
    BY <1>6 DEF ReadsLock
  <2>2. /\ UNCHANGED <<files, standing, now, action, config, remaining, target,
                       looksAt, dirs, results, pc>>
        /\ pc = "reading"
    BY <1>6 DEF ReadsLock, diskVars
  <2>3. ASSUME NEW n \in Near(target) \cap standing
        PROVE  \/ n.dir \in SeqExt!ToSet(dirs)
               \/ n \in listed'
               \/ Recorded(n)'
    <3>1. CASE n = m
      BY <2>1, <2>2, <3>1 DEF Recorded, Legible, OnDisk, Lock
    <3>2. CASE n # m /\ Recorded(n)
      <4>1. records \subseteq records'
        BY <2>1
      <4> QED
        BY <2>2, <3>2, <4>1 DEF Recorded, Legible, OnDisk, Lock
    <3>3. CASE n # m /\ ~Recorded(n)
      BY <2>1, <2>2, <2>3, <3>3 DEF StandingInv, StandingParts, SeenSoFar,
                                    AtTarget
    <3> QED
      BY <3>1, <3>2, <3>3
  <2>4. SeenSoFar'
    BY <2>2, <2>3 DEF SeenSoFar, Near, OnDisk
  <2>5. ClearedSoFar'
    BY <2>2, SameLocksSameClear DEF StandingInv, StandingParts, ClearedSoFar,
                                    Looking, Objections
  <2> QED
    BY <2>2, <2>4, <2>5 DEF StandingParts, StandingLockDenies
<1>7. CASE CannotReadLock
  BY <1>7, ConclusionKeepsStanding DEF CannotReadLock, Decisions, AtTarget
<1>8. CASE EndsDirectory
  <2>1. /\ pc = "reading" /\ listed = {}
        /\ UNCHANGED <<diskVars, now, config, action, remaining, answer>>
    BY <1>8 DEF EndsDirectory
  <2>2. CASE dirs # <<>>
    <3>1. /\ pc' = "listing"
          /\ UNCHANGED <<target, looksAt, dirs, listed, records, results>>
      BY <1>8, <2>2 DEF EndsDirectory
    <3>2. SeenSoFar'
      BY <2>1, <3>1 DEF StandingInv, StandingParts, SeenSoFar, AtTarget, Near,
                        OnDisk, Recorded, Legible, Lock, diskVars
    <3>3. ClearedSoFar'
      BY <2>1, <3>1, SameLocksSameClear
      DEF StandingInv, StandingParts, ClearedSoFar, Looking, Objections,
          diskVars
    <3> QED
      BY <3>1, <3>2, <3>3 DEF StandingParts, StandingLockDenies
  <2>3. CASE dirs = <<>>
    <3>1. CASE \E r \in records : Blocks(r, action.aliases)
      <4>1. Concludes("deny")
        BY <1>8, <2>3, <3>1 DEF EndsDirectory
      <4> QED
        BY <2>1, <4>1, ConclusionKeepsStanding DEF Decisions, AtTarget
    <3>2. CASE ~\E r \in records : Blocks(r, action.aliases)
      <4>1. Concludes("allow")
        BY <1>8, <2>3, <3>2 DEF EndsDirectory
      <4>2. Clear(target)
        BY <2>1, <2>3, <3>2, NothingUnseen DEF StandingInv, StandingParts
      <4> QED
        BY <2>1, <4>1, <4>2, ConclusionKeepsStanding DEF Decisions, AtTarget
    <3> QED
      BY <3>1, <3>2
  <2> QED
    BY <2>2, <2>3
<1>9. CASE Decides
  <2>1. /\ pc = "choosing" /\ remaining = {}
        /\ Answers(Combine(results))
        /\ UNCHANGED <<files, standing, now, config, action>>
    BY <1>9 DEF Decides, diskVars
  <2>2. target = NoTarget /\ NoTarget \notin action.targets
    BY <2>1, TargetsArePaths DEF StandingInv, Typing, InHand, AtTarget
  <2>3. Combine(results) = "allow" => Objections = {}
    BY DEF Combine, Objections
  <2>4. Combine(results) = "allow" => \A t \in action.targets : Clear(t)
    BY <2>1, <2>2, <2>3 DEF StandingInv, StandingParts, ClearedSoFar, Looking
  <2>5. Combine(results) = "allow" => \A t \in action.targets : Clear(t)'
    BY <2>1, <2>4, SameLocksSameClear
  <2> QED
    BY <2>1, <2>5, CombineType, AnswerKeepsStanding
<1>10. CASE CannotFindMain
  <2>1. pc' = "choosing" /\ results' = results \cup {"deny"}
    BY <1>10 DEF CannotFindMain
  <2> QED
    BY <2>1 DEF StandingParts, SeenSoFar, ClearedSoFar, StandingLockDenies,
                AtTarget, Objections
<1>11. CASE CannotList
  BY <1>11, ConclusionKeepsStanding DEF CannotList, Decisions, AtTarget
<1> QED
  BY <1>1, <1>2, <1>3, <1>4, <1>5, <1>6, <1>7, <1>8, <1>9, <1>10, <1>11
  DEF GuardStep

(* What another session touches does not stand any more, and the others    *)
(* are as they were; time only releases locks.                             *)
LEMMA StandingAround ==
  ASSUME StandingInv,
         (\E n \in LockNames : TouchLock(n)) \/ Tick \/ UNCHANGED vars
  PROVE  StandingParts'
<1>1. /\ standing' \subseteq standing
      /\ \A n \in standing' : files'[n] = files[n]
      /\ UNCHANGED guardVars
      /\ now' = now \/ now' = now + 1
  <2>1. ASSUME NEW n \in LockNames, TouchLock(n)
        PROVE  /\ standing' \subseteq standing
               /\ \A m \in standing' : files'[m] = files[m]
    BY <2>1 DEF TouchLock, StandingInv, Typing, TypeOK
  <2> QED
    BY <2>1 DEF TouchLock, Tick, vars, diskVars
<1>2. now \in Nat /\ now' \in Nat /\ now <= now' /\ standing \subseteq LockNames
  BY <1>1, Bounds DEF StandingInv, Typing, TypeOK
<1>3. \A t : Near(t)' \cap standing' \subseteq Near(t) \cap standing
  BY <1>1, <1>2 DEF Near, OnDisk
<1>4. \A n \in standing' : (Legible(n)' <=> Legible(n)) /\ Lock(n)' = Lock(n)
  BY <1>1, <1>2 DEF Legible, OnDisk, Lock
<1>5. ASSUME NEW t, Clear(t)
      PROVE  Clear(t)'
  <2>1. ASSUME NEW n \in Near(t)' \cap standing'
        PROVE  Harmless(n, t)'
    <3>1. Harmless(n, t) /\ n \in OnDisk
      BY <1>3, <1>5, <2>1 DEF Clear, Near
    <3>2. TypeOK
      BY DEF StandingInv, Typing
    <3>3. Released(Lock(n), now) => Released(Lock(n), now')
      BY <1>2, <3>1, <3>2, LockHasDates, ReleasedForGood
    <3>4. Lock(n)' = Lock(n) /\ Legible(n)' /\ action' = action
      BY <1>1, <1>4, <2>1, <3>1 DEF Harmless, guardVars
    <3> QED
      BY <3>1, <3>3, <3>4 DEF Harmless, Governs, Entry
  <2> QED
    BY <1>5, <2>1 DEF Clear
<1>6. SeenSoFar'
  <2> SUFFICES ASSUME pc' \in AtTarget, NEW n \in Near(target') \cap standing,
                      n \in standing'
               PROVE  n.dir \in SeqExt!ToSet(dirs') \/ n \in listed'
                      \/ Recorded(n)'
    BY <1>1, <1>3 DEF SeenSoFar, guardVars
  <2>1. n.dir \in SeqExt!ToSet(dirs) \/ n \in listed \/ Recorded(n)
    BY <1>1 DEF StandingInv, StandingParts, SeenSoFar, guardVars
  <2> QED
    BY <1>1, <1>4, <2>1 DEF Recorded, guardVars
<1>7. ClearedSoFar'
  BY <1>1, <1>5 DEF StandingInv, StandingParts, ClearedSoFar, Objections,
                    guardVars
<1>8. StandingLockDenies'
  <2> SUFFICES ASSUME pc' = "done", answer' = "allow", Guarded',
                      NEW t \in action'.targets
               PROVE  Clear(t)'
    BY DEF StandingLockDenies, Clear, Harmless
  <2>1. Clear(t)
    BY <1>1 DEF StandingInv, StandingParts, StandingLockDenies, Clear, Harmless,
                guardVars, Guarded
  <2> QED
    BY <1>5, <2>1
<1> QED
  BY <1>6, <1>7, <1>8 DEF StandingParts

(* An action is let through only if no target of it was under a lock that  *)
(* stood untouched all the time and has not run out.                       *)
THEOREM StandingLocksDeny == Spec => []StandingLockDenies
<1>1. Init => StandingInv
  BY TypingInit DEF Init, StandingInv, StandingParts, SeenSoFar, ClearedSoFar,
                    StandingLockDenies, AtTarget, Looking
<1>2. StandingInv /\ [Next]_vars => StandingInv'
  BY TypingNext, StandingGuard, StandingAround DEF StandingInv, Next
<1>3. StandingInv => StandingLockDenies
  BY DEF StandingInv, StandingParts
<1> QED
  BY <1>1, <1>2, <1>3, PTL DEF Spec

-----------------------------------------------------------------------------
(* A guard nobody disturbs                                                 *)

(* The records that count for a target when the clock has not moved.       *)
RecordsOn(t) ==
  {RecordOf(Lock(n)) : n \in {m \in Near(t) : /\ Governs(m, t)
                                              /\ ~Released(Lock(m), 0)}}

FoundSoFar ==
  Quiet /\ pc \in AtTarget =>
    listed \subseteq Near(target) /\ records \subseteq RecordsOn(target)

DecidedSoFar ==
  Quiet /\ pc \in Looking =>
    results = {VerdictOn(t, 0) : t \in action.targets \ (remaining \cup {target})}

QuietParts == FoundSoFar /\ DecidedSoFar /\ QuietAnswer

QuietInv == StandingInv /\ QuietParts

(* The verdict on a target when all its locks can be read.                 *)
LEMMA LegibleVerdict ==
  ASSUME NEW t, Inside(t, ProjectRoot), config.mainKnown,
         \A n \in Near(t) : Legible(n)
  PROVE  VerdictOn(t, 0) =
           IF \E r \in RecordsOn(t) : Blocks(r, action.aliases)
             THEN "deny" ELSE "allow"
<1> DEFINE found == {Lock(n) : n \in {m \in Near(t) : Governs(m, t)}}
           live == {RecordOf(f) : f \in {g \in found : ~Released(g, 0)}}
<1>1. \A f \in found : f.readable
  BY DEF Legible, Lock
<1>2. LocksOn(t, 0).records = live
  BY <1>1 DEF LocksOn, InspectLocks
<1>3. live = RecordsOn(t)
  BY DEF RecordsOn
<1> HIDE DEF found, live
<1> QED
  BY <1>2, <1>3 DEF VerdictOn

(* When no lock moved, neither did what they say.                          *)
LEMMA SameLocksSameVerdict ==
  ASSUME UNCHANGED <<files, action, config>>
  PROVE  \A t : /\ VerdictOn(t, 0)' = VerdictOn(t, 0)
                /\ RecordsOn(t)' = RecordsOn(t)
                /\ Near(t)' = Near(t)
<1>1. \A n : Lock(n)' = Lock(n) /\ (Legible(n)' <=> Legible(n))
  BY DEF Lock, Legible, OnDisk
<1>2. \A t : Near(t)' = Near(t)
  BY DEF Near, OnDisk
<1>3. \A t : RecordsOn(t)' = RecordsOn(t)
  BY <1>1, <1>2 DEF RecordsOn, Governs, Entry
<1>4. \A t : LocksOn(t, 0)' = LocksOn(t, 0)
  BY <1>1, <1>2 DEF LocksOn, Governs, Entry
<1>5. \A t : VerdictOn(t, 0)' = VerdictOn(t, 0)
  BY <1>1, <1>2, <1>4 DEF VerdictOn
<1> QED
  BY <1>2, <1>3, <1>5

(* The decision on a target is its verdict.                                *)
LEMMA ConclusionKeepsQuiet ==
  ASSUME QuietInv, NEW decision \in Decisions, Concludes(decision),
         pc \in AtTarget,
         Quiet => decision = VerdictOn(target, 0),
         UNCHANGED <<diskVars, now, config, action, remaining, answer>>
  PROVE  QuietParts'
<1>1. FoundSoFar' /\ QuietAnswer'
  BY DEF Concludes, FoundSoFar, QuietAnswer, AtTarget
<1>2. \A t : VerdictOn(t, 0)' = VerdictOn(t, 0)
  BY SameLocksSameVerdict DEF diskVars
<1>3. /\ target' = NoTarget
      /\ results' = results \cup {decision}
      /\ target \in action.targets \ remaining
      /\ NoTarget \notin action.targets
  BY TargetsArePaths
  DEF Concludes, QuietInv, StandingInv, Typing, InHand, AtTarget
<1>4. (Quiet' <=> Quiet) /\ UNCHANGED <<action, remaining>>
  BY DEF Quiet, diskVars
<1>5. ASSUME Quiet
      PROVE  results' = {VerdictOn(t, 0) :
                           t \in action.targets \ (remaining \cup {target'})}
  <2>1. results = {VerdictOn(t, 0) :
                     t \in action.targets \ (remaining \cup {target})}
    BY <1>5 DEF QuietInv, QuietParts, DecidedSoFar, Looking, AtTarget
  <2>2. action.targets \ (remaining \cup {target'})
          = (action.targets \ (remaining \cup {target})) \cup {target}
    BY <1>3
  <2> QED
    BY <1>3, <1>5, <2>1, <2>2
<1>6. DecidedSoFar'
  BY <1>2, <1>4, <1>5 DEF DecidedSoFar
<1> QED
  BY <1>1, <1>6 DEF QuietParts

(* The answer of a guard nobody disturbed.                                 *)
LEMMA AnswerKeepsQuiet ==
  ASSUME QuietInv, NEW decision \in Decisions, Answers(decision),
         Quiet' /\ Guarded /\ config.owner =>
           decision = Combine({VerdictOn(t, 0) : t \in action.targets}),
         UNCHANGED <<files, now, config, action>>
  PROVE  QuietParts'
<1>1. pc' = "done" /\ answer' = Emitted(decision)
  BY DEF Answers
<1>2. FoundSoFar' /\ DecidedSoFar'
  BY <1>1 DEF FoundSoFar, DecidedSoFar, AtTarget, Looking
<1>3. ASSUME Guarded, config.owner, Quiet'
      PROVE  LET verdicts == {VerdictOn(t, 0)' : t \in action.targets}
             IN  /\ answer' = "allow" <=> verdicts \subseteq {"allow"}
                 /\ answer' = "ask" <=>
                      config.asks /\ "ask" \in verdicts /\ "deny" \notin verdicts
  <2> DEFINE verdicts == {VerdictOn(t, 0) : t \in action.targets}
  <2>1. {VerdictOn(t, 0)' : t \in action.targets} = verdicts
    BY SameLocksSameVerdict
  <2>2. verdicts \subseteq {"allow", "ask", "deny"}
    BY DEF VerdictOn
  <2>3. decision = Combine(verdicts)
    BY <1>3
  <2> HIDE DEF verdicts
  <2>4. /\ answer' = "allow" <=> verdicts \subseteq {"allow"}
        /\ answer' = "ask" <=>
             config.asks /\ "ask" \in verdicts /\ "deny" \notin verdicts
    <3>1. verdicts \subseteq {"allow"} <=>
            "ask" \notin verdicts /\ "deny" \notin verdicts
      BY <2>2
    <3>2. decision = "allow" <=>
            "ask" \notin verdicts /\ "deny" \notin verdicts
      BY <2>3 DEF Combine
    <3>3. decision = "ask" <=> "ask" \in verdicts /\ "deny" \notin verdicts
      BY <2>3 DEF Combine
    <3>4. /\ answer' = "allow" <=> decision = "allow"
          /\ answer' = "ask" <=> decision = "ask" /\ config.asks
      BY <1>1 DEF Emitted
    <3> QED
      BY <3>1, <3>2, <3>3, <3>4
  <2> QED
    BY <2>1, <2>4
<1>4. QuietAnswer'
  BY <1>3 DEF QuietAnswer, Quiet, Guarded
<1> QED
  BY <1>2, <1>4 DEF QuietParts

(* Every step of the guard keeps the invariant.                            *)
LEMMA QuietGuard ==
  ASSUME QuietInv, GuardStep
  PROVE  QuietParts'
<1>1. CASE AnswersAtOnce
  <2>1. PICK decision \in Decisions :
          Answers(decision) /\ ~(Guarded /\ config.owner)
    BY <1>1 DEF AnswersAtOnce, Guarded, Decisions
  <2> QED
    BY <1>1, <2>1, AnswerKeepsQuiet DEF AnswersAtOnce
<1>2. CASE BeginGuard
  <2>1. /\ pc = "idle" /\ pc' = "choosing" /\ remaining' = action'.targets
        /\ results' = results /\ results = {}
    BY <1>2 DEF BeginGuard, QuietInv, StandingInv, Typing, InHand
  <2> QED
    BY <2>1 DEF QuietParts, FoundSoFar, DecidedSoFar, QuietAnswer, AtTarget
<1>3. CASE TakesOutsideTarget
  <2>1. PICK t \in remaining : /\ ~Inside(t, ProjectRoot)
                               /\ remaining' = remaining \ {t}
    BY <1>3 DEF TakesOutsideTarget
  <2>2. /\ pc = "choosing" /\ pc' = "choosing"
        /\ results' = results \cup {"ask"}
        /\ UNCHANGED <<files, standing, now, action, config, target>>
    BY <1>3 DEF TakesOutsideTarget, diskVars
  <2>3. t \in action.targets /\ target = NoTarget
        /\ NoTarget \notin action.targets
    BY <2>1, <2>2, TargetsArePaths
    DEF QuietInv, StandingInv, Typing, TypeOK, InHand, AtTarget
  <2>4. VerdictOn(t, 0) = "ask"
    BY <2>1 DEF VerdictOn
  <2>5. ASSUME Quiet
        PROVE  results' = {VerdictOn(u, 0) :
                             u \in action.targets \ (remaining' \cup {target})}
    <3>1. results = {VerdictOn(u, 0) :
                       u \in action.targets \ (remaining \cup {target})}
      BY <2>2, <2>5 DEF QuietInv, QuietParts, DecidedSoFar, Looking
    <3>2. action.targets \ (remaining' \cup {target})
            = (action.targets \ (remaining \cup {target})) \cup {t}
      BY <2>1, <2>3
    <3> QED
      BY <2>2, <2>4, <3>1, <3>2
  <2>6. \A u : VerdictOn(u, 0)' = VerdictOn(u, 0)
    BY <2>2, SameLocksSameVerdict
  <2>7. DecidedSoFar'
    BY <2>2, <2>5, <2>6 DEF DecidedSoFar, Quiet
  <2> QED
    BY <2>2, <2>7 DEF QuietParts, FoundSoFar, QuietAnswer, AtTarget
<1>4. CASE TakesTarget
  <2>1. PICK t \in remaining : /\ remaining' = remaining \ {t}
                               /\ target' = t
    BY <1>4 DEF TakesTarget
  <2>2. /\ UNCHANGED <<files, standing, now, action, config, listed, records,
                      results>>
        /\ pc = "choosing" /\ pc' = "listing"
    BY <1>4 DEF TakesTarget, diskVars
  <2>3. /\ listed = {} /\ records = {} /\ target = NoTarget
        /\ NoTarget \notin action.targets /\ t \in action.targets
    BY <2>1, <2>2, TargetsArePaths
    DEF QuietInv, StandingInv, Typing, TypeOK, InHand, AtTarget
  <2>4. FoundSoFar'
    BY <2>2, <2>3 DEF FoundSoFar
  <2>5. action.targets \ (remaining' \cup {target'})
          = action.targets \ (remaining \cup {target})
    BY <2>1, <2>3
  <2>6. \A u : VerdictOn(u, 0)' = VerdictOn(u, 0)
    BY <2>2, SameLocksSameVerdict
  <2>7. DecidedSoFar'
    BY <2>2, <2>5, <2>6 DEF QuietInv, QuietParts, DecidedSoFar, Looking, Quiet
  <2> QED
    BY <2>2, <2>4, <2>7 DEF QuietParts, QuietAnswer
<1>5. CASE ListsDirectory
  <2>1. /\ UNCHANGED <<files, standing, now, action, config, remaining, target,
                       looksAt, records, results>>
        /\ pc = "listing" /\ pc' = "reading" /\ dirs' = Tail(dirs)
        /\ listed' = {n \in OnDisk : /\ n.dir = Head(dirs)
                                 /\ n.dir \notin config.closed}
    BY <1>5 DEF ListsDirectory, diskVars
  <2>2. Head(dirs) \in DirsOf(target)
    BY <2>1, HeadAndTail DEF QuietInv, StandingInv, Typing, InHand, AtTarget
  <2>3. listed' \subseteq Near(target)
    BY <2>1, <2>2 DEF Near, DirsOf
  <2>4. FoundSoFar'
    BY <2>1, <2>3, SameLocksSameVerdict
    DEF QuietInv, QuietParts, FoundSoFar, AtTarget, Quiet
  <2>5. DecidedSoFar'
    BY <2>1, SameLocksSameVerdict
    DEF QuietInv, QuietParts, DecidedSoFar, Looking, Quiet
  <2> QED
    BY <2>1, <2>4, <2>5 DEF QuietParts, QuietAnswer
<1>6. CASE ReadsLock
  <2>1. PICK m \in listed :
          /\ listed' = listed \ {m}
          /\ records' = IF InScope(m, target) /\ ~Released(Lock(m), looksAt)
                          THEN records \cup {RecordOf(Lock(m))}
                          ELSE records
    BY <1>6 DEF ReadsLock
  <2>2. /\ UNCHANGED <<files, standing, now, action, config, remaining, target,
                       results, pc>>
        /\ pc = "reading"
    BY <1>6 DEF ReadsLock, diskVars
  <2>3. ASSUME Quiet
        PROVE  listed' \subseteq Near(target) /\ records' \subseteq RecordsOn(target)
    <3>1. listed \subseteq Near(target) /\ records \subseteq RecordsOn(target)
      BY <2>2, <2>3 DEF QuietInv, QuietParts, FoundSoFar, AtTarget
    <3>2. looksAt = 0
      BY <2>3, Bounds DEF Quiet, QuietInv, StandingInv, Typing, TypeOK, InHand
    <3>3. m \in LockNames /\ target \in Paths
      BY <2>1, <2>2, TargetsArePaths
      DEF QuietInv, StandingInv, Typing, TypeOK, InHand, AtTarget
    <3>4. InScope(m, target) <=> Governs(m, target)
      BY <3>3, ScopeGoverns
    <3>5. Governs(m, target) /\ ~Released(Lock(m), 0)
            => RecordOf(Lock(m)) \in RecordsOn(target)
      BY <2>1, <3>1 DEF RecordsOn
    <3> QED
      BY <2>1, <3>1, <3>2, <3>4, <3>5
  <2>4. FoundSoFar'
    BY <2>2, <2>3, SameLocksSameVerdict DEF FoundSoFar, Quiet
  <2>5. DecidedSoFar'
    BY <2>2, SameLocksSameVerdict
    DEF QuietInv, QuietParts, DecidedSoFar, Looking, Quiet
  <2> QED
    BY <2>2, <2>4, <2>5 DEF QuietParts, QuietAnswer
<1>7. CASE CannotReadLock
  <2>1. /\ Concludes("deny") /\ pc = "reading"
        /\ UNCHANGED <<diskVars, now, config, action, remaining, answer>>
    BY <1>7 DEF CannotReadLock
  <2>2. ASSUME Quiet
        PROVE  VerdictOn(target, 0) = "deny"
    <3>1. \E n \in Near(target) : ~Legible(n)
      BY <1>7, <2>1, <2>2 DEF CannotReadLock, QuietInv, QuietParts, FoundSoFar,
                              AtTarget
    <3>2. Inside(target, ProjectRoot)
      BY <2>1 DEF QuietInv, StandingInv, Typing, InHand, AtTarget
    <3> QED
      BY <3>1, <3>2 DEF VerdictOn
  <2> QED
    BY <2>1, <2>2, ConclusionKeepsQuiet DEF Decisions, AtTarget
<1>8. CASE EndsDirectory
  <2>1. /\ pc = "reading" /\ listed = {}
        /\ UNCHANGED <<diskVars, now, config, action, remaining, answer>>
    BY <1>8 DEF EndsDirectory
  <2>2. CASE dirs # <<>>
    <3>1. /\ pc' = "listing"
          /\ UNCHANGED <<target, looksAt, dirs, listed, records, results>>
      BY <1>8, <2>2 DEF EndsDirectory
    <3>2. FoundSoFar'
      BY <2>1, <3>1, SameLocksSameVerdict
      DEF QuietInv, QuietParts, FoundSoFar, AtTarget, Quiet, diskVars
    <3>3. DecidedSoFar'
      BY <2>1, <3>1, SameLocksSameVerdict
      DEF QuietInv, QuietParts, DecidedSoFar, Looking, Quiet, diskVars
    <3> QED
      BY <3>1, <3>2, <3>3 DEF QuietParts, QuietAnswer
  <2>3. CASE dirs = <<>>
    <3> DEFINE decision == IF \E r \in records : Blocks(r, action.aliases)
                             THEN "deny" ELSE "allow"
    <3>1. Concludes(decision)
      BY <1>8, <2>3 DEF EndsDirectory
    <3>2. ASSUME Quiet
          PROVE  decision = VerdictOn(target, 0)
      <4>1. /\ target \in action.targets /\ target \in Paths
            /\ Inside(target, ProjectRoot) /\ config.mainKnown
            /\ looksAt = 0
        BY <2>1, <3>2, TargetsArePaths, Bounds
        DEF Quiet, QuietInv, StandingInv, Typing, TypeOK, InHand, AtTarget
      <4>2. \A n \in Near(target) : n \in LockNames /\ Recorded(n)
        BY <2>1, <2>3, <3>2, NoDirs
        DEF Quiet, QuietInv, StandingInv, StandingParts, SeenSoFar, AtTarget,
            Near, OnDisk
      <4>3. RecordsOn(target) \subseteq records
        <5> SUFFICES ASSUME NEW n \in Near(target), Governs(n, target),
                            ~Released(Lock(n), 0)
                     PROVE  RecordOf(Lock(n)) \in records
          BY DEF RecordsOn
        <5> QED
          BY <4>1, <4>2, ScopeGoverns DEF Recorded
      <4>4. records \subseteq RecordsOn(target)
        BY <2>1, <3>2 DEF QuietInv, QuietParts, FoundSoFar, AtTarget
      <4>5. \A n \in Near(target) : Legible(n)
        BY <4>2 DEF Recorded
      <4> QED
        BY <4>1, <4>3, <4>4, <4>5, LegibleVerdict
    <3>3. decision \in Decisions
      BY DEF Decisions
    <3> HIDE DEF decision
    <3> QED
      BY <2>1, <3>1, <3>2, <3>3, ConclusionKeepsQuiet DEF AtTarget
  <2> QED
    BY <2>2, <2>3
<1>9. CASE Decides
  <2>1. /\ pc = "choosing" /\ remaining = {}
        /\ Answers(Combine(results))
        /\ UNCHANGED <<files, standing, now, config, action>>
    BY <1>9 DEF Decides, diskVars
  <2>2. target = NoTarget /\ NoTarget \notin action.targets
    BY <2>1, TargetsArePaths DEF QuietInv, StandingInv, Typing, InHand, AtTarget
  <2>3. action.targets \ (remaining \cup {target}) = action.targets
    BY <2>1, <2>2
  <2>4. Quiet => results = {VerdictOn(t, 0) : t \in action.targets}
    BY <2>1, <2>3 DEF QuietInv, QuietParts, DecidedSoFar, Looking
  <2>5. Quiet' <=> Quiet
    BY <2>1 DEF Quiet
  <2> QED
    BY <2>1, <2>4, <2>5, CombineType, AnswerKeepsQuiet
<1>10. CASE CannotFindMain
  <2>1. PICK t \in remaining : /\ Inside(t, ProjectRoot)
                               /\ remaining' = remaining \ {t}
    BY <1>10 DEF CannotFindMain
  <2>2. /\ pc = "choosing" /\ pc' = "choosing" /\ ~config.mainKnown
        /\ results' = results \cup {"deny"}
        /\ UNCHANGED <<files, standing, now, action, config, target>>
    BY <1>10 DEF CannotFindMain, diskVars
  <2>3. t \in action.targets /\ target = NoTarget
        /\ NoTarget \notin action.targets
    BY <2>1, <2>2, TargetsArePaths
    DEF QuietInv, StandingInv, Typing, TypeOK, InHand, AtTarget
  <2>4. VerdictOn(t, 0) = "deny"
    BY <2>1, <2>2 DEF VerdictOn
  <2>5. ASSUME Quiet
        PROVE  results' = {VerdictOn(u, 0) :
                             u \in action.targets \ (remaining' \cup {target})}
    <3>1. results = {VerdictOn(u, 0) :
                       u \in action.targets \ (remaining \cup {target})}
      BY <2>2, <2>5 DEF QuietInv, QuietParts, DecidedSoFar, Looking
    <3>2. action.targets \ (remaining' \cup {target})
            = (action.targets \ (remaining \cup {target})) \cup {t}
      BY <2>1, <2>3
    <3> QED
      BY <2>2, <2>4, <3>1, <3>2
  <2>6. \A u : VerdictOn(u, 0)' = VerdictOn(u, 0)
    BY <2>2, SameLocksSameVerdict
  <2>7. DecidedSoFar'
    BY <2>2, <2>5, <2>6 DEF DecidedSoFar, Quiet
  <2> QED
    BY <2>2, <2>7 DEF QuietParts, FoundSoFar, QuietAnswer, AtTarget
<1>11. CASE CannotList
  <2>1. /\ Concludes("deny") /\ pc = "listing" /\ ~Quiet
        /\ UNCHANGED <<diskVars, now, config, action, remaining, answer>>
    BY <1>11 DEF CannotList, Quiet
  <2> QED
    BY <2>1, ConclusionKeepsQuiet DEF Decisions, AtTarget
<1> QED
  BY <1>1, <1>2, <1>3, <1>4, <1>5, <1>6, <1>7, <1>8, <1>9, <1>10, <1>11
  DEF GuardStep

(* A touched lock or a later time is a disturbance.                        *)
LEMMA QuietAround ==
  ASSUME QuietInv, (\E n \in LockNames : TouchLock(n)) \/ Tick \/ UNCHANGED vars
  PROVE  QuietParts'
<1>1. CASE UNCHANGED vars
  <2>1. UNCHANGED <<files, standing, now, pc, config, action, remaining, target,
                    listed, records, results, answer>>
    BY <1>1 DEF vars, diskVars, guardVars
  <2>2. \A t : VerdictOn(t, 0)' = VerdictOn(t, 0) /\ RecordsOn(t)' = RecordsOn(t)
               /\ Near(t)' = Near(t)
    BY <2>1, SameLocksSameVerdict
  <2>3. FoundSoFar' /\ DecidedSoFar'
    BY <2>1, <2>2 DEF QuietInv, QuietParts, FoundSoFar, DecidedSoFar, Quiet
  <2>4. QuietAnswer'
    BY <2>1, <2>2 DEF QuietInv, QuietParts, QuietAnswer, Guarded, Quiet
  <2> QED
    BY <2>3, <2>4 DEF QuietParts
<1>2. CASE (\E n \in LockNames : TouchLock(n)) \/ Tick
  <2>1. ASSUME NEW n \in LockNames, TouchLock(n)
        PROVE  standing' # LockNames
    BY <2>1 DEF TouchLock
  <2>3. ~Quiet'
    <3>1. Tick => now' # 0
      BY Bounds DEF Tick, QuietInv, StandingInv, Typing, TypeOK
    <3> QED
      BY <1>2, <2>1, <3>1 DEF Quiet
  <2> QED
    BY <2>3 DEF QuietParts, FoundSoFar, DecidedSoFar, QuietAnswer, Quiet
<1> QED
  BY <1>1, <1>2

(* The answer of a guard nobody disturbed is the one the locks define, in  *)
(* whatever order it looks at targets, directories and files.              *)
THEOREM QuietGuardAnswersRight == Spec => []QuietAnswer
<1>1. Init => QuietInv
  BY TypingInit DEF Init, QuietInv, StandingInv, StandingParts, SeenSoFar,
                    ClearedSoFar, StandingLockDenies, QuietParts, FoundSoFar,
                    DecidedSoFar, QuietAnswer, AtTarget, Looking
<1>2. QuietInv /\ [Next]_vars => QuietInv'
  BY TypingNext, StandingGuard, StandingAround, QuietGuard, QuietAround
  DEF QuietInv, StandingInv, Next
<1>3. QuietInv => QuietAnswer
  BY DEF QuietInv, QuietParts
<1> QED
  BY <1>1, <1>2, <1>3, PTL DEF Spec
=============================================================================
