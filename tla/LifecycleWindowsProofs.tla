----------------------- MODULE LifecycleWindowsProofs -----------------------
(***************************************************************************)
(* Theorems about LifecycleWindows for transcripts of any size, any number *)
(* of events and handlers, and any number of deaths, repeated deliveries   *)
(* and pruned jobs. The two about bytes are for a session whose events all *)
(* name one transcript: PreCompact hands an offset on to another one.      *)
(***************************************************************************)
EXTENDS LifecycleWindows, TLAPS

-----------------------------------------------------------------------------
(* Types                                                                   *)

(* A handler has an event, whatever it does with it.                       *)
Typing ==
  /\ TypeOK
  /\ \A h \in Hooks : pc[h] # "idle" => event[h] \in Events

(* The places of a handler that holds the session's lock.                  *)
Holding == {"measured", "hashing", "submitted"}

(* The handlers past the lock and its holder are the same.                 *)
Exclusion == \A h \in Hooks : pc[h] \in Holding <=> lock = h

(* What a handler sees of its transcript is a horizon.                     *)
LEMMA SeenType ==
  ASSUME TypeOK, NEW e \in Events
  PROVE  Seen(e.anchor) \in Horizons /\ Size(e.anchor) \in Sizes
<1>1. e.anchor \in Anchors \cup {NoAnchor}
  BY WindowsAssumption
<1>2. Size(e.anchor) \in Sizes
  BY <1>1, WindowsAssumption DEF Size, Sizes, NoSize, TypeOK
<1>3. (IF e.anchor \in Anchors THEN edition[e.anchor] ELSE 0)
        \in NoEdition .. MaxRewrites
  BY <1>1, WindowsAssumption DEF NoEdition, TypeOK
<1> QED
  BY <1>1, <1>2, <1>3 DEF Seen, Horizons

(* A window begins and ends at sizes, and it ends where it begins or later.*)
LEMMA StartType ==
  ASSUME TypeOK, NEW h \in Hooks
  PROVE  /\ Start(h) \in Sizes
         /\ Start(h) <= end[h]
<1>1. end[h] \in Sizes /\ checkpoint.offset \in Sizes
  BY DEF TypeOK, Checkpoints
<1>2. Sizes = -1 .. MaxSize /\ MaxSize \in Nat
  BY WindowsAssumption DEF Sizes, NoSize
<1> QED
  BY <1>1, <1>2 DEF Start, NoSize

(* A handler builds a job file of its event.                               *)
LEMMA JobType ==
  ASSUME TypeOK, NEW h \in Hooks, event[h] \in Events
  PROVE  JobOf(h) \in JobFiles
<1>1. horizon[h] \in Horizons /\ end[h] \in Sizes
  BY DEF TypeOK
<1> QED
  BY <1>1, StartType DEF JobOf, JobFiles

(* No event and no size are what they are called.                          *)
LEMMA NoneType ==
  /\ NoHorizon \in Horizons
  /\ NoSize \in Sizes
  BY WindowsAssumption DEF NoHorizon, Horizons, Sizes, NoSize, NoEdition

(* Init gives every variable its type.                                     *)
LEMMA TypingInit == Init => Typing /\ Exclusion
<1> SUFFICES ASSUME Init
             PROVE  Typing /\ Exclusion
  OBVIOUS
<1>1. TypeOK
  BY NoneType, WindowsAssumption DEF Init, TypeOK, Checkpoints, PCs
<1>2. Exclusion
  BY WindowsAssumption DEF Init, Exclusion, Holding, Nobody
<1> QED
  BY <1>1, <1>2 DEF Typing, Init

(* A handler that returns leaves types behind.                             *)
LEMMA ReturnsType ==
  ASSUME Typing, Exclusion, NEW h \in Hooks, Returns(h)
  PROVE  /\ lock' \in Hooks \cup {Nobody}
         /\ pc' \in [Hooks -> PCs]
         /\ event' \in [Hooks -> Events \cup {NoEvent}]
         /\ horizon' \in [Hooks -> Horizons]
         /\ end' \in [Hooks -> Sizes]
         /\ before' \in [Hooks -> Horizons]
         /\ \A g \in Hooks : pc'[g] # "idle" => event'[g] \in Events
         /\ Exclusion'
<1>1. "idle" \in PCs /\ "idle" \notin Holding
  BY DEF PCs, Holding
<1>2. Nobody \notin Hooks
  BY WindowsAssumption DEF Nobody
<1> QED
  BY <1>1, <1>2, NoneType DEF Returns, Goto, Typing, TypeOK, Exclusion

(* Every step keeps the types and the lock.                                *)
LEMMA TypingStep ==
  ASSUME Typing, Exclusion, [Next]_vars
  PROVE  Typing' /\ Exclusion'
<1> TypeOK
  BY DEF Typing
<1> USE WindowsAssumption DEF fileVars, hostVars, handlerVars
<1>1. CASE UNCHANGED vars
  BY <1>1 DEF vars, Typing, TypeOK, Exclusion
<1>2. ASSUME NEW h \in Hooks, NEW e \in Events, Handle(h, e)
      PROVE  Typing' /\ Exclusion'
  <2>1. Seen(e.anchor) \in Horizons
    BY SeenType
  <2>2. "waiting" \in PCs /\ "waiting" \notin Holding /\ "idle" \notin Holding
    BY DEF PCs, Holding
  <2>3. repeats' \in 0 .. MaxRepeats
    BY <1>2 DEF Handle, TypeOK
  <2> QED
    BY <1>2, <2>1, <2>2, <2>3 DEF Handle, Goto, Typing, TypeOK, Exclusion
<1>3. ASSUME NEW h \in Hooks, Measures(h)
      PROVE  Typing' /\ Exclusion'
  <2>1. event[h] \in Events
    BY <1>3 DEF Measures, Typing
  <2>2. Size(event[h].anchor) \in Sizes
    BY <2>1, SeenType
  <2>3. "measured" \in PCs /\ "measured" \in Holding
    BY DEF PCs, Holding
  <2> QED
    BY <1>3, <2>1, <2>2, <2>3
       DEF Measures, Goto, Typing, TypeOK, Exclusion, Nobody
<1>4. ASSUME NEW h \in Hooks, ChecksPoint(h)
      PROVE  Typing' /\ Exclusion'
  <2>1. event[h] \in Events
    BY <1>4 DEF ChecksPoint, Typing
  <2>2. checkpoint' \in Checkpoints
    BY <1>4, <2>1 DEF ChecksPoint, Checkpoints, TypeOK
  <2> QED
    BY <1>4, <2>2, ReturnsType DEF ChecksPoint, Typing, TypeOK
<1>5. ASSUME NEW h \in Hooks, OverlapNoop(h)
      PROVE  Typing' /\ Exclusion'
  <2>1. answered' \subseteq Horizons
    BY <1>5 DEF OverlapNoop, TypeOK
  <2> QED
    BY <1>5, <2>1, ReturnsType DEF OverlapNoop, Typing, TypeOK
<1>6. ASSUME NEW h \in Hooks, BeginsHashing(h)
      PROVE  Typing' /\ Exclusion'
  <2>1. event[h] \in Events
    BY <1>6 DEF BeginsHashing, Typing
  <2>2. Seen(event[h].anchor) \in Horizons
    BY <2>1, SeenType
  <2>3. "hashing" \in PCs /\ {"hashing", "measured"} \subseteq Holding
    BY DEF PCs, Holding
  <2> QED
    BY <1>6, <2>1, <2>2, <2>3
       DEF BeginsHashing, Goto, Typing, TypeOK, Exclusion
<1>7. ASSUME NEW h \in Hooks, Submits(h)
      PROVE  Typing' /\ Exclusion'
  <2>1. event[h] \in Events
    BY <1>7 DEF Submits, Typing
  <2>2. jobs' \subseteq JobFiles /\ windows' \subseteq JobFiles
    BY <1>7, <2>1, JobType DEF Submits, TypeOK
  <2>3. "submitted" \in PCs /\ {"hashing", "submitted"} \subseteq Holding
    BY DEF PCs, Holding
  <2> QED
    BY <1>7, <2>1, <2>2, <2>3 DEF Submits, Goto, Typing, TypeOK, Exclusion
<1>8. ASSUME NEW h \in Hooks, SavesCheckpoint(h)
      PROVE  Typing' /\ Exclusion'
  <2>1. event[h] \in Events /\ horizon[h] \in Horizons /\ end[h] \in Sizes
    BY <1>8 DEF SavesCheckpoint, Typing, TypeOK
  <2>2. checkpoint' \in Checkpoints /\ answered' \subseteq Horizons
    BY <1>8, <2>1 DEF SavesCheckpoint, Checkpoints, TypeOK
  <2> QED
    BY <1>8, <2>2, ReturnsType DEF SavesCheckpoint, Typing, TypeOK
<1>9. ASSUME NEW h \in Hooks, Aborts(h)
      PROVE  Typing' /\ Exclusion'
  <2>1. aborts' \in 0 .. MaxAborts
    BY <1>9 DEF Aborts, TypeOK
  <2> QED
    BY <1>9, <2>1, ReturnsType DEF Aborts, Typing, TypeOK
<1>10. ASSUME NEW a \in Anchors, Grows(a) \/ IsRewritten(a)
       PROVE  Typing' /\ Exclusion'
  <2>1. /\ size' \in [Anchors -> 0 .. MaxSize]
        /\ edition' \in [Anchors -> 0 .. MaxRewrites]
    BY <1>10 DEF Grows, IsRewritten, TypeOK
  <2> QED
    BY <1>10, <2>1 DEF Grows, IsRewritten, Typing, TypeOK, Exclusion
<1>11. ASSUME NEW job \in jobs, IsPruned(job)
       PROVE  Typing' /\ Exclusion'
  BY <1>11 DEF IsPruned, Typing, TypeOK, Exclusion
<1> QED
  BY <1>1, <1>2, <1>3, <1>4, <1>5, <1>6, <1>7, <1>8, <1>9, <1>10, <1>11
     DEF Next, HandlerStep

(* Types and lock hold from the first event on.                            *)
LEMMA TypingAlways == Spec => [](Typing /\ Exclusion)
  BY TypingInit, TypingStep, PTL DEF Spec

(* Whatever the host writes and the handlers do, every job file, offset    *)
(* and horizon is one the code can write.                                  *)
THEOREM WindowTypeCorrect == Spec => []TypeOK
<1>1. Typing => TypeOK
  BY DEF Typing
<1> QED
  BY <1>1, TypingAlways, PTL

(* However a transcript shrinks between two events or while one waits, no  *)
(* job is built whose window ends before it begins.                        *)
THEOREM WindowsStayWellFormed == Spec => []WindowsWellFormed
<1>1. Init => WindowsWellFormed
  BY DEF Init, WindowsWellFormed
<1>2. Typing /\ WindowsWellFormed /\ [Next]_vars => WindowsWellFormed'
  <2> SUFFICES ASSUME Typing, WindowsWellFormed, [Next]_vars
               PROVE  WindowsWellFormed'
    OBVIOUS
  <2>1. CASE UNCHANGED windows
    BY <2>1 DEF WindowsWellFormed
  <2>2. ASSUME NEW h \in Hooks, Submits(h)
        PROVE  WindowsWellFormed'
    <3>1. JobOf(h).start <= JobOf(h).end
      BY StartType DEF JobOf, Typing
    <3> QED
      BY <2>2, <3>1 DEF Submits, WindowsWellFormed
  <2> QED
    BY <2>1, <2>2
       DEF Next, HandlerStep, Handle, Measures, ChecksPoint, OverlapNoop,
           BeginsHashing, SavesCheckpoint, Aborts, Grows, IsRewritten,
           IsPruned, vars
<1> QED
  BY <1>1, <1>2, TypingAlways, PTL DEF Spec

-----------------------------------------------------------------------------
(* The order of offsets                                                    *)

(* All events of the session name this transcript.                         *)
Sole(a) == a \in Anchors /\ \A e \in Events : e.anchor = a

(* While it is only appended to, the checkpoint's offset lies within it, a *)
(* handler under the lock measures no less than the offset and no less     *)
(* than the horizon it waited with, and the offset is past the horizon     *)
(* that was scheduled last.                                                *)
OffsetsInOrder(a) ==
  AppendedOnly =>
    /\ checkpoint.offset <= size[a]
    /\ checkpoint.offset # NoSize => checkpoint.anchor = a
    /\ checkpoint.through.anchor = a
         => checkpoint.through.size <= checkpoint.offset
    /\ \A h \in Hooks :
         pc[h] # "idle" =>
           /\ horizon[h].anchor = a
           /\ 0 <= horizon[h].size /\ horizon[h].size <= size[a]
    /\ \A h \in Hooks :
         pc[h] \in Holding =>
           /\ checkpoint.offset <= end[h]
           /\ horizon[h].size <= end[h] /\ end[h] <= size[a]

(* The sizes of the model are numbers.                                     *)
LEMMA SizeNumbers ==
  ASSUME Typing, NEW a, Sole(a)
  PROVE  /\ size[a] \in Nat
         /\ checkpoint.offset \in Int
         /\ checkpoint.through.size \in Int
         /\ \A h \in Hooks : end[h] \in Int /\ horizon[h].size \in Int
<1>1. Sizes \subseteq Int
  BY WindowsAssumption DEF Sizes, NoSize
<1>2. /\ checkpoint \in Checkpoints
      /\ \A h \in Hooks : horizon[h] \in Horizons /\ end[h] \in Sizes
  BY DEF Typing, TypeOK
<1>3. size[a] \in Nat
  BY WindowsAssumption DEF Typing, TypeOK, Sole
<1> QED
  BY <1>1, <1>2, <1>3 DEF Checkpoints, Horizons

(* A handler that returns is out of the way.                               *)
LEMMA ReturnsElsewhere ==
  ASSUME Typing, NEW h \in Hooks, Returns(h)
  PROVE  /\ pc'[h] = "idle"
         /\ \A g \in Hooks \ {h} : /\ pc'[g] = pc[g]
                                   /\ event'[g] = event[g]
                                   /\ horizon'[g] = horizon[g]
                                   /\ end'[g] = end[g]
  BY DEF Returns, Goto, Typing, TypeOK

(* Every step keeps the offsets in order.                                  *)
LEMMA OrderStep ==
  ASSUME Typing, Exclusion, [Next]_vars, NEW a, Sole(a), OffsetsInOrder(a)
  PROVE  OffsetsInOrder(a)'
<1> TypeOK
  BY DEF Typing
<1> USE DEF fileVars, hostVars, handlerVars
<1> SUFFICES ASSUME AppendedOnly'
             PROVE  OffsetsInOrder(a)'
  BY DEF OffsetsInOrder
<1>1. \A b \in Anchors : edition[b] \in Nat /\ edition'[b] = 0
  BY WindowsAssumption DEF AppendedOnly, TypeOK
<1>2. ~\E b \in Anchors : IsRewritten(b)
  BY <1>1 DEF IsRewritten, TypeOK
<1>3. UNCHANGED edition
  BY <1>2 DEF Next, HandlerStep, Handle, Measures, ChecksPoint, OverlapNoop,
              BeginsHashing, Submits, SavesCheckpoint, Aborts, Grows,
              IsPruned, vars
<1>4. AppendedOnly
  BY <1>1, <1>3 DEF AppendedOnly
<1>5. a \in Anchors /\ a # NoAnchor /\ size[a] \in Nat
  BY WindowsAssumption DEF Sole, TypeOK
<1>6. \A h \in Hooks :
        pc[h] # "idle" => event[h] \in Events /\ event[h].anchor = a
  BY DEF Typing, Sole
<1>7. "idle" \notin Holding /\ "waiting" \notin Holding
  BY DEF Holding
<1>8. ASSUME UNCHANGED <<size, checkpoint, pc, horizon, end>>
      PROVE  OffsetsInOrder(a)'
  BY <1>4, <1>8 DEF OffsetsInOrder
<1>9. ASSUME NEW h \in Hooks, Returns(h), UNCHANGED size,
             /\ checkpoint'.offset <= size[a]
             /\ checkpoint'.offset # NoSize => checkpoint'.anchor = a
             /\ checkpoint'.through.anchor = a
                  => checkpoint'.through.size <= checkpoint'.offset,
             pc[h] \in Holding \/ UNCHANGED checkpoint
      PROVE  OffsetsInOrder(a)'
  <2>1. \A g \in Hooks \ {h} : pc[h] \in Holding => pc[g] \notin Holding
    BY DEF Exclusion
  <2> QED
    BY <1>4, <1>7, <1>9, <2>1, ReturnsElsewhere DEF OffsetsInOrder
<1>10. ASSUME NEW h \in Hooks, NEW e \in Events, Handle(h, e)
       PROVE  OffsetsInOrder(a)'
  <2>1. Seen(e.anchor).anchor = a /\ Seen(e.anchor).size = size[a]
    BY <1>5 DEF Seen, Size, Sole
  <2> QED
    BY <1>4, <1>5, <1>7, <1>10, <2>1
       DEF Handle, Goto, OffsetsInOrder, TypeOK
<1>11. ASSUME NEW h \in Hooks, Measures(h)
       PROVE  OffsetsInOrder(a)'
  <2>1. end'[h] = size[a]
    BY <1>5, <1>6, <1>11 DEF Measures, Size, TypeOK
  <2> QED
    BY <1>4, <1>5, <1>11, <2>1 DEF Measures, Goto, OffsetsInOrder, TypeOK
<1>12. ASSUME NEW h \in Hooks, ChecksPoint(h)
       PROVE  OffsetsInOrder(a)'
  <2>1. /\ checkpoint'.offset = checkpoint.offset
        /\ checkpoint'.through = checkpoint.through
        /\ checkpoint'.anchor = a
    BY <1>6, <1>12 DEF ChecksPoint, TypeOK, Checkpoints
  <2> QED
    BY <1>4, <1>9, <1>12, <2>1 DEF ChecksPoint, OffsetsInOrder, Holding
<1>13. ASSUME NEW h \in Hooks, OverlapNoop(h) \/ Aborts(h)
       PROVE  OffsetsInOrder(a)'
  BY <1>4, <1>9, <1>13 DEF OverlapNoop, Aborts, OffsetsInOrder
<1>14. ASSUME NEW h \in Hooks, BeginsHashing(h) \/ Submits(h)
       PROVE  OffsetsInOrder(a)'
  BY <1>4, <1>14
     DEF BeginsHashing, Submits, Goto, OffsetsInOrder, TypeOK, Holding
<1>15. ASSUME NEW h \in Hooks, SavesCheckpoint(h)
       PROVE  OffsetsInOrder(a)'
  <2>1. /\ checkpoint'.offset = end[h]
        /\ checkpoint'.through = horizon[h]
        /\ checkpoint'.anchor = a
    BY <1>6, <1>15 DEF SavesCheckpoint
  <2>2. pc[h] \in Holding /\ pc[h] # "idle"
    BY <1>15 DEF SavesCheckpoint, Holding
  <2> QED
    BY <1>4, <1>9, <1>15, <2>1, <2>2 DEF SavesCheckpoint, OffsetsInOrder
<1>16. ASSUME NEW b \in Anchors, Grows(b)
       PROVE  OffsetsInOrder(a)'
  <2>1. size'[a] \in Nat /\ size[a] <= size'[a]
    BY <1>5, <1>16 DEF Grows, TypeOK
  <2>2. UNCHANGED <<checkpoint, pc, horizon, end>>
    BY <1>16 DEF Grows
  <2>3. /\ checkpoint.offset \in Int
        /\ \A h \in Hooks : end[h] \in Int /\ horizon[h].size \in Int
    BY SizeNumbers
  <2> QED
    BY <1>4, <1>5, <2>1, <2>2, <2>3 DEF OffsetsInOrder
<1>17. ASSUME NEW job \in jobs, IsPruned(job)
       PROVE  OffsetsInOrder(a)'
  BY <1>8, <1>17 DEF IsPruned
<1>18. CASE UNCHANGED vars
  BY <1>8, <1>18 DEF vars
<1> QED
  BY <1>2, <1>10, <1>11, <1>12, <1>13, <1>14, <1>15, <1>16, <1>17, <1>18
     DEF Next, HandlerStep

(* The offsets are in order from the first event on.                       *)
LEMMA OrderInit ==
  ASSUME Init, NEW a, Sole(a)
  PROVE  OffsetsInOrder(a)
<1>1. a \in Anchors /\ a # NoAnchor
  BY WindowsAssumption DEF Sole
<1> QED
  BY <1>1 DEF Init, OffsetsInOrder, NoHorizon, NoSize, Holding

(* A transcript that was only appended to has only been appended to.       *)
LEMMA AppendedBefore ==
  ASSUME Typing, [Next]_vars, AppendedOnly'
  PROVE  AppendedOnly
<1> TypeOK
  BY DEF Typing
<1>1. \A b \in Anchors : edition[b] \in Nat /\ edition'[b] = 0
  BY WindowsAssumption DEF AppendedOnly, TypeOK
<1>2. ~\E b \in Anchors : IsRewritten(b)
  BY <1>1 DEF IsRewritten, TypeOK
<1>3. UNCHANGED edition
  BY <1>2 DEF Next, HandlerStep, Handle, Measures, ChecksPoint, OverlapNoop,
              BeginsHashing, Submits, SavesCheckpoint, Aborts, Grows,
              IsPruned, vars, fileVars
<1> QED
  BY <1>1, <1>3 DEF AppendedOnly

(* The start of a window is the offset, or the start of the transcript     *)
(* while there is none.                                                    *)
LEMMA StartIsOffset ==
  ASSUME Typing, NEW a, Sole(a), OffsetsInOrder(a), AppendedOnly,
         NEW h \in Hooks, pc[h] \in Holding
  PROVE  /\ end[h] \in Nat
         /\ checkpoint.offset # NoSize => Start(h) = checkpoint.offset
         /\ checkpoint.offset = NoSize => Start(h) = 0
<1>1. pc[h] # "idle"
  BY DEF Holding
<1>2. event[h].anchor = a
  BY <1>1 DEF Typing, Sole
<1>3. 0 <= end[h] /\ checkpoint.offset <= end[h]
  BY <1>1, SizeNumbers DEF OffsetsInOrder
<1> QED
  BY <1>2, <1>3, SizeNumbers DEF Start, OffsetsInOrder, NoSize

-----------------------------------------------------------------------------
(* No byte is extracted twice                                              *)

(* Every window ends at the checkpoint's offset or before it, but for the  *)
(* one whose handler has yet to move the checkpoint.                       *)
WindowsBelow ==
  AppendedOnly /\ aborts = 0 =>
    \A w \in windows :
      \/ w.end <= checkpoint.offset
      \/ \E h \in Hooks : pc[h] = "submitted" /\ w.end <= end[h]

DisjointInv(a) ==
  /\ Typing
  /\ Exclusion
  /\ OffsetsInOrder(a)
  /\ WindowsBelow
  /\ WindowsDisjoint

(* Windows have numbers for ends.                                          *)
LEMMA WindowNumbers ==
  ASSUME Typing, NEW w \in windows
  PROVE  w.start \in Int /\ w.end \in Int
<1>1. w \in JobFiles
  BY DEF Typing, TypeOK
<1>2. Sizes \subseteq Int
  BY WindowsAssumption DEF Sizes, NoSize
<1> QED
  BY <1>1, <1>2 DEF JobFiles

(* A new window begins where the others end.                               *)
LEMMA SubmitsDisjoint ==
  ASSUME NEW a, Sole(a), DisjointInv(a), NEW h \in Hooks, Submits(h),
         AppendedOnly, aborts = 0
  PROVE  WindowsBelow' /\ WindowsDisjoint'
<1> USE DEF DisjointInv
<1>1. pc[h] = "hashing" /\ pc[h] \in Holding
  BY DEF Submits, Holding
<1>2. \A g \in Hooks : pc[g] # "submitted"
  BY <1>1 DEF Exclusion, Holding
<1>3. /\ pc'[h] = "submitted"
      /\ UNCHANGED <<size, edition, aborts, checkpoint, end>>
  BY DEF Submits, Goto, Typing, TypeOK, fileVars
<1>4. end[h] \in Nat /\ checkpoint.offset \in Int
  BY <1>1, StartIsOffset, SizeNumbers
<1>5. \A w \in windows :
        /\ w.end \in Int /\ w.start \in Int
        /\ w.end <= checkpoint.offset
  BY <1>2, WindowNumbers DEF WindowsBelow
<1>6. checkpoint.offset <= end[h]
  BY <1>1 DEF OffsetsInOrder
<1>7. JobOf(h).end = end[h] /\ JobOf(h).start = Start(h)
  BY DEF JobOf
<1>8. \A w \in windows' : w \in windows \/ w = JobOf(h)
  BY DEF Submits
<1>9. WindowsBelow'
  BY <1>3, <1>4, <1>5, <1>6, <1>7, <1>8 DEF WindowsBelow
<1>10. \A w \in windows : Bytes(w) \cap Bytes(JobOf(h)) = {}
  <2> SUFFICES ASSUME NEW w \in windows, NEW i \in Bytes(w),
                      i \in Bytes(JobOf(h))
               PROVE  FALSE
    OBVIOUS
  <2>1. i \in Int /\ i <= w.end - 1 /\ Start(h) <= i /\ w.start <= i
    BY <1>4, <1>5, <1>7, WindowNumbers, StartIsOffset, <1>1 DEF Bytes, NoSize
  <2>2. CASE checkpoint.offset # NoSize
    <3>1. Start(h) = checkpoint.offset
      BY <1>1, <2>2, StartIsOffset
    <3> QED
      BY <1>4, <1>5, <2>1, <3>1
  <2>3. CASE checkpoint.offset = NoSize
    <3>1. Start(h) = 0 /\ w.end <= -1
      BY <1>1, <1>5, <2>3, StartIsOffset DEF NoSize
    <3> QED
      BY <1>5, <2>1, <3>1
  <2> QED
    BY <2>2, <2>3
<1>11. WindowsDisjoint'
  BY <1>3, <1>8, <1>10 DEF WindowsDisjoint, AppendedOnly, Bytes
<1> QED
  BY <1>9, <1>11

(* Every step keeps the windows apart.                                     *)
LEMMA DisjointStep ==
  ASSUME NEW a, Sole(a), DisjointInv(a), [Next]_vars
  PROVE  DisjointInv(a)'
<1> USE DEF fileVars, hostVars, handlerVars
<1> Typing /\ Exclusion /\ OffsetsInOrder(a)
  BY DEF DisjointInv
<1>1. Typing' /\ Exclusion' /\ OffsetsInOrder(a)'
  BY TypingStep, OrderStep
<1>2. SUFFICES ASSUME AppendedOnly', aborts' = 0
               PROVE  WindowsBelow' /\ WindowsDisjoint'
  BY <1>1 DEF DisjointInv, WindowsBelow, WindowsDisjoint
<1>3. AppendedOnly
  BY <1>2, AppendedBefore
<1>4. /\ aborts = 0
      /\ ~\E h \in Hooks : Aborts(h)
  <2>1. aborts \in Nat
    BY WindowsAssumption DEF Typing, TypeOK
  <2>2. ~\E h \in Hooks : Aborts(h)
    BY <1>2, <2>1 DEF Aborts
  <2> QED
    BY <1>2, <2>2
       DEF Next, HandlerStep, Handle, Measures, ChecksPoint, OverlapNoop,
           BeginsHashing, Submits, SavesCheckpoint, Grows, IsRewritten,
           IsPruned, vars
<1>5. \A w \in windows :
        \/ w.end <= checkpoint.offset
        \/ \E h \in Hooks : pc[h] = "submitted" /\ w.end <= end[h]
  BY <1>3, <1>4 DEF DisjointInv, WindowsBelow
<1>6. CASE \E h \in Hooks : Submits(h)
  BY <1>3, <1>4, <1>6, SubmitsDisjoint
<1>7. CASE UNCHANGED windows
  <2>1. WindowsDisjoint'
    BY <1>3, <1>4, <1>7 DEF DisjointInv, WindowsDisjoint, Bytes
  <2>2. ASSUME UNCHANGED checkpoint,
               \A h \in Hooks : pc[h] = "submitted"
                 => pc'[h] = "submitted" /\ end'[h] = end[h]
        PROVE  WindowsBelow'
    BY <1>5, <1>7, <2>2 DEF WindowsBelow
  <2>3. ASSUME NEW h \in Hooks, OverlapNoop(h) \/ ChecksPoint(h)
        PROVE  WindowsBelow'
    <3>1. checkpoint'.offset = checkpoint.offset
      BY <2>3 DEF OverlapNoop, ChecksPoint, Typing, TypeOK, Checkpoints
    <3>2. \A g \in Hooks : pc[g] # "submitted"
      BY <2>3 DEF OverlapNoop, ChecksPoint, Exclusion, Holding
    <3> QED
      BY <1>5, <1>7, <3>1, <3>2 DEF WindowsBelow
  <2>4. ASSUME NEW h \in Hooks, SavesCheckpoint(h)
        PROVE  WindowsBelow'
    <3>1. checkpoint'.offset = end[h]
      BY <2>4 DEF SavesCheckpoint
    <3>2. \A g \in Hooks : pc[g] = "submitted" => g = h
      BY <2>4 DEF SavesCheckpoint, Exclusion, Holding
    <3>3. checkpoint.offset <= end[h]
      BY <1>3, <2>4 DEF SavesCheckpoint, OffsetsInOrder, Holding
    <3>4. checkpoint.offset \in Int /\ end[h] \in Int
      BY SizeNumbers
    <3> QED
      BY <1>5, <1>7, <3>1, <3>2, <3>3, <3>4, WindowNumbers DEF WindowsBelow
  <2>5. ASSUME NEW h \in Hooks,
               (\E e \in Events : Handle(h, e)) \/ Measures(h) \/ BeginsHashing(h)
        PROVE  WindowsBelow'
    BY <2>2, <2>5 DEF Handle, Measures, BeginsHashing, Goto, Typing, TypeOK
  <2>6. CASE \/ \E b \in Anchors : Grows(b) \/ IsRewritten(b)
             \/ \E job \in jobs : IsPruned(job)
             \/ UNCHANGED vars
    <3>1. UNCHANGED <<checkpoint, pc, end>>
      BY <2>6 DEF Grows, IsRewritten, IsPruned, vars
    <3> QED
      BY <2>1, <2>2, <3>1
  <2> QED
    BY <1>4, <1>6, <2>1, <2>3, <2>4, <2>5, <2>6
       DEF Next, HandlerStep
<1> QED
  BY <1>6, <1>7
     DEF Next, HandlerStep, Handle, Measures, ChecksPoint, OverlapNoop,
         BeginsHashing, SavesCheckpoint, Aborts, Grows, IsRewritten,
         IsPruned, vars

(* All events of the session name one transcript.                          *)
OneTranscript == \E a \in Anchors : \A e \in Events : e.anchor = a

(* However often and in whichever order the events of a session are        *)
(* delivered, and whatever retention deletes in between, no byte of its    *)
(* transcript is extracted twice, unless it is written anew or a handler   *)
(* dies.                                                                   *)
THEOREM WindowsStayDisjoint == OneTranscript => (Spec => []WindowsDisjoint)
<1> SUFFICES ASSUME NEW a, Sole(a)
             PROVE  Spec => []WindowsDisjoint
  BY DEF OneTranscript, Sole
<1>1. Init => DisjointInv(a)
  BY TypingInit, OrderInit DEF Init, DisjointInv, WindowsBelow, WindowsDisjoint
<1>2. DisjointInv(a) /\ [Next]_vars => DisjointInv(a)'
  BY DisjointStep
<1>3. DisjointInv(a) => WindowsDisjoint
  BY DEF DisjointInv
<1> QED
  BY <1>1, <1>2, <1>3, PTL DEF Spec

-----------------------------------------------------------------------------
(* No byte is left out                                                     *)

(* Two boundaries of the session are told apart by their keys.             *)
OwnBoundaries ==
  \A e, f \in Events :
    e.kind # "PreCompact" /\ f.kind # "PreCompact" /\ e.boundary = f.boundary
      => e = f

(* The places of a handler that has not built its job.                     *)
Unbuilt == {"waiting", "measured", "hashing"}

(* Only boundaries give jobs, and job files are among the jobs ever built. *)
BoundariesBuild ==
  /\ jobs \subseteq windows
  /\ \A w \in windows : w.event.kind # "PreCompact"
  /\ \A h \in Hooks : pc[h] = "hashing" => event[h].kind # "PreCompact"

(* As long as no delivery repeats another, an event has one handler, and   *)
(* it has no job before that handler builds it.                            *)
HandledOnce ==
  repeats = 0 =>
    /\ \A h \in Hooks : pc[h] # "idle" => event[h] \in sent
    /\ \A h, g \in Hooks :
         pc[h] # "idle" /\ pc[g] # "idle" /\ event[h] = event[g] => h = g
    /\ \A w \in windows : w.event \in sent
    /\ \A h \in Hooks :
         pc[h] \in Unbuilt => \A w \in windows : w.event # event[h]

(* The job of a handler has its event.                                     *)
LEMMA JobEvent ==
  ASSUME NEW h
  PROVE  /\ JobOf(h).event = event[h]
         /\ JobOf(h).end = end[h]
         /\ JobOf(h).start = Start(h)
         /\ JobOf(h).horizon = horizon[h]
  BY DEF JobOf

(* Nothing is handled at first.                                            *)
LEMMA OnceInit == Init => BoundariesBuild /\ HandledOnce
  BY DEF Init, BoundariesBuild, HandledOnce, Unbuilt

(* Every step keeps jobs with their boundaries and handlers.               *)
LEMMA OnceStep ==
  ASSUME Typing, Exclusion, BoundariesBuild, HandledOnce, [Next]_vars
  PROVE  BoundariesBuild' /\ HandledOnce'
<1> TypeOK
  BY DEF Typing
<1> USE DEF fileVars, hostVars, handlerVars
<1>1. "idle" \notin Unbuilt /\ "submitted" \notin Unbuilt
  BY DEF Unbuilt
<1>2. ASSUME jobs' \subseteq jobs, UNCHANGED <<windows, pc, event, sent, repeats>>
      PROVE  BoundariesBuild' /\ HandledOnce'
  BY <1>2 DEF BoundariesBuild, HandledOnce
<1>3. ASSUME NEW h \in Hooks, Returns(h), UNCHANGED <<jobs, windows, hostVars>>
      PROVE  BoundariesBuild' /\ HandledOnce'
  <2>1. /\ pc'[h] = "idle"
        /\ \A g \in Hooks \ {h} : pc'[g] = pc[g] /\ event'[g] = event[g]
    BY <1>3, ReturnsElsewhere
  <2> QED
    BY <1>1, <1>3, <2>1 DEF BoundariesBuild, HandledOnce
<1>4. ASSUME NEW h \in Hooks, NEW place, Goto(h, place), pc[h] # "idle",
             UNCHANGED <<jobs, windows, event, hostVars>>,
             place \in Unbuilt => pc[h] \in Unbuilt,
             place = "hashing" => event[h].kind # "PreCompact"
      PROVE  BoundariesBuild' /\ HandledOnce'
  <2>1. pc'[h] = place /\ \A g \in Hooks \ {h} : pc'[g] = pc[g]
    BY <1>4 DEF Goto, TypeOK
  <2> QED
    BY <1>4, <2>1 DEF BoundariesBuild, HandledOnce
<1>5. ASSUME NEW h \in Hooks, NEW e \in Events, Handle(h, e)
      PROVE  BoundariesBuild' /\ HandledOnce'
  <2>1. /\ pc'[h] = "waiting" /\ event'[h] = e
        /\ \A g \in Hooks \ {h} : pc'[g] = pc[g] /\ event'[g] = event[g]
        /\ pc[h] = "idle"
        /\ UNCHANGED <<jobs, windows>>
        /\ sent' = sent \cup {e}
    BY <1>5 DEF Handle, Goto, TypeOK
  <2>2. repeats' = 0 => repeats = 0 /\ e \notin sent
    <3>1. repeats \in Nat
      BY WindowsAssumption DEF TypeOK
    <3> QED
      BY <1>5, <3>1 DEF Handle
  <2>3. BoundariesBuild'
    BY <2>1 DEF BoundariesBuild
  <2>4. HandledOnce'
    BY <2>1, <2>2 DEF HandledOnce, Unbuilt
  <2> QED
    BY <2>3, <2>4
<1>6. ASSUME NEW h \in Hooks, Submits(h)
      PROVE  BoundariesBuild' /\ HandledOnce'
  <2>1. /\ pc[h] = "hashing" /\ pc'[h] = "submitted"
        /\ \A g \in Hooks \ {h} : pc'[g] = pc[g]
        /\ UNCHANGED <<event, hostVars>>
    BY <1>6 DEF Submits, Goto, TypeOK
  <2>2. /\ \A job \in jobs' : job \in windows'
        /\ \A w \in windows' : w \in windows \/ w = JobOf(h)
    BY <1>6 DEF Submits, BoundariesBuild
  <2>3. BoundariesBuild'
    BY <2>1, <2>2, JobEvent DEF BoundariesBuild
  <2>4. HandledOnce'
    BY <2>1, <2>2, JobEvent DEF HandledOnce, Unbuilt
  <2> QED
    BY <2>3, <2>4
<1>7. ASSUME NEW h \in Hooks, Measures(h) \/ BeginsHashing(h)
      PROVE  BoundariesBuild' /\ HandledOnce'
  BY <1>4, <1>7 DEF Measures, BeginsHashing, Unbuilt
<1>8. ASSUME NEW h \in Hooks,
             ChecksPoint(h) \/ OverlapNoop(h) \/ SavesCheckpoint(h) \/ Aborts(h)
      PROVE  BoundariesBuild' /\ HandledOnce'
  BY <1>3, <1>8 DEF ChecksPoint, OverlapNoop, SavesCheckpoint, Aborts
<1>9. CASE \/ \E b \in Anchors : Grows(b) \/ IsRewritten(b)
           \/ \E job \in jobs : IsPruned(job)
           \/ UNCHANGED vars
  <2>1. jobs' \subseteq jobs /\ UNCHANGED <<windows, pc, event, sent, repeats>>
    BY <1>9 DEF Grows, IsRewritten, IsPruned, vars
  <2> QED
    BY <1>2, <2>1
<1> QED
  BY <1>5, <1>6, <1>7, <1>8, <1>9 DEF Next, HandlerStep

(* Every byte before the offset is in a window, and so is every byte of a  *)
(* handler that has submitted and of every event that was answered.        *)
CoveredSoFar(a) ==
  AppendedOnly /\ repeats = 0 =>
    /\ 0 .. (checkpoint.offset - 1) \subseteq Covered(a)
    /\ \A h \in Hooks :
         pc[h] = "submitted" => 0 .. (end[h] - 1) \subseteq Covered(a)
    /\ \A z \in answered :
         z.anchor = a /\ 0 .. (z.size - 1) \subseteq Covered(a)

CoverInv(a) ==
  /\ Typing
  /\ Exclusion
  /\ OffsetsInOrder(a)
  /\ BoundariesBuild
  /\ HandledOnce
  /\ CoveredSoFar(a)

(* What is covered stays so.                                               *)
LEMMA CoverGrows ==
  ASSUME NEW a, windows \subseteq windows'
  PROVE  Covered(a) \subseteq Covered(a)'
  BY DEF Covered, Bytes

(* A handler that submits closes the gap to the end it measured: its job   *)
(* cannot be there already.                                                *)
LEMMA SubmitsCovers ==
  ASSUME OwnBoundaries, NEW a, Sole(a), CoverInv(a), NEW h \in Hooks,
         Submits(h), AppendedOnly, repeats = 0
  PROVE  0 .. (end[h] - 1) \subseteq Covered(a)'
<1> USE DEF CoverInv
<1>1. pc[h] = "hashing" /\ pc[h] \in Holding /\ pc[h] \in Unbuilt /\ pc[h] # "idle"
  BY DEF Submits, Holding, Unbuilt
<1>2. event[h] \in Events /\ event[h].anchor = a /\ event[h].kind # "PreCompact"
  BY <1>1 DEF Typing, Sole, BoundariesBuild
<1>3. \A job \in jobs : job.event # event[h] /\ job.event.kind # "PreCompact"
                           /\ job.event \in Events
  BY <1>1 DEF HandledOnce, BoundariesBuild, Typing, TypeOK, JobFiles
<1>4. ~\E job \in jobs : SameKey(job, JobOf(h))
  BY <1>2, <1>3, JobEvent DEF SameKey, OwnBoundaries
<1>5. windows' = windows \cup {JobOf(h)}
  BY <1>4 DEF Submits
<1>6. end[h] \in Nat /\ checkpoint.offset \in Int
  BY <1>1, StartIsOffset, SizeNumbers
<1>7. Bytes(JobOf(h)) = Start(h) .. (end[h] - 1)
  BY <1>6, JobEvent DEF Bytes, NoSize
<1>8. Bytes(JobOf(h)) \subseteq Covered(a)'
  <2>1. JobOf(h) \in windows' /\ JobOf(h).event.anchor = a
    BY <1>2, <1>5, JobEvent
  <2> QED
    BY <2>1 DEF Covered, Bytes
<1>9. 0 .. (checkpoint.offset - 1) \subseteq Covered(a)'
  BY <1>5, CoverGrows DEF CoveredSoFar
<1>10. CASE checkpoint.offset # NoSize
  <2>1. Start(h) = checkpoint.offset
    BY <1>1, <1>10, StartIsOffset
  <2> QED
    BY <1>6, <1>7, <1>8, <1>9, <2>1
<1>11. CASE checkpoint.offset = NoSize
  <2>1. Start(h) = 0
    BY <1>1, <1>11, StartIsOffset
  <2> QED
    BY <1>7, <1>8, <2>1
<1> QED
  BY <1>10, <1>11

(* Every step keeps what is covered.                                       *)
LEMMA CoverStep ==
  ASSUME OwnBoundaries, NEW a, Sole(a), CoverInv(a), [Next]_vars
  PROVE  CoverInv(a)'
<1> Typing /\ Exclusion /\ OffsetsInOrder(a) /\ BoundariesBuild /\ HandledOnce
  BY DEF CoverInv
<1> USE DEF fileVars, hostVars, handlerVars
<1>1. /\ Typing' /\ Exclusion' /\ OffsetsInOrder(a)'
      /\ BoundariesBuild' /\ HandledOnce'
  BY TypingStep, OrderStep, OnceStep
<1>2. SUFFICES ASSUME AppendedOnly', repeats' = 0
               PROVE  CoveredSoFar(a)'
  BY <1>1 DEF CoverInv, CoveredSoFar
<1>3. AppendedOnly
  BY <1>2, AppendedBefore
<1>4. repeats = 0
  <2>1. repeats \in Nat
    BY WindowsAssumption DEF Typing, TypeOK
  <2>2. ASSUME NEW h \in Hooks, NEW e \in Events, Handle(h, e)
        PROVE  repeats = 0
    BY <1>2, <2>1, <2>2 DEF Handle
  <2> QED
    BY <1>2, <2>2
       DEF Next, HandlerStep, Measures, ChecksPoint, OverlapNoop,
           BeginsHashing, Submits, SavesCheckpoint, Aborts, Grows,
           IsRewritten, IsPruned, vars
<1>5. /\ 0 .. (checkpoint.offset - 1) \subseteq Covered(a)
      /\ \A h \in Hooks :
           pc[h] = "submitted" => 0 .. (end[h] - 1) \subseteq Covered(a)
      /\ \A z \in answered :
           z.anchor = a /\ 0 .. (z.size - 1) \subseteq Covered(a)
  BY <1>3, <1>4 DEF CoverInv, CoveredSoFar
<1>6. windows \subseteq windows'
  BY DEF Next, HandlerStep, Handle, Measures, ChecksPoint, OverlapNoop,
         BeginsHashing, Submits, SavesCheckpoint, Aborts, Grows, IsRewritten,
         IsPruned, vars
<1>7. Covered(a) \subseteq Covered(a)'
  BY <1>6, CoverGrows
<1>8. ASSUME checkpoint'.offset = checkpoint.offset, UNCHANGED answered,
             \A h \in Hooks :
               pc'[h] = "submitted" => pc[h] = "submitted" /\ end'[h] = end[h]
      PROVE  CoveredSoFar(a)'
  BY <1>5, <1>7, <1>8 DEF CoveredSoFar
<1>9. ASSUME NEW h \in Hooks, Submits(h)
      PROVE  CoveredSoFar(a)'
  <2>1. /\ UNCHANGED <<checkpoint, answered, end>>
        /\ \A g \in Hooks \ {h} : pc'[g] = pc[g]
    BY <1>9 DEF Submits, Goto, Typing, TypeOK
  <2>2. 0 .. (end[h] - 1) \subseteq Covered(a)'
    BY <1>3, <1>4, <1>9, SubmitsCovers
  <2> QED
    BY <1>5, <1>7, <2>1, <2>2 DEF CoveredSoFar
<1>10. ASSUME NEW h \in Hooks, SavesCheckpoint(h)
       PROVE  CoveredSoFar(a)'
  <2>1. /\ checkpoint'.offset = end[h]
        /\ answered' = answered \cup {horizon[h]}
        /\ pc[h] = "submitted" /\ pc[h] \in Holding /\ pc[h] # "idle"
    BY <1>10 DEF SavesCheckpoint, Holding
  <2>2. /\ pc'[h] = "idle"
        /\ \A g \in Hooks \ {h} : pc'[g] = pc[g] /\ end'[g] = end[g]
    BY <1>10, ReturnsElsewhere DEF SavesCheckpoint
  <2>3. /\ horizon[h].anchor = a
        /\ horizon[h].size <= end[h]
        /\ horizon[h].size \in Int /\ end[h] \in Int
    BY <1>3, <2>1, SizeNumbers DEF OffsetsInOrder
  <2>4. 0 .. (horizon[h].size - 1) \subseteq 0 .. (end[h] - 1)
    BY <2>3
  <2> QED
    BY <1>5, <1>7, <2>1, <2>2, <2>3, <2>4 DEF CoveredSoFar
<1>11. ASSUME NEW h \in Hooks, OverlapNoop(h)
       PROVE  CoveredSoFar(a)'
  <2>1. /\ checkpoint' = checkpoint
        /\ answered' = answered \cup {horizon[h]}
        /\ checkpoint.through = horizon[h]
        /\ pc[h] # "idle"
    BY <1>11 DEF OverlapNoop, Overlaps
  <2>2. /\ pc'[h] = "idle"
        /\ \A g \in Hooks \ {h} : pc'[g] = pc[g] /\ end'[g] = end[g]
    BY <1>11, ReturnsElsewhere DEF OverlapNoop
  <2>3. /\ horizon[h].anchor = a
        /\ horizon[h].size <= checkpoint.offset
        /\ horizon[h].size \in Int /\ checkpoint.offset \in Int
    BY <1>3, <2>1, SizeNumbers DEF OffsetsInOrder
  <2>4. 0 .. (horizon[h].size - 1) \subseteq 0 .. (checkpoint.offset - 1)
    BY <2>3
  <2> QED
    BY <1>5, <1>7, <2>1, <2>2, <2>3, <2>4 DEF CoveredSoFar
<1>12. ASSUME NEW h \in Hooks, ChecksPoint(h) \/ Aborts(h)
       PROVE  CoveredSoFar(a)'
  <2>1. checkpoint'.offset = checkpoint.offset /\ UNCHANGED answered
    BY <1>12 DEF ChecksPoint, Aborts, Typing, TypeOK, Checkpoints
  <2>2. /\ pc'[h] = "idle"
        /\ \A g \in Hooks \ {h} : pc'[g] = pc[g] /\ end'[g] = end[g]
    BY <1>12, ReturnsElsewhere DEF ChecksPoint, Aborts
  <2> QED
    BY <1>8, <2>1, <2>2
<1>13. ASSUME NEW h \in Hooks,
              (\E e \in Events : Handle(h, e)) \/ Measures(h) \/ BeginsHashing(h)
       PROVE  CoveredSoFar(a)'
  <2>1. UNCHANGED <<checkpoint, answered>>
    BY <1>13 DEF Handle, Measures, BeginsHashing
  <2>2. \A g \in Hooks :
          pc'[g] = "submitted" => pc[g] = "submitted" /\ end'[g] = end[g]
    BY <1>13 DEF Handle, Measures, BeginsHashing, Goto, Typing, TypeOK
  <2> QED
    BY <1>8, <2>1, <2>2
<1>14. CASE \/ \E b \in Anchors : Grows(b) \/ IsRewritten(b)
            \/ \E job \in jobs : IsPruned(job)
            \/ UNCHANGED vars
  <2>1. UNCHANGED <<checkpoint, answered, pc, end>>
    BY <1>14 DEF Grows, IsRewritten, IsPruned, vars
  <2> QED
    BY <1>8, <2>1
<1> QED
  BY <1>9, <1>10, <1>11, <1>12, <1>13, <1>14 DEF Next, HandlerStep

(* When the events of a session name one transcript and their keys tell    *)
(* them apart, handlers that overtake each other or die at any point leave *)
(* no byte out: whatever was there when an answered event occurred has     *)
(* been in the window of a job, as long as the transcript is only appended *)
(* to and no event is delivered twice.                                     *)
THEOREM HorizonsAreCovered ==
  OneTranscript /\ OwnBoundaries => (Spec => []HorizonCovered)
<1> SUFFICES ASSUME OwnBoundaries, NEW a, Sole(a)
             PROVE  Spec => []HorizonCovered
  BY DEF OneTranscript, Sole
<1>1. Init => CoverInv(a)
  <2> SUFFICES ASSUME Init
               PROVE  CoverInv(a)
    OBVIOUS
  <2>1. CoveredSoFar(a)
    BY DEF Init, CoveredSoFar, NoSize
  <2> QED
    BY <2>1, TypingInit, OrderInit, OnceInit DEF CoverInv
<1>2. CoverInv(a) /\ [Next]_vars => CoverInv(a)'
  BY CoverStep
<1>3. CoverInv(a) => HorizonCovered
  BY DEF CoverInv, CoveredSoFar, HorizonCovered
<1> QED
  BY <1>1, <1>2, <1>3, PTL DEF Spec

=============================================================================
