-------------------------- MODULE LifecycleWindows --------------------------
(***************************************************************************)
(* Which bytes of a session's transcripts its boundary events schedule for *)
(* extraction. Every event is a process of its own: it derives the horizon *)
(* from the transcript, waits for the session's lock, measures the         *)
(* transcript again, builds a job for the bytes since the checkpoint's     *)
(* offset, submits it and moves the checkpoint. Meanwhile the host goes on *)
(* writing the transcript.                                                 *)
(*                                                                         *)
(* One provider and one session; the spool behind submit is the job files  *)
(* alone, its receipts and budgets are CandidateSpool's.                   *)
(***************************************************************************)
EXTENDS Integers, FiniteSets

CONSTANTS
  Anchors,      \* the transcripts of the session
  NoAnchor,     \* a payload without transcript_path
  Events,       \* the events' payloads: kind, boundary (goal) and anchor
  Hooks,        \* the processes that handle them
  MaxSize,      \* bound: a transcript's bytes
  MaxRewrites,  \* bound: how often a transcript is written anew
  MaxAborts,    \* bound: how many handlers die or give up
  MaxPruned,    \* bound: how many jobs retention has deleted
  MaxRepeats    \* bound: how many deliveries repeat an earlier one

Kinds == {"PreCompact", "GoalComplete", "SessionEnd"}

ASSUME WindowsAssumption ==
  /\ NoAnchor \notin Anchors
  /\ "nobody" \notin Hooks
  /\ \A e \in Events :
       e.kind \in Kinds /\ e.anchor \in Anchors \cup {NoAnchor}
  /\ MaxSize \in Nat
  /\ MaxRewrites \in Nat
  /\ MaxAborts \in Nat
  /\ MaxPruned \in Nat
  /\ MaxRepeats \in Nat

VARIABLES
  size,        \* the bytes of each transcript
  edition,     \* how often it was written anew; with size, its st_mtime_ns
  checkpoint,  \* the session's checkpoint file
  jobs,        \* the job files
  lock,        \* the handler that holds the session's lock
  pc,          \* where each handler is
  event,       \* the event it handles
  horizon,     \* the horizon it derived before it waited for the lock
  end,         \* source_window_end, measured under the lock
  before,      \* the transcript when it began to hash the window
  sent,        \* the events delivered so far
  repeats,     \* the deliveries that repeated one
  aborts,      \* handlers that died or gave up
  windows,     \* history: the jobs ever built into a file
  answered     \* history: the horizons of the events that were handled

fileVars == <<size, edition>>
handlerVars == <<pc, event, horizon, end, before>>
hostVars == <<sent, repeats>>
vars == <<fileVars, checkpoint, jobs, lock, handlerVars, hostVars, aborts,
          windows, answered>>

-----------------------------------------------------------------------------
(* State                                                                   *)

Nobody == "nobody"

NoEvent == [kind |-> "none"]

(* The None of an offset or a size.                                        *)
NoSize == -1

Sizes == NoSize .. MaxSize

NoEdition == -1

(* derive_horizon_hash without a hash in the payload: the path and what    *)
(* stat says of it.                                                        *)
Horizons ==
  [anchor: Anchors \cup {NoAnchor}, edition: NoEdition .. MaxRewrites,
   size: Sizes]

(* No event was scheduled: unlike the horizon of one without a transcript. *)
NoHorizon == [anchor |-> NoAnchor, edition |-> NoEdition, size |-> NoSize]

(* Mutant: the end of a transcript is the byte after it.                   *)
SizeAndOne(a) == IF a \in Anchors THEN size[a] + 1 ELSE NoSize

Size(a) == IF a \in Anchors THEN size[a] ELSE NoSize

Seen(a) ==
  [anchor |-> a, edition |-> IF a \in Anchors THEN edition[a] ELSE 0,
   size |-> Size(a)]

(* The fields of a job that say what to extract. hashed is whether         *)
(* source_window_content_hash could be taken.                              *)
JobFiles ==
  [event: Events, horizon: Horizons, start: Sizes, end: Sizes,
   hashed: BOOLEAN]

Checkpoints ==
  [through: Horizons, anchor: Anchors \cup {NoAnchor}, offset: Sizes]

PCs == {"idle", "waiting", "measured", "hashing", "submitted"}

TypeOK ==
  /\ size \in [Anchors -> 0 .. MaxSize]
  /\ edition \in [Anchors -> 0 .. MaxRewrites]
  /\ checkpoint \in Checkpoints
  /\ jobs \subseteq JobFiles
  /\ lock \in Hooks \cup {Nobody}
  /\ pc \in [Hooks -> PCs]
  /\ event \in [Hooks -> Events \cup {NoEvent}]
  /\ horizon \in [Hooks -> Horizons]
  /\ end \in [Hooks -> Sizes]
  /\ before \in [Hooks -> Horizons]
  /\ sent \subseteq Events
  /\ repeats \in 0 .. MaxRepeats
  /\ aborts \in 0 .. MaxAborts
  /\ windows \subseteq JobFiles
  /\ answered \subseteq Horizons

Init ==
  /\ size = [a \in Anchors |-> 0]
  /\ edition = [a \in Anchors |-> 0]
  /\ checkpoint =
       [through |-> NoHorizon, anchor |-> NoAnchor, offset |-> NoSize]
  /\ jobs = {}
  /\ lock = Nobody
  /\ pc = [h \in Hooks |-> "idle"]
  /\ event = [h \in Hooks |-> NoEvent]
  /\ horizon = [h \in Hooks |-> NoHorizon]
  /\ end = [h \in Hooks |-> NoSize]
  /\ before = [h \in Hooks |-> NoHorizon]
  /\ sent = {}
  /\ repeats = 0
  /\ aborts = 0
  /\ windows = {}
  /\ answered = {}

-----------------------------------------------------------------------------
(* Handling an event                                                       *)

Goto(h, place) == pc' = [pc EXCEPT ![h] = place]

(* handle returns: the lock is free and the process gone.                  *)
Returns(h) ==
  /\ lock' = IF lock = h THEN Nobody ELSE lock
  /\ Goto(h, "idle")
  /\ event' = [event EXCEPT ![h] = NoEvent]
  /\ horizon' = [horizon EXCEPT ![h] = NoHorizon]
  /\ end' = [end EXCEPT ![h] = NoSize]
  /\ before' = [before EXCEPT ![h] = NoHorizon]

(* The horizon is taken before the lock is awaited.                        *)
Handle(h, e) ==
  /\ pc[h] = "idle"
  /\ \/ e \notin sent /\ UNCHANGED repeats
     \/ e \in sent /\ repeats < MaxRepeats /\ repeats' = repeats + 1
  /\ sent' = sent \cup {e}
  /\ event' = [event EXCEPT ![h] = e]
  /\ horizon' = [horizon EXCEPT ![h] = Seen(e.anchor)]
  /\ Goto(h, "waiting")
  /\ UNCHANGED <<fileVars, checkpoint, jobs, lock, end, before, aborts,
                 windows, answered>>

(* Under the lock the checkpoint is loaded and the window's end measured.  *)
Measures(h) ==
  /\ pc[h] = "waiting"
  /\ lock = Nobody
  /\ lock' = h
  /\ end' = [end EXCEPT ![h] = Size(event[h].anchor)]
  /\ Goto(h, "measured")
  /\ UNCHANGED <<fileVars, checkpoint, jobs, event, horizon, before, hostVars,
                 aborts, windows, answered>>

(* PreCompact keeps the offset and changes the transcript it belongs to.   *)
ChecksPoint(h) ==
  /\ pc[h] = "measured"
  /\ event[h].kind = "PreCompact"
  /\ checkpoint' = [checkpoint EXCEPT !.anchor = event[h].anchor]
  /\ Returns(h)
  /\ UNCHANGED <<fileVars, jobs, hostVars, aborts, windows, answered>>

(* The checkpoint's scheduled_through_horizon_hash is the event's.         *)
Overlaps(h) ==
  event[h].kind # "PreCompact" /\ checkpoint.through = horizon[h]

OverlapNoop(h) ==
  /\ pc[h] = "measured"
  /\ Overlaps(h)
  /\ answered' = answered \cup {horizon[h]}
  /\ Returns(h)
  /\ UNCHANGED <<fileVars, checkpoint, jobs, hostVars, aborts, windows>>

(* Mutant: a transcript that became shorter is not noticed.                *)
StartAtOffset(h) ==
  IF /\ checkpoint.anchor = event[h].anchor
     /\ checkpoint.offset # NoSize
     /\ end[h] # NoSize
    THEN checkpoint.offset
    ELSE IF end[h] # NoSize THEN 0 ELSE NoSize

(* Mutant: the window begins where the transcript does.                    *)
StartAtZero(h) == IF end[h] # NoSize THEN 0 ELSE NoSize

(* source_window_start: the offset, if it is one of this transcript and    *)
(* not beyond its end.                                                     *)
Start(h) ==
  IF /\ checkpoint.anchor = event[h].anchor
     /\ checkpoint.offset # NoSize
     /\ end[h] # NoSize
     /\ checkpoint.offset <= end[h]
    THEN checkpoint.offset
    ELSE IF end[h] # NoSize THEN 0 ELSE NoSize

BeginsHashing(h) ==
  /\ pc[h] = "measured"
  /\ event[h].kind # "PreCompact"
  /\ ~Overlaps(h)
  /\ before' = [before EXCEPT ![h] = Seen(event[h].anchor)]
  /\ Goto(h, "hashing")
  /\ UNCHANGED <<fileVars, checkpoint, jobs, lock, event, horizon, end,
                 hostVars, aborts, windows, answered>>

(* A transcript that changes while its window is hashed gives no hash.     *)
JobOf(h) ==
  [event |-> event[h], horizon |-> horizon[h],
   start |-> Start(h), end |-> end[h],
   hashed |-> /\ end[h] # NoSize
              /\ before[h] = Seen(event[h].anchor)
              /\ end[h] <= before[h].size]

(* compute_job_key: boundary and horizon, not the bytes.                   *)
SameKey(job, other) ==
  /\ job.horizon = other.horizon
  /\ job.event.boundary = other.event.boundary

(* A job file of that key stays as it is: it is immutable.                 *)
Submits(h) ==
  /\ pc[h] = "hashing"
  /\ IF \E job \in jobs : SameKey(job, JobOf(h))
       THEN UNCHANGED <<jobs, windows>>
       ELSE /\ jobs' = jobs \cup {JobOf(h)}
            /\ windows' = windows \cup {JobOf(h)}
  /\ Goto(h, "submitted")
  /\ UNCHANGED <<fileVars, checkpoint, lock, event, horizon, end, before,
                 hostVars, aborts, answered>>

(* Mutant: the offset is that of the transcript now.                       *)
SavesCurrentSize(h) ==
  /\ pc[h] = "submitted"
  /\ checkpoint' = [through |-> horizon[h], anchor |-> event[h].anchor,
                    offset |-> Size(event[h].anchor)]
  /\ answered' = answered \cup {horizon[h]}
  /\ Returns(h)
  /\ UNCHANGED <<fileVars, jobs, hostVars, aborts, windows>>

SavesCheckpoint(h) ==
  /\ pc[h] = "submitted"
  /\ checkpoint' = [through |-> horizon[h], anchor |-> event[h].anchor,
                    offset |-> end[h]]
  /\ answered' = answered \cup {horizon[h]}
  /\ Returns(h)
  /\ UNCHANGED <<fileVars, jobs, hostVars, aborts, windows>>

(* The process is killed, waits too long for a lock of the spool, or       *)
(* submit calls the spool corrupt: the checkpoint is not moved.            *)
Aborts(h) ==
  /\ aborts < MaxAborts
  /\ pc[h] # "idle"
  /\ aborts' = aborts + 1
  /\ Returns(h)
  /\ UNCHANGED <<fileVars, checkpoint, jobs, hostVars, windows, answered>>

-----------------------------------------------------------------------------
(* The host and the spool                                                  *)

Grows(a) ==
  /\ size[a] < MaxSize
  /\ size' = [size EXCEPT ![a] = @ + 1]
  /\ UNCHANGED <<edition, checkpoint, jobs, lock, handlerVars, hostVars,
                 aborts, windows, answered>>

IsRewritten(a) ==
  /\ edition[a] < MaxRewrites
  /\ edition' = [edition EXCEPT ![a] = @ + 1]
  /\ \E bytes \in 0 .. MaxSize : size' = [size EXCEPT ![a] = bytes]
  /\ UNCHANGED <<checkpoint, jobs, lock, handlerVars, hostVars, aborts,
                 windows, answered>>

(* Retention deletes a job that is done with.                              *)
IsPruned(job) ==
  /\ Cardinality(windows \ jobs) < MaxPruned
  /\ jobs' = jobs \ {job}
  /\ UNCHANGED <<fileVars, checkpoint, lock, handlerVars, hostVars, aborts,
                 windows, answered>>

HandlerStep(h) ==
  \/ \E e \in Events : Handle(h, e)
  \/ Measures(h)
  \/ ChecksPoint(h)
  \/ OverlapNoop(h)
  \/ BeginsHashing(h)
  \/ Submits(h)
  \/ SavesCheckpoint(h)
  \/ Aborts(h)

Next ==
  \/ \E h \in Hooks : HandlerStep(h)
  \/ \E a \in Anchors : Grows(a) \/ IsRewritten(a)
  \/ \E job \in jobs : IsPruned(job)

Spec == Init /\ [][Next]_vars

-----------------------------------------------------------------------------
(* Properties                                                              *)

Bytes(w) == IF w.end = NoSize THEN {} ELSE w.start .. (w.end - 1)

Covered(a) == UNION {Bytes(w) : w \in {v \in windows : v.event.anchor = a}}

(* The transcripts were only appended to.                                  *)
AppendedOnly == \A a \in Anchors : edition[a] = 0

(* When a boundary event has been answered, every byte its transcript had  *)
(* when it occurred is in the window of some job: handlers that overtake   *)
(* each other, die between submit and checkpoint or find the job there     *)
(* leave no gap. It holds for transcripts that are only appended to and    *)
(* events that are delivered once; SavesCheckpoint moves the offset past   *)
(* the job's window when a repeated delivery finds the job there. It is    *)
(* about a session with one transcript, for a PreCompact at another one    *)
(* takes the old offset along, and about boundaries with keys of their own.*)
HorizonCovered ==
  AppendedOnly /\ repeats = 0 =>
    \A z \in answered : 0 .. (z.size - 1) \subseteq Covered(z.anchor)

(* Two jobs never extract the same byte of a transcript that is only       *)
(* appended to, however often and in which order its events are delivered  *)
(* and whichever jobs retention deletes, as long as no handler dies        *)
(* between submit and checkpoint.                                          *)
WindowsDisjoint ==
  AppendedOnly /\ aborts = 0 =>
    \A v, w \in windows : v # w => Bytes(v) \cap Bytes(w) = {}

(* A transcript that becomes shorter between two events or while one waits *)
(* never makes build refuse the window: it ends where it begins or later.  *)
WindowsWellFormed == \A w \in windows : w.start <= w.end

=============================================================================
