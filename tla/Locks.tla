------------------------------- MODULE Locks -------------------------------
(***************************************************************************)
(* The project locks of workflowhooker/locks.py: what a LOCK*.txt file     *)
(* says, when time releases it, and the snapshot inspect_locks returns.    *)
(*                                                                         *)
(* The five identity fields of a lock (owner, scope, host, session,        *)
(* target) are compared with the configured identity as a whole, so a lock *)
(* carries the outcome of that comparison: every field given on both sides *)
(* and equal ("own"), given and different ("foreign"), or some field       *)
(* missing on one side ("incomplete").                                     *)
(***************************************************************************)
EXTENDS Integers

Kinds == {"user", "team", "condition", "until", "root", "ticket", "scoped",
          "ambiguous"}

(* Locks no EXPIRES field can release and no identity can own.             *)
ProtectedKinds == {"user", "condition", "until", "ambiguous"}

Identities == {"own", "foreign", "incomplete"}

(* A date that was not given, or that does not parse: it never passes.     *)
NoDate == -1

Passed(date, now) == date # NoDate /\ date <= now

LockFiles(Dates, Operations) ==
  [kind: Kinds, identity: Identities, mode: {"soft", "hard"},
   operations: SUBSET Operations, expires: Dates, notBefore: Dates,
   condition: BOOLEAN, releaseMode: {"all", "any"}, readable: BOOLEAN]

LockRecords(Operations) ==
  [kind: Kinds, identity: Identities, mode: {"soft", "hard"},
   operations: SUBSET Operations]

Snapshots(Operations) ==
  [evidence: {"clean", "finding", "unknown"},
   records: SUBSET LockRecords(Operations)]

(* A dated lock is over when its date has passed. An until lock that also  *)
(* names a release condition needs RELEASE_MODE any for the date alone to  *)
(* end it; the other protected kinds never end by date.                    *)
Released(file, now) ==
  \/ /\ file.kind = "until"
     /\ Passed(file.notBefore, now)
     /\ ~file.condition \/ file.releaseMode = "any"
  \/ /\ file.kind \notin ProtectedKinds
     /\ Passed(file.expires, now)

(* Mutant: the dates of a lock stay in its record.                         *)
RecordWithDates(file) == file

RecordOf(file) ==
  [kind |-> file.kind, identity |-> file.identity, mode |-> file.mode,
   operations |-> file.operations]

(* One unreadable file makes the whole answer unknown, with no records.    *)
InspectLocks(files, now) ==
  LET live == {RecordOf(f) : f \in {g \in files : ~Released(g, now)}}
  IN  IF \E f \in files : ~f.readable
        THEN [evidence |-> "unknown", records |-> {}]
        ELSE [evidence |-> IF live = {} THEN "clean" ELSE "finding",
              records |-> live]

IsProtected(record) == record.kind \in ProtectedKinds

SameIdentity(record) == record.identity = "own"

=============================================================================
