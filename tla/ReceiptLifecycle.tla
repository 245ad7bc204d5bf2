-------------------------- MODULE ReceiptLifecycle --------------------------
(***************************************************************************)
(* What a job's receipt promises to whoever reads it, without files, locks *)
(* or processes: a deferred job is extracted only after a lease, a         *)
(* candidate is decided once, nothing is promoted that was no candidate,   *)
(* and a decided job changes no more. The only thing that can happen to it *)
(* is to be forgotten, and then it may be submitted again.                 *)
(***************************************************************************)
CONSTANT Jobs

VARIABLE status  \* of each job; "absent" when there is no receipt of it

Decided == {"noop", "promoted", "failed"}

Open == {"pending", "leased"}

Init == status = [j \in Jobs |-> "absent"]

Becomes(j, from, to) ==
  /\ status[j] \in from
  /\ \E s \in to : status' = [status EXCEPT ![j] = s]

Submit(j) == Becomes(j, {"absent"}, {"pending", "deferred"})

Lease(j) == Becomes(j, {"pending", "deferred", "leased"}, {"leased"})

GiveBack(j) == Becomes(j, {"leased"}, {"pending"})

Extract(j) == Becomes(j, Open, {"candidate", "noop"})

Refuse(j) == Becomes(j, Open \cup {"deferred"}, {"failed"})

Review(j) == Becomes(j, {"candidate"}, Decided)

Forget(j) == Becomes(j, Decided, {"absent"})

Next ==
  \E j \in Jobs :
    \/ Submit(j)
    \/ Lease(j)
    \/ GiveBack(j)
    \/ Extract(j)
    \/ Refuse(j)
    \/ Review(j)
    \/ Forget(j)

Spec == Init /\ [][Next]_status

=============================================================================
