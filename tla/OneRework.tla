----------------------------- MODULE OneRework -----------------------------
(***************************************************************************)
(* What the stop gate promises, without files, locks or processes: every   *)
(* gate identity is asked for one round of rework at most, the round is on *)
(* record before the host hears of it, and it reaches the host once or not *)
(* at all.                                                                 *)
(***************************************************************************)
EXTENDS Naturals

CONSTANT Keys

VARIABLES
  granted,   \* the rounds on record, per identity
  delivered  \* the rounds the host was told of, per identity

Init ==
  /\ granted = [k \in Keys |-> 0]
  /\ delivered = [k \in Keys |-> 0]

Grant(k) ==
  /\ granted[k] = 0
  /\ granted' = [granted EXCEPT ![k] = 1]
  /\ UNCHANGED delivered

Deliver(k) ==
  /\ delivered[k] < granted[k]
  /\ delivered' = [delivered EXCEPT ![k] = @ + 1]
  /\ UNCHANGED granted

Next == \E k \in Keys : Grant(k) \/ Deliver(k)

Spec == Init /\ [][Next]_<<granted, delivered>>

=============================================================================
