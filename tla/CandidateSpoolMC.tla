-------------------------- MODULE CandidateSpoolMC --------------------------
(***************************************************************************)
(* Instances of CandidateSpool for TLC.                                    *)
(***************************************************************************)
EXTENDS CandidateSpool, TLC

CONSTANTS j1, j2, sA, sB

OneJob == j1 :> sA

OneEach == (j1 :> sA) @@ (j2 :> sB)

Symmetry == Permutations(Hooks) \cup Permutations(Consumers)

=============================================================================
