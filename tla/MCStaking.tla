------------------------------ MODULE MCStaking ------------------------------
(* Small instances of Staking for TLC. *)
EXTENDS Staking

CONSTANTS v1, v2

(* The second founder withdraws from the shared queue early and is then quiet. *)
MCLastCall == (v1 :> 5) @@ (v2 :> 1)
=============================================================================
