-------------------------- MODULE MCProtocolUpdates --------------------------
(* Instances of ProtocolUpdates. *)
EXTENDS ProtocolUpdates

CONSTANTS v1, v2, v3, user, c1, c2, t1, t2, l1, l2, rel0, relA, relB

(* Two successors of the genesis release, and one that follows neither yet. *)
MCParent == (rel0 :> rel0) @@ (relA :> rel0) @@ (relB :> relA)

UpdatePayload(v, at, tee, ocomp) ==
  [target |-> "update", version |-> v, at |-> at, tee |-> tee, ocomp |-> ocomp]

(* Two tickers for the public, and two chains of one owner. *)
VotePayloads ==
  {[target |-> "coin", ticker |-> t] : t \in Tickers} \cup
  {[target |-> "l2", op |-> "register", chain |-> c, owner |-> user, zk |-> FALSE] : c \in Chains} \cup
  {[target |-> "l2", op |-> "setZk", chain |-> c1, zk |-> TRUE]}

VoterSymmetry == Permutations(Validators) \cup Permutations(Tickers)

(* Updates that overtake each other and compete for the staged releases. *)
UpdatePayloads ==
  {UpdatePayload(2, 5, relA, relA), UpdatePayload(3, 4, None, None), UpdatePayload(3, 5, None, None),
   UpdatePayload(3, 6, relB, None), UpdatePayload(2, 3, None, relA)}

(* No release is needed after it is gone or wanted before it can come: what is     *)
(* staged can be promoted when its update activates, and a computation that has    *)
(* started finds its bundle active or retained until it ends (StagedPromotable,    *)
(* LineagesServed).                                                               *)
ReleasesServed == StagedPromotable /\ LineagesServed
=============================================================================
