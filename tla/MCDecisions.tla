---------------------------- MODULE MCDecisions ----------------------------
(***************************************************************************)
(* The instances of Vote with its targets and of Governance.  They share   *)
(* no variable; one run holds them side by side, and turn says which of    *)
(* them a behaviour is about.                                              *)
(***************************************************************************)
EXTENDS MCProtocolUpdates, Governance

CONSTANTS p1, p2, ta, tb

VARIABLE turn

decisionVars == <<turn, vars, govVars>>

DecisionsInit ==
  /\ turn \in {"votes", "texts"}
  /\ Init
  /\ GovInit /\ (turn = "votes" => authorities = {p1} /\ canon = ta)

DecisionsNext ==
  \/ turn = "votes" /\ Next /\ UNCHANGED <<turn, govVars>>
  \/ turn = "texts" /\ GovNext /\ UNCHANGED <<turn, vars>>

DecisionsSpec == DecisionsInit /\ [][DecisionsNext]_decisionVars

(* Every enumeration lists what it should, once: the pending index of the votes   *)
(* (swap_remove while the hook iterates over it), and the status sets and author   *)
(* lists of the governance texts (move_bucket).                                  *)
EnumerationsExact == PendingIndexExact /\ IndexesExact

(* What an open proposal holds is held for it and for nobody else, however others *)
(* ended: its bond is in the balance and among the liabilities, and the ticker it  *)
(* claims is reserved for it.  Networks, which nobody can reserve, and the index   *)
(* of their owners stay inverse to each other (settle_proposal_bond_accounting,    *)
(* consume_and_register, release, l2registry).                                    *)
OpenProposalsCovered == BondsBacked /\ ReservationsExact
=============================================================================
