-------------------------------- MODULE Vote --------------------------------
(***************************************************************************)
(* Proposals, votes and proposal bonds (crates/system/vote).                  *)
(*                                                                         *)
(* A proposal is decided in the first block after its deadline, by the votes  *)
(* of the validators that are active in that block, whoever was active when   *)
(* the votes were cast. What an approved proposal does belongs to its target; *)
(* the target answers "Applied" or "Error", or fails the block.               *)
(*                                                                         *)
(* The actions of this module are composed with the targets and with the      *)
(* order of a block in ProtocolUpdates.                                       *)
(***************************************************************************)
EXTENDS Integers, Sequences, FiniteSets, SequencesExt, FiniteSetsExt

CONSTANTS
  Validators,       \* addresses that may be active validators
  Accounts,         \* addresses that may propose
  Payloads,         \* what may be proposed; payload.target names the target
  Bond,             \* STABLECOIN_CREATE_BOND
  Surplus,          \* coins forced onto the contract's address by others
  VotingWindow,     \* get_governance_voting_window_blocks
  MaxPending,       \* MAX_PENDING_PROPOSALS
  MaxPublic,        \* MAX_PENDING_PUBLIC_BONDED_PROPOSALS
  MaxPerValidator   \* MAX_PENDING_PROPOSALS_PER_VALIDATOR

ASSUME VoteAssumption ==
  /\ Validators \subseteq Accounts
  /\ IsFiniteSet(Validators)
  /\ Bond \in Nat \ {0}
  /\ Surplus \in Nat
  /\ VotingWindow \in Nat
  /\ MaxPending \in Nat /\ MaxPublic \in Nat /\ MaxPerValidator \in Nat

VARIABLES
  height,       \* the block being executed
  active,       \* the validators with status ACTIVE (owned by ValidatorSet)
  proposals,    \* proposals, by id
  votes,        \* proposal_voters, by id: the recorded votes in order
  pending,      \* pending_proposal_ids
  liabilities,  \* unsettled_bond_liabilities
  escrow        \* the native balance of VOTE_ADDRESS

voteVars == <<proposals, votes, pending, liabilities, escrow>>

Statuses == {"Pending", "Approved", "Expired", "Error"}
Settlements == {"NoBond", "Unsettled", "Refunded", "Burned"}
Ids == 1..Len(proposals)

ProposalRecord ==
  [proposer : Accounts, payload : Payloads, deadline : Nat,
   status : Statuses, bond : {0, Bond}, settlement : Settlements]

VoteTypeOK ==
  /\ height \in Nat
  /\ active \subseteq Validators
  /\ proposals \in Seq(ProposalRecord)
  /\ votes \in Seq(Seq([voter : Validators, approve : BOOLEAN]))
  /\ Len(votes) = Len(proposals)
  /\ pending \in Seq(Nat)
  /\ liabilities \in Nat
  /\ escrow \in Nat

VoteInit ==
  /\ height = 1
  /\ active = Validators
  /\ proposals = <<>>
  /\ votes = <<>>
  /\ pending = <<>>
  /\ liabilities = 0
  /\ escrow = Surplus

-----------------------------------------------------------------------------
(* TargetAdmission: stablecoin creation is open to everybody against a bond.   *)
PublicBonded(payload) == payload.target = "coin"

PendingPublic(p) == {i \in ToSet(pending) : /\ PublicBonded(proposals[i].payload)
                                            /\ proposals[i].proposer = p}

PendingBy(p) == {i \in ToSet(pending) : proposals[i].proposer = p}

(* The admission checks of create_proposal_with_value. A proposal that ended   *)
(* in Error stays in the pending index and keeps counting.                     *)
Admitted(p, payload) ==
  /\ Len(pending) < MaxPending
  /\ IF PublicBonded(payload)
     THEN /\ Cardinality(UNION {PendingPublic(q) : q \in Accounts}) < MaxPublic
          /\ PendingPublic(p) = {}
     ELSE /\ p \in active
          /\ Cardinality(PendingBy(p)) < MaxPerValidator

(* The checkpoint of create_proposal_with_value but for the target's           *)
(* reservation: write_proposal and record_proposal_bond. The bond arrives with *)
(* the call.                                                                   *)
CreateProposal(p, payload) ==
  LET bonded == PublicBonded(payload) IN
  /\ Admitted(p, payload)
  /\ proposals' = Append(proposals,
       [proposer |-> p, payload |-> payload, deadline |-> height + VotingWindow,
        status |-> "Pending",
        bond |-> IF bonded THEN Bond ELSE 0,
        settlement |-> IF bonded THEN "Unsettled" ELSE "NoBond"])
  /\ votes' = Append(votes, <<>>)
  /\ pending' = Append(pending, Len(proposals) + 1)
  /\ liabilities' = liabilities + (IF bonded THEN Bond ELSE 0)
  /\ escrow' = escrow + (IF bonded THEN Bond ELSE 0)
  /\ liabilities' <= escrow'

(* has_voted: one vote per validator, whether or not it left in between. *)
HasVoted(v, i) == \E n \in DOMAIN votes[i] : votes[i][n].voter = v

(* cast_vote_approve *)
CastVote(v, i, approve) ==
  /\ v \in active
  /\ proposals[i].status = "Pending"
  /\ height <= proposals[i].deadline
  /\ ~HasVoted(v, i)
  /\ votes' = [votes EXCEPT ![i] = Append(@, [voter |-> v, approve |-> approve])]
  /\ UNCHANGED <<proposals, pending, liabilities, escrow>>

-----------------------------------------------------------------------------
(* Mutant: every recorded vote counts, whoever cast it. *)
YesOfAll(i) == Cardinality({n \in DOMAIN votes[i] : votes[i][n].approve})

(* calculate_vote_tally: the recorded votes of validators that are active now. *)
Yes(i) ==
  Cardinality({n \in DOMAIN votes[i] : votes[i][n].approve /\ votes[i][n].voter \in active})

(* quorum_reached *)
QuorumReached(yes, n) == n > 0 /\ yes * 3 >= n * 2

TallyStatus(i) ==
  IF QuorumReached(Yes(i), Cardinality(active)) THEN "Approved" ELSE "Expired"

(* Mutant: one block later than the deadline allows. *)
DueLate == SelectSeq(pending, LAMBDA i : /\ proposals[i].status = "Pending"
                                         /\ height > proposals[i].deadline + 1)

(* process_begin_block: what is finalized in this block, in index order. *)
Due == SelectSeq(pending, LAMBDA i : /\ proposals[i].status = "Pending"
                                     /\ height > proposals[i].deadline)

(* Mutant: the slot is shortened before the last id is moved. *)
PopRemove(seq, x) == Front(seq)

(* remove_pending_proposal_id: the last id takes the place of the removed one. *)
SwapRemove(seq, x) ==
  LET k == CHOOSE n \in DOMAIN seq : seq[n] = x IN
  [n \in 1..(Len(seq) - 1) |-> IF n = k THEN seq[Len(seq)] ELSE seq[n]]

(* Mutant: a burnt bond stays on the books. *)
SettleRefundOnly(i, status) ==
  LET owed == proposals[i].settlement = "Unsettled" IN
  /\ proposals' = [proposals EXCEPT
       ![i].status = status,
       ![i].settlement = IF ~owed THEN @
                         ELSE IF status = "Approved" THEN "Refunded" ELSE "Burned"]
  /\ liabilities' = liabilities - (IF owed /\ status = "Approved" THEN proposals[i].bond ELSE 0)
  /\ escrow' = escrow - (IF owed THEN proposals[i].bond ELSE 0)

(* settle_terminal_bond, together with set_proposal_status: Approved refunds,  *)
(* Expired burns; either way the escrow gives up the amount.                   *)
Settle(i, status) ==
  LET owed == proposals[i].settlement = "Unsettled" IN
  /\ proposals' = [proposals EXCEPT
       ![i].status = status,
       ![i].settlement = IF ~owed THEN @
                         ELSE IF status = "Approved" THEN "Refunded" ELSE "Burned"]
  /\ liabilities' = liabilities - (IF owed THEN proposals[i].bond ELSE 0)
  /\ escrow' = escrow - (IF owed THEN proposals[i].bond ELSE 0)

(* finalize_voting once the target has answered. Error keeps the id in the     *)
(* pending index and the bond unsettled; nothing retries it.                   *)
Finalize(i, outcome) ==
  \/ /\ outcome = "Applied"
     /\ Settle(i, TallyStatus(i))
     /\ pending' = SwapRemove(pending, i)
     /\ UNCHANGED votes
  \/ /\ outcome = "Error"
     /\ proposals' = [proposals EXCEPT ![i].status = "Error"]
     /\ UNCHANGED <<pending, votes, liabilities, escrow>>

-----------------------------------------------------------------------------
(* The pending index holds exactly the proposals that are not settled          *)
(* (state.rs, set_proposal_status): a swap-remove never loses or doubles one.  *)
(* The public fills no more than its share of it, so that validators can       *)
(* always propose (MAX_PENDING_PUBLIC_BONDED_PROPOSALS).                        *)
PendingIndexExact ==
  /\ IsInjective(pending)
  /\ Cardinality(UNION {PendingPublic(p) : p \in Accounts}) <= MaxPublic
  /\ ToSet(pending) = {i \in Ids : proposals[i].status \in {"Pending", "Error"}}

(* What the contract owes for bonds is what its open proposals paid, those that *)
(* ended in Error among them, and its balance covers it however proposals       *)
(* ended: settlements take the bonds, once each, and leave what others forced    *)
(* onto the address alone (state.rs, record_proposal_bond and                    *)
(* settle_proposal_bond_accounting).                                            *)
BondsBacked ==
  /\ liabilities = Bond * Cardinality({i \in Ids : proposals[i].settlement = "Unsettled"})
  /\ escrow = liabilities + Surplus
  /\ \A i \in Ids : proposals[i].settlement = "Unsettled"
                      => proposals[i].status \in {"Pending", "Error"}
=============================================================================
