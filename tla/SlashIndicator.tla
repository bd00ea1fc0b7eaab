--------------------------- MODULE SlashIndicator ---------------------------
(***************************************************************************)
(* Liveness penalties on top of ValidatorSet (crates/system/slashindicator):  *)
(* the per-epoch miss counters of proposers and voters, the felonies they     *)
(* raise, and felonies proved by evidence.                                    *)
(*                                                                         *)
(* A vote for block b may arrive until block b + K, so the absentees of b are *)
(* counted against the committee of b in a block in which the committee, the  *)
(* epoch and the lifecycle of its members may have moved on.                  *)
(*                                                                         *)
(* The stages of the "begin" phase are "pre" (the counters are reset in a     *)
(* block that carries a boundary), "parent" (missed proposers of the parent), *)
(* "late" (absentees of block height - K) and "done".                         *)
(***************************************************************************)
EXTENDS ValidatorSet

CONSTANTS
  Actors,               \* the addresses that act in an instance
  K,                    \* LATE_FINALIZE_WINDOW_K
  VoterThreshold,       \* voter_felony_threshold
  ProposerThreshold,    \* proposer_felony_threshold
  SlashPercent,         \* slash_amount_percent
  Evidence,             \* equivocation evidence, each with its offender
  MaxSkips              \* bound: skipped views before a block

(* Nothing in the code relates the threshold to the window; the defaults are   *)
(* 500 and 3.                                                                  *)
ASSUME SlashAssumption ==
  /\ Actors \subseteq Validators
  /\ K \in Nat \ {0}
  /\ VoterThreshold \in Nat /\ VoterThreshold > K
  /\ ProposerThreshold \in Nat \ {0}
  /\ SlashPercent \in 0..100
  /\ Evidence \subseteq [no : Nat, offender : Validators]
  /\ MaxSkips \in Nat

VARIABLES
  stage,        \* how far the begin phase has come
  carries,      \* the block carries a BoundaryOutcome
  voterMisses,      \* voter_miss_count
  proposerMisses,   \* proposer_miss_count
  signers,      \* the committees of the blocks whose window is open
  absent,       \* the absentees slashed so far by the closing window
  skips,        \* the missed proposers slashed so far for the parent
  processed     \* evidence_processed

slashVars == <<stage, carries, voterMisses, proposerMisses, signers, absent,
               skips, processed>>

Stages == {"pre", "parent", "late", "done"}

SlashTypeOK ==
  /\ TypeOK
  /\ stage \in Stages
  /\ carries \in BOOLEAN
  /\ voterMisses \in [Validators -> Nat]
  /\ proposerMisses \in [Validators -> Nat]
  /\ signers \in [1..MaxHeight -> SUBSET Validators]
  /\ absent \subseteq Validators
  /\ skips \in Nat
  /\ processed \subseteq Evidence

SlashInit ==
  /\ Init
  /\ stage = "done"
  /\ carries = FALSE
  /\ voterMisses = [v \in Validators |-> 0]
  /\ proposerMisses = [v \in Validators |-> 0]
  /\ signers = [b \in 1..MaxHeight |-> {}]
  /\ absent = {}
  /\ skips = 0
  /\ processed = {}

-----------------------------------------------------------------------------
(* reset_epoch_counters for get_all_validators *)
Reset(count) ==
  [v \in Validators |-> IF val[v].lc = "Absent" THEN count[v] ELSE 0]

(* prepare_boundary_epoch_counters, before the system transactions. *)
PreExecution(c) ==
  /\ stage = "pre"
  /\ c => BoundaryDue
  /\ carries' = c
  /\ voterMisses' = IF c THEN Reset(voterMisses) ELSE voterMisses
  /\ proposerMisses' = IF c THEN Reset(proposerMisses) ELSE proposerMisses
  /\ stage' = "parent"
  /\ UNCHANGED <<vars, signers, absent, skips, processed>>

-----------------------------------------------------------------------------
(* Felonies *)

(* Mutants: a validator on its way out is punished again; one slash exempts     *)
(* from every later one.                                                        *)
PenalizedIfJailed(r) == IsJailed(r)

PenalizedForever(r) == r.lc \in {"JailRetained", "Jail", "Exiting"} \/ r.slashes > 0

(* validator_already_penalized *)
AlreadyPenalized(r) == r.lc \in {"JailRetained", "Jail", "Exiting"}

Remaining(amount) == amount - (amount * SlashPercent) \div 100

(* jail_validator, then slash_stake *)
JailAndSlash(v) == \E b \in Stakes : b = Remaining(val[v].bonded) /\ Felony(v, b)

(* The next miss of v is a felony. *)
Strikes(v, count, threshold) ==
  /\ ~AlreadyPenalized(val[v])
  /\ (count[v] + 1) % threshold = 0

(* slash_proposer, for one entry of missed_proposers of the parent. *)
SlashProposer(v) ==
  /\ stage = "parent"
  /\ v \in signers[height - 1]
  /\ skips < MaxSkips
  /\ skips' = skips + 1
  /\ proposerMisses' = [proposerMisses EXCEPT ![v] = @ + 1]
  /\ IF Strikes(v, proposerMisses, ProposerThreshold)
     THEN JailAndSlash(v) ELSE UNCHANGED vars
  /\ UNCHANGED <<stage, carries, voterMisses, signers, absent, processed>>

ParentAccounted ==
  /\ stage = "parent"
  /\ stage' = "late"
  /\ skips' = 0
  /\ UNCHANGED <<vars, carries, voterMisses, proposerMisses, signers, absent, processed>>

(* The committee of the block whose window closes. *)
Closing == IF height > K THEN signers[height - K] ELSE {}

(* A quorum of the committee has voted, and only registered members count. *)
MayBeAbsent(v) ==
  /\ v \in Closing \ absent
  /\ val[v].lc # "Absent"
  /\ 3 * (Cardinality(absent) + 1) < Cardinality(Closing)

(* slash_voter, for one absentee of the window that closes. *)
SlashVoter(v) ==
  /\ stage = "late"
  /\ MayBeAbsent(v)
  /\ absent' = absent \cup {v}
  /\ voterMisses' = [voterMisses EXCEPT ![v] = @ + 1]
  /\ IF Strikes(v, voterMisses, VoterThreshold)
     THEN JailAndSlash(v) ELSE UNCHANGED vars
  /\ UNCHANGED <<stage, carries, proposerMisses, signers, skips, processed>>

WindowClosed ==
  /\ stage = "late"
  /\ stage' = "done"
  /\ absent' = {}
  /\ signers' = [b \in 1..MaxHeight |-> IF b + K = height THEN {} ELSE signers[b]]
  /\ UNCHANGED <<vars, carries, voterMisses, proposerMisses, skips, processed>>

(* The evidence transactions and apply_evidence_felony: an active validator      *)
(* submits what has not been processed yet.  A call that is rejected reverts.    *)
SubmitEvidence(e) ==
  /\ phase = "user"
  /\ e \notin processed
  /\ \E submitter \in Validators : val[submitter].lc = "Active"
  /\ JailAndSlash(e.offender)
  /\ processed' = processed \cup {e}
  /\ UNCHANGED <<stage, carries, voterMisses, proposerMisses, signers, absent, skips>>

-----------------------------------------------------------------------------
(* The rest of the block, as in ValidatorSet. *)

(* A block whose boundary is refused is invalid: its branch ends here. *)
Boundary ==
  IF carries THEN \E gone \in SUBSET Validators : BoundaryOutcome(gone) ELSE NoBoundary

LifecycleStep ==
  /\ stage = "done"
  /\ \/ \E v \in Actors :
          \/ RegisterValidator(v)
          \/ ConfirmReady(v)
          \/ Deactivate(v)
          \/ Unjail(v)
          \/ CompleteUnbonding(v)
          \/ \E b \in Stakes : IncreaseStake(v, b) \/ Unstake(v, b) \/ OcompMiss(v, b)
     \/ \E expired \in SUBSET Actors : CycleTick(expired)
     \/ Boundary
     \/ AtBound
  /\ UNCHANGED slashVars

(* The committee of a block is the one that is active at its end. *)
StartBlock(drained) ==
  /\ NewBlock(drained)
  /\ stage' = "pre"
  /\ carries' = FALSE
  /\ signers' = [signers EXCEPT ![height] = committee]
  /\ UNCHANGED <<voterMisses, proposerMisses, absent, skips, processed>>

SlashNext ==
  \/ \E c \in BOOLEAN : PreExecution(c)
  \/ \E v \in Actors : SlashProposer(v) \/ SlashVoter(v)
  \/ ParentAccounted
  \/ WindowClosed
  \/ \E e \in Evidence : SubmitEvidence(e)
  \/ LifecycleStep
  \/ \E drained \in SUBSET {v \in Validators : val[v].lc = "Unbonding"} : StartBlock(drained)

SlashSpec == SlashInit /\ [][SlashNext]_<<vars, slashVars>>

-----------------------------------------------------------------------------
(* Properties *)

(* A miss counter only ever convicts an active validator, although it counts     *)
(* the members of a committee that may be K blocks old: jail_validator, which     *)
(* rejects a validator on its way in, would fail the whole block, and one that    *)
(* has left would be slashed again for the same fault                             *)
(* (validator_already_penalized).                                                 *)
LivenessFelonyHitsActive ==
  \A v \in Validators :
    /\ /\ stage = "parent" /\ v \in signers[height - 1]
       /\ Strikes(v, proposerMisses, ProposerThreshold)
       => val[v].lc = "Active"
    /\ /\ stage = "late" /\ v \in Closing \ absent /\ val[v].lc # "Absent"
       /\ Strikes(v, voterMisses, VoterThreshold)
       => val[v].lc = "Active"

(* Nobody is active with a count at or above a felony threshold: a validator that  *)
(* passes the threshold while it is leaving or jailed, and is not punished, cannot *)
(* come back before a boundary has reset its counters (reset_epoch_counters).      *)
ThresholdEnforced ==
  \A v \in Validators :
    val[v].lc = "Active" => /\ voterMisses[v] < VoterThreshold
                            /\ proposerMisses[v] < ProposerThreshold

=============================================================================
