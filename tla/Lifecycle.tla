------------------------------ MODULE Lifecycle ------------------------------
(***************************************************************************)
(* The validator lifecycle as a set of pure transitions on one validator    *)
(* record, as in crates/system/validatorset/src/state_machine and the       *)
(* record_* / punish_* methods of runtime.rs that dispatch on the variant.  *)
(*                                                                         *)
(* A record keeps what the transitions read or write:                       *)
(*   lc        the lifecycle variant (ten of them, Absent included);        *)
(*   bonded    the mirror of the bonded stake owned by Staking;             *)
(*   deact     last_deactivated_at_height, 0 for None;                      *)
(*   jailedAt  the stored jail height, 0 when the variant is not a jail;    *)
(*   slashes   slash_count.                                                 *)
(* Left out: keys, p2p address, the unbonding-end hint (no transition reads *)
(* its value) and the per-epoch counters (module SlashIndicator).           *)
(***************************************************************************)
EXTENDS Naturals

CONSTANT MinStake          \* config_min_stake

ASSUME MinStakeAssumption == MinStake \in Nat \ {0}

Variants ==
  {"Absent", "WaitingForStake", "WaitingForReadiness", "Joining", "Active",
   "JailRetained", "Jail", "Exiting", "Unbonding", "Inactive"}

Record ==
  [lc : Variants, bonded : Nat, deact : Nat, jailedAt : Nat, slashes : Nat]

AbsentRecord ==
  [lc |-> "Absent", bonded |-> 0, deact |-> 0, jailedAt |-> 0, slashes |-> 0]

(* has_bls_share and is_current_consensus_participant select these variants. *)
IsParticipant(r) == r.lc \in {"Active", "JailRetained", "Exiting"}

IsJailed(r) == r.lc \in {"JailRetained", "Jail"}

(* What decode/validate of the storage adapter accepts. *)
IsCanonical(r) ==
  /\ r.lc = "Absent" => r = AbsentRecord
  /\ r.lc = "Active" => r.deact = 0
  /\ r.lc \in {"Exiting", "Unbonding", "Inactive"} => r.deact # 0
  /\ r.lc = "Inactive" => r.bonded = 0
  /\ IsJailed(r) => r.jailedAt # 0 /\ r.jailedAt = r.deact
  /\ ~IsJailed(r) => r.jailedAt = 0

-----------------------------------------------------------------------------
(* Registration, stake and readiness. *)

(* register and reregister: a fresh history with no stake. *)
Registered == [AbsentRecord EXCEPT !.lc = "WaitingForStake"]

CanIncreaseStake(r) ==
  r.lc \notin {"Absent", "Inactive", "Exiting", "Unbonding"}

(* record_stake_increase *)
StakeIncreased(r, b) ==
  IF r.lc = "WaitingForStake" /\ b >= MinStake
  THEN [r EXCEPT !.lc = "WaitingForReadiness", !.bonded = b]
  ELSE [r EXCEPT !.bonded = b]

HasStakeRecord(r) == r.lc \notin {"Absent", "Inactive"}

(* Mutants of Unstaked: a jailed member that leaves gives up its share at     *)
(* once; the height of its jail is overwritten by that of its exit.          *)
UnstakedLeavesAtOnce(r, b, h) ==
  CASE r.lc \in {"WaitingForReadiness", "Joining"} /\ b < MinStake ->
         [r EXCEPT !.lc = "WaitingForStake", !.bonded = b]
    [] r.lc = "Active" /\ b < MinStake ->
         [r EXCEPT !.lc = "Exiting", !.bonded = b, !.deact = h]
    [] IsJailed(r) /\ b = 0 ->
         [r EXCEPT !.lc = "Unbonding", !.bonded = b, !.jailedAt = 0]
    [] OTHER -> [r EXCEPT !.bonded = b]

UnstakedStampsExit(r, b, h) ==
  CASE r.lc \in {"WaitingForReadiness", "Joining"} /\ b < MinStake ->
         [r EXCEPT !.lc = "WaitingForStake", !.bonded = b]
    [] \/ r.lc = "Active" /\ b < MinStake
       \/ r.lc = "JailRetained" /\ b = 0 ->
         [r EXCEPT !.lc = "Exiting", !.bonded = b, !.deact = h, !.jailedAt = 0]
    [] r.lc = "Jail" /\ b = 0 ->
         [r EXCEPT !.lc = "Unbonding", !.bonded = b, !.jailedAt = 0]
    [] OTHER -> [r EXCEPT !.bonded = b]

(* record_unstake *)
Unstaked(r, b, h) ==
  CASE r.lc \in {"WaitingForReadiness", "Joining"} /\ b < MinStake ->
         [r EXCEPT !.lc = "WaitingForStake", !.bonded = b]
    [] r.lc = "Active" /\ b < MinStake ->
         [r EXCEPT !.lc = "Exiting", !.bonded = b, !.deact = h]
    [] r.lc = "JailRetained" /\ b = 0 ->
         [r EXCEPT !.lc = "Exiting", !.bonded = b, !.jailedAt = 0]
    [] r.lc = "Jail" /\ b = 0 ->
         [r EXCEPT !.lc = "Unbonding", !.bonded = b, !.jailedAt = 0]
    [] OTHER -> [r EXCEPT !.bonded = b]

(* Mutant: only a demoted joiner raises the flag. *)
DemotionChangesSet(r, b, h) ==
  b < MinStake /\ r.lc \in {"WaitingForReadiness", "Joining"}

(* The set_change flag of record_unstake: every change of variant but the    *)
(* exit of a validator that is already outside the committee.               *)
UnstakeChangesSet(r, b, h) ==
  Unstaked(r, b, h).lc # r.lc /\ r.lc # "Jail"

(* record_stake_slash *)
StakeSlashed(r, b, h) ==
  CASE r.lc \in {"WaitingForReadiness", "Joining"} /\ b < MinStake ->
         [r EXCEPT !.lc = "WaitingForStake", !.bonded = b]
    [] r.lc = "Active" /\ b < MinStake ->
         [r EXCEPT !.lc = "Exiting", !.bonded = b, !.deact = h]
    [] OTHER -> [r EXCEPT !.bonded = b]

-----------------------------------------------------------------------------
(* Exit, jail and unjail. *)

(* deactivate_validator, through begin_exit *)
ExitBegun(r, h) == [r EXCEPT !.lc = "Exiting", !.deact = h]

(* punish_validator with jail = true: only an active validator changes; one  *)
(* that is already leaving is left alone; the others are rejected.           *)
CanBePunished(r) ==
  r.lc \in {"Active", "JailRetained", "Jail", "Exiting", "Unbonding", "Inactive"}

Punished(r, h) ==
  IF r.lc = "Active"
  THEN [r EXCEPT !.lc = "JailRetained", !.deact = h, !.jailedAt = h,
                 !.slashes = @ + 1]
  ELSE r

(* jail_validator_for_tee_expiry: a jail that is not a slash. *)
TeeJailed(r, h) == [r EXCEPT !.lc = "JailRetained", !.deact = h, !.jailedAt = h]

(* unjail_after_stake_check; the last deactivation height is kept. *)
CanUnjail(r, h, cooldown) ==
  /\ r.lc = "Jail"
  /\ r.bonded >= MinStake
  /\ h >= r.jailedAt + cooldown

Unjailed(r) == [r EXCEPT !.lc = "WaitingForReadiness", !.jailedAt = 0]

(* complete_unbonding *)
UnbondingCompleted(r) == [r EXCEPT !.lc = "Inactive"]

-----------------------------------------------------------------------------
(* The per-validator match of apply_reshared_set: included says that the     *)
(* certified target holds the validator, f is the freeze height and admitted *)
(* that an OCOMP registration exists.  The artifact's list of enclave-expiry  *)
(* exclusions is left out: the engine always proposes it empty.              *)

BoundaryAccepts(r, included, f, admitted) ==
  CASE r.lc = "Joining" -> included => admitted
    [] r.lc = "Active" -> included
    [] r.lc = "Exiting" -> included <=> r.deact > f
    [] r.lc = "JailRetained" -> included <=> r.jailedAt > f
    [] OTHER -> ~included

(* Mutant: activation keeps the height of an earlier deactivation. *)
BoundaryMovedKeepsHeight(r, included) ==
  CASE r.lc = "Joining" /\ included -> [r EXCEPT !.lc = "Active"]
    [] r.lc = "Exiting" /\ ~included -> [r EXCEPT !.lc = "Unbonding"]
    [] r.lc = "JailRetained" /\ ~included -> [r EXCEPT !.lc = "Jail"]
    [] OTHER -> r

BoundaryMoved(r, included) ==
  CASE r.lc = "Joining" /\ included -> [r EXCEPT !.lc = "Active", !.deact = 0]
    [] r.lc = "Exiting" /\ ~included -> [r EXCEPT !.lc = "Unbonding"]
    [] r.lc = "JailRetained" /\ ~included -> [r EXCEPT !.lc = "Jail"]
    [] OTHER -> r

(* The variants that keep pending_set_change raised after a boundary. *)
AwaitsBoundary(r) ==
  r.lc \in {"WaitingForReadiness", "Joining", "Exiting", "JailRetained"}

=============================================================================
