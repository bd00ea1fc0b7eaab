---------------------------- MODULE ValidatorSet ----------------------------
(***************************************************************************)
(* The validator set as the block executor drives it: lifecycle records,    *)
(* the OCOMP recovery windows, the freeze of the next committee and its      *)
(* activation by a boundary block.                                          *)
(*                                                                         *)
(* A block runs in three phases: "begin" (certified-parent accounting, late  *)
(* credits and OCOMP lifecycle), then CycleTick, "boundary" (BoundaryOutcome *)
(* or nothing), and "user" (oracle slash window and user transactions).      *)
(* Amounts arrive from Staking, which is left open here: any new bonded      *)
(* value in the direction of the call.  Module Staking closes it.            *)
(***************************************************************************)
EXTENDS Lifecycle, FiniteSets

CONSTANTS
  Validators,              \* addresses
  Founders,                \* the genesis committee
  MaxStake,                \* bound on bonded amounts
  UnjailCooldown,          \* config_unjail_cooldown_blocks
  ReregistrationCooldown,  \* config_reregistration_cooldown_blocks
  RecoveryWindow,          \* OCOMP_RECOVERY_WINDOW_BLOCKS
  EpochLength,             \* config_epoch_length_blocks
  PrepareWindow,           \* dkgPrepareWindowBlocks
  MaxRemovals,             \* removals per boundary, 16 in the executor
  MaxHeight                \* bound on block heights

ASSUME ValidatorSetAssumption ==
  /\ Founders \subseteq Validators
  /\ MaxStake \in Nat /\ MaxStake >= MinStake
  /\ UnjailCooldown \in Nat
  /\ ReregistrationCooldown \in Nat
  /\ RecoveryWindow \in Nat \ {0}
  /\ EpochLength \in Nat \ {0}
  /\ PrepareWindow \in Nat /\ PrepareWindow < EpochLength
  /\ MaxRemovals \in Nat \ {0}
  /\ MaxHeight \in Nat

VARIABLES
  height,          \* number of the block being executed
  phase,           \* how far that block has come
  val,             \* the lifecycle record of every address
  pending,         \* pending_set_change
  admitted,        \* addresses with an OCOMP registration
  deadline,        \* val_ocomp_recovery_deadline, 0 when no window is open
  committee,       \* the set behind active_consensus_set_hash
  frozen,          \* the DKG target and its freeze height, at = 0 for none
  lastActivation   \* activation anchor of the current epoch

vars == <<height, phase, val, pending, admitted, deadline, committee, frozen,
          lastActivation>>

Phases == {"begin", "boundary", "user"}
Stakes == 0..MaxStake

NoTarget == [at |-> 0, members |-> {}]

TypeOK ==
  /\ height \in Nat \ {0}
  /\ phase \in Phases
  /\ val \in [Validators -> Record]
  /\ pending \in BOOLEAN
  /\ admitted \subseteq Validators
  /\ deadline \in [Validators -> Nat]
  /\ committee \subseteq Validators
  /\ frozen \in [at : Nat, members : SUBSET Validators]
  /\ lastActivation \in Nat

(* Block 1 bootstraps epoch 0 with the founders, each funded. *)
GenesisRecords ==
  {[v \in Validators |->
      IF v \in Founders
      THEN [AbsentRecord EXCEPT !.lc = "Active", !.bonded = b[v]]
      ELSE AbsentRecord] : b \in [Founders -> MinStake..MaxStake]}

Init ==
  /\ height = 1
  /\ phase = "user"
  /\ val \in GenesisRecords
  /\ pending = FALSE
  /\ admitted = Founders
  /\ deadline = [v \in Validators |-> 0]
  /\ committee = Founders
  /\ frozen = NoTarget
  /\ lastActivation = 0

Participants(rec) == {v \in Validators : IsParticipant(rec[v])}

-----------------------------------------------------------------------------
(* User transactions on the validator set. *)

(* registerValidator for a new address, or for an inactive one once its      *)
(* cooldown is over and no recovery window is open.  The limits on how many   *)
(* addresses are registered are left out: they only refuse more calls.       *)
RegisterValidator(v) ==
  /\ phase = "user"
  /\ \/ val[v].lc = "Absent"
     \/ /\ val[v].lc = "Inactive"
        /\ height >= val[v].deact + ReregistrationCooldown
        /\ deadline[v] = 0
  /\ val' = [val EXCEPT ![v] = Registered]
  /\ pending' = TRUE
  /\ UNCHANGED <<height, phase, admitted, deadline, committee, frozen,
                 lastActivation>>

(* stake: record_stake_increase *)
IncreaseStake(v, b) ==
  /\ phase = "user"
  /\ CanIncreaseStake(val[v])
  /\ b > val[v].bonded
  /\ val' = [val EXCEPT ![v] = StakeIncreased(val[v], b)]
  /\ pending' = (pending \/ StakeIncreased(val[v], b).lc # val[v].lc)
  /\ UNCHANGED <<height, phase, admitted, deadline, committee, frozen,
                 lastActivation>>

(* unstake: record_unstake *)
Unstake(v, b) ==
  /\ phase = "user"
  /\ HasStakeRecord(val[v])
  /\ b < val[v].bonded
  /\ val' = [val EXCEPT ![v] = Unstaked(val[v], b, height)]
  /\ pending' = (pending \/ UnstakeChangesSet(val[v], b, height))
  /\ UNCHANGED <<height, phase, admitted, deadline, committee, frozen,
                 lastActivation>>

(* confirmValidatorReady, idempotent once the validator is joining *)
ConfirmReady(v) ==
  /\ phase = "user"
  /\ val[v].lc \in {"WaitingForReadiness", "Joining"}
  /\ val' = [val EXCEPT ![v].lc = "Joining"]
  /\ admitted' = admitted \cup {v}
  /\ pending' = TRUE
  /\ UNCHANGED <<height, phase, deadline, committee, frozen, lastActivation>>

(* deactivateValidator *)
Deactivate(v) ==
  /\ phase = "user"
  /\ val[v].lc = "Active"
  /\ val' = [val EXCEPT ![v] = ExitBegun(val[v], height)]
  /\ pending' = TRUE
  /\ UNCHANGED <<height, phase, admitted, deadline, committee, frozen,
                 lastActivation>>

(* unjailValidator *)
Unjail(v) ==
  /\ phase = "user"
  /\ CanUnjail(val[v], height, UnjailCooldown)
  /\ val' = [val EXCEPT ![v] = Unjailed(val[v])]
  /\ pending' = TRUE
  /\ UNCHANGED <<height, phase, admitted, deadline, committee, frozen,
                 lastActivation>>

(* claimUnbonded, when it ends the last unbonding entry of the validator *)
CompleteUnbonding(v) ==
  /\ phase = "user"
  /\ val[v].lc = "Unbonding"
  /\ val[v].bonded = 0
  /\ val' = [val EXCEPT ![v] = UnbondingCompleted(val[v])]
  /\ UNCHANGED <<height, phase, pending, admitted, deadline, committee, frozen,
                 lastActivation>>

-----------------------------------------------------------------------------
(* Penalties. *)

(* A felony: jail_validator, then slash_stake with its record_stake_slash.   *)
(* It is raised by the miss counters ("begin"), and by the oracle slash      *)
(* window and evidence transactions ("user").                                *)
CanSuffer(r) == CanBePunished(r) /\ HasStakeRecord(r)

Felony(v, b) ==
  /\ phase \in {"begin", "user"}
  /\ CanSuffer(val[v])
  /\ b <= val[v].bonded
  /\ val' = [val EXCEPT ![v] = StakeSlashed(Punished(val[v], height), b, height)]
  /\ pending' = (pending \/ val[v].lc = "Active")
  /\ UNCHANGED <<height, phase, admitted, deadline, committee, frozen,
                 lastActivation>>

(* resolve_due_ocomp_recovery_window on record r of v: a due window closes,  *)
(* and jails the validator if it is still active below the minimum.          *)
WindowDueLate(v) == deadline[v] # 0 /\ height > deadline[v]  \* mutant
WindowDue(v) == deadline[v] # 0 /\ height >= deadline[v]

(* Mutant: the window closes without a look at the stake. *)
ResolvedUnchecked(v, r) == r

Resolved(v, r) ==
  IF WindowDue(v) /\ r.lc = "Active" /\ r.bonded < MinStake
  THEN Punished(r, height)
  ELSE r

ResolvedDeadline(v) == IF WindowDue(v) THEN 0 ELSE deadline[v]

(* A missing OCOMP result vote: a due window is resolved first; then the     *)
(* first miss of an active validator opens a window and takes a part of the  *)
(* bonded stake, and later misses change neither.                            *)
OcompMiss(v, b) ==
  /\ phase = "begin"
  /\ LET r == Resolved(v, val[v])
         d == ResolvedDeadline(v)
     IN  /\ r.lc = "Active" /\ d = 0 => b <= r.bonded
         /\ ~(r.lc = "Active" /\ d = 0) => b = r.bonded
         /\ val' = [val EXCEPT ![v] = [r EXCEPT !.bonded = b]]
         /\ deadline' = [deadline EXCEPT ![v] =
                           IF r.lc = "Active" /\ d = 0
                           THEN height + RecoveryWindow ELSE d]
         /\ pending' = (pending \/ r.lc # val[v].lc)
  /\ UNCHANGED <<height, phase, admitted, committee, frozen, lastActivation>>

(* CycleTick: active validators with an expired enclave lease are jailed,    *)
(* then every due recovery window is resolved.                               *)
TeeEnforced(expired) ==
  [v \in Validators |-> IF v \in expired THEN TeeJailed(val[v], height)
                                         ELSE val[v]]

CycleTick(expired) ==
  /\ phase = "begin"
  /\ expired \subseteq {v \in Validators : val[v].lc = "Active"}
  /\ val' = [v \in Validators |-> Resolved(v, TeeEnforced(expired)[v])]
  /\ deadline' = [v \in Validators |-> ResolvedDeadline(v)]
  /\ pending' = (pending \/ \E v \in Validators : val'[v].lc # val[v].lc)
  /\ phase' = "boundary"
  /\ UNCHANGED <<height, admitted, committee, frozen, lastActivation>>

-----------------------------------------------------------------------------
(* The freeze of the next committee and its activation. *)

FreezeHeight == lastActivation + EpochLength - PrepareWindow

(* get_reshare_target_set *)
ReshareTarget ==
  {v \in Validators : \/ val[v].lc = "Active"
                      \/ val[v].lc = "Joining" /\ v \in admitted}

(* The consensus engine reads the target from the state after block          *)
(* FreezeHeight, and keeps it through failed ceremonies until a boundary.    *)
FreezeAtEndOfBlock ==
  frozen' = IF height = FreezeHeight
            THEN [at |-> height, members |-> ReshareTarget]
            ELSE frozen

(* A ceremony needs a player, and ends no earlier than the planned height. *)
BoundaryDue ==
  frozen.at # 0 /\ frozen.members # {} /\ height > lastActivation + EpochLength

(* Every check of apply_reshared_set and of the incoming snapshot. *)
BoundaryAccepted ==
  /\ \A v \in Validators :
       /\ BoundaryAccepts(val[v], v \in frozen.members, frozen.at, v \in admitted)
       /\ v \in frozen.members => v \in admitted
  /\ Participants([v \in Validators |->
                     BoundaryMoved(val[v], v \in frozen.members)])
       = frozen.members

(* cleanup_inactive_validators *)
CanBeCleaned(v) ==
  /\ val[v].lc = "Inactive"
  /\ height >= val[v].deact + ReregistrationCooldown
  /\ deadline[v] = 0

CleanupSets ==
  LET C == {v \in Validators : CanBeCleaned(v)}
  IN  {G \in SUBSET C : \/ Cardinality(G) = MaxRemovals
                        \/ G = C /\ Cardinality(C) < MaxRemovals}

(* apply_boundary_outcome, in one checkpoint *)
BoundaryOutcome(gone) ==
  /\ phase = "boundary"
  /\ BoundaryDue
  /\ BoundaryAccepted
  /\ gone \in CleanupSets
  /\ val' = [v \in Validators |->
               IF v \in gone THEN AbsentRecord
               ELSE BoundaryMoved(val[v], v \in frozen.members)]
  /\ committee' = frozen.members
  /\ pending' = \E v \in Validators :
                  AwaitsBoundary(BoundaryMoved(val[v], v \in frozen.members))
  /\ frozen' = NoTarget
  /\ lastActivation' = height - 1
  /\ phase' = "user"
  /\ UNCHANGED <<height, admitted, deadline>>

(* A block that carries no boundary, the ceremony being still under way. *)
NoBoundary ==
  /\ phase = "boundary"
  /\ phase' = "user"
  /\ UNCHANGED <<height, val, pending, admitted, deadline, committee, frozen,
                 lastActivation>>

(* The end of a block, and process_unbonding at the start of the next: the   *)
(* stake of an excluded validator leaves its record, and a validator whose   *)
(* entries are gone (drained, known to Staking) becomes inactive.            *)
NewBlock(drained) ==
  /\ phase = "user"
  /\ height < MaxHeight
  /\ FreezeAtEndOfBlock
  /\ drained \subseteq {v \in Validators : val[v].lc = "Unbonding"
                                           /\ val[v].bonded = 0}
  /\ height' = height + 1
  /\ phase' = "begin"
  /\ val' = [v \in Validators |->
               IF v \in drained THEN UnbondingCompleted(val[v])
               ELSE IF val[v].lc = "Unbonding" THEN [val[v] EXCEPT !.bonded = 0]
               ELSE val[v]]
  /\ UNCHANGED <<pending, admitted, deadline, committee, lastActivation>>

(* The instance ends at its bound, so that a deadlock is a block that cannot *)
(* be executed.                                                              *)
AtBound == phase = "user" /\ height = MaxHeight /\ UNCHANGED vars

Next ==
  \/ \E v \in Validators :
       \/ RegisterValidator(v)
       \/ ConfirmReady(v)
       \/ Deactivate(v)
       \/ Unjail(v)
       \/ CompleteUnbonding(v)
       \/ \E b \in Stakes :
            \/ IncreaseStake(v, b)
            \/ Unstake(v, b)
            \/ Felony(v, b)
            \/ OcompMiss(v, b)
  \/ \E expired \in SUBSET Validators : CycleTick(expired)
  \/ \E gone \in SUBSET Validators : BoundaryOutcome(gone)
  \/ NoBoundary
  \/ \E drained \in SUBSET Validators : NewBlock(drained)
  \/ AtBound

Spec == Init /\ [][Next]_vars

-----------------------------------------------------------------------------
(* Properties. *)

(* No sequence of calls leaves a record that the storage adapter would       *)
(* refuse to decode (adapter.rs, validate): the next read of a refused record *)
(* is a fatal error of the block.                                            *)
RecordsCanonical == \A v \in Validators : IsCanonical(val[v])

(* The certified committee is at every point exactly the set of validators   *)
(* whose record says that they hold a share: between two boundaries no exit, *)
(* jail, lease expiry, slash or re-registration adds or removes a member.     *)
CommitteeHoldsShares == committee = Participants(val)

(* apply_reshared_set tells a late exit from an early one by comparing two    *)
(* heights written by different parties.  Of a frozen target: active          *)
(* validators are in it, a leaving validator is in it iff it left after the   *)
(* freeze, and a member that holds no share yet is on its way in.            *)
FrozenTargetConsistent ==
  frozen.at # 0 =>
    \A v \in Validators :
      /\ val[v].lc = "Active" => v \in frozen.members
      /\ val[v].lc = "Exiting" => (v \in frozen.members <=> val[v].deact > frozen.at)
      /\ val[v].lc = "JailRetained" =>
           (v \in frozen.members <=> val[v].jailedAt > frozen.at)
      /\ v \in frozen.members /\ v \notin committee =>
           val[v].lc \in {"WaitingForStake", "WaitingForReadiness", "Joining"}
      /\ v \in frozen.members => v \in admitted

(* pending_set_change is the only signal that a reshare is wanted: it is      *)
(* raised whenever a validator waits for a boundary.                         *)
PendingCoversWaiters ==
  (\E v \in Validators : AwaitsBoundary(val[v])) => pending

(* An active validator is below the minimum only inside an open OCOMP        *)
(* recovery window, and a validator on its way in never is.                  *)
UnderfundedOnlyInRecovery ==
  \A v \in Validators :
    val[v].bonded < MinStake =>
      /\ val[v].lc = "Active" => deadline[v] # 0
      /\ val[v].lc \notin {"WaitingForReadiness", "Joining"}

(* After CycleTick no window is overdue, and the owner of an open window is   *)
(* still registered, so that the sweep over the registry finds it.           *)
WindowsResolvedInTime ==
  \A v \in Validators :
    deadline[v] # 0 => /\ phase # "begin" => deadline[v] > height
                       /\ val[v].lc # "Absent"

(* What the comment on BoundaryActivationInputs.freeze_height promises: only  *)
(* a validator that was already ineligible at the freeze makes a boundary     *)
(* malformed; a target frozen from the chain's own state can be activated.    *)
FrozenTargetActivatable ==
  phase = "boundary" /\ BoundaryDue => BoundaryAccepted

=============================================================================
