------------------------- MODULE ValidatorSetProofs -------------------------
(***************************************************************************)
(* The safety invariants of ValidatorSet, for every set of validators and    *)
(* every value of the parameters.                                            *)
(*                                                                         *)
(* None of them is inductive alone.  The committee follows the records only   *)
(* if the frozen target does, the frozen target can be compared with exit     *)
(* heights only because those never exceed the height of the block, and a     *)
(* jailed validator that exits keeps its place in the target only because     *)
(* both heights of its record agree.  Safe puts these together, one           *)
(* validator at a time.                                                      *)
(***************************************************************************)
EXTENDS ValidatorSet, TLAPS


-----------------------------------------------------------------------------
(* What the transitions of Lifecycle return. *)

(* Every stake change of record_stake_increase, record_unstake and            *)
(* record_stake_slash yields a record again.                                 *)
LEMMA StakeTransitionsType ==
  ASSUME NEW r \in Record, NEW b \in Nat, NEW h \in Nat
  PROVE  /\ StakeIncreased(r, b) \in Record
         /\ Unstaked(r, b, h) \in Record
         /\ StakeSlashed(r, b, h) \in Record
  BY ZenonT(20) DEF Record, Variants, StakeIncreased, Unstaked, StakeSlashed

(* Every exit, jail, unjail, completion and boundary move yields a record     *)
(* again.                                                                    *)
LEMMA MovesType ==
  ASSUME NEW r \in Record, NEW h \in Nat
  PROVE  /\ ExitBegun(r, h) \in Record
         /\ Punished(r, h) \in Record
         /\ TeeJailed(r, h) \in Record
         /\ Unjailed(r) \in Record
         /\ UnbondingCompleted(r) \in Record
         /\ \A inc \in BOOLEAN : BoundaryMoved(r, inc) \in Record
<1>2. ExitBegun(r, h) \in Record /\ TeeJailed(r, h) \in Record
  BY ZenonT(20) DEF Record, Variants, ExitBegun, TeeJailed
<1>3. Unjailed(r) \in Record /\ UnbondingCompleted(r) \in Record
  BY ZenonT(20) DEF Record, Variants, Unjailed, UnbondingCompleted
<1>4. Punished(r, h) \in Record
  <2>1. r.slashes + 1 \in Nat
    BY DEF Record
  <2>2. \A n \in Nat : [r EXCEPT !.lc = "JailRetained", !.deact = h,
                                 !.jailedAt = h, !.slashes = n] \in Record
    BY ZenonT(20) DEF Record, Variants
  <2> QED
    BY ZenonT(20), <2>1, <2>2 DEF Punished
<1>5. \A inc \in BOOLEAN : BoundaryMoved(r, inc) \in Record
  BY ZenonT(20) DEF Record, Variants, BoundaryMoved
<1> QED
  BY <1>2, <1>3, <1>4, <1>5

(* The two constant records. *)
LEMMA ConstantRecordsType == AbsentRecord \in Record /\ Registered \in Record
  BY DEF Record, Variants, AbsentRecord, Registered

-----------------------------------------------------------------------------
(* Type correctness. *)

USE DEF Phases, Stakes

(* Replacing the record of one validator by another record keeps val a        *)
(* function into records.                                                    *)
LEMMA UpdateType ==
  ASSUME NEW f \in [Validators -> Record], NEW v \in Validators,
         NEW r \in Record
  PROVE  [f EXCEPT ![v] = r] \in [Validators -> Record]
  OBVIOUS

(* The genesis state. *)
LEMMA InitType == Init => TypeOK
<1> SUFFICES ASSUME Init PROVE TypeOK
  OBVIOUS
<1>1. PICK b \in [Founders -> MinStake..MaxStake] :
        val = [v \in Validators |->
                 IF v \in Founders
                 THEN [AbsentRecord EXCEPT !.lc = "Active", !.bonded = b[v]]
                 ELSE AbsentRecord]
  BY ZenonT(20) DEF Init, GenesisRecords
<1>2. ASSUME NEW n \in Nat
      PROVE  [AbsentRecord EXCEPT !.lc = "Active", !.bonded = n] \in Record
  BY ZenonT(20) DEF AbsentRecord, Record, Variants
<1>3. \A v \in Founders : b[v] \in Nat
  BY MinStakeAssumption, ValidatorSetAssumption
<1>4. AbsentRecord \in Record
  BY DEF AbsentRecord, Record, Variants
<1>5. val \in [Validators -> Record]
  BY ZenonT(20), <1>1, <1>2, <1>3, <1>4
<1>6. frozen \in [at : Nat, members : SUBSET Validators]
  BY DEF Init, NoTarget
<1>7. deadline \in [Validators -> Nat]
  BY DEF Init
<1>8. /\ height \in Nat \ {0}
      /\ phase \in Phases
      /\ lastActivation \in Nat
  BY DEF Init
<1>9. pending \in BOOLEAN
  BY ZenonT(20) DEF Init
<1>10. admitted \subseteq Validators /\ committee \subseteq Validators
  BY ValidatorSetAssumption DEF Init
<1> QED
  BY <1>5, <1>6, <1>7, <1>8, <1>9, <1>10 DEF TypeOK

(* The single-validator transactions and penalties. *)
LEMMA UserStepType ==
  ASSUME TypeOK, NEW v \in Validators,
         \/ RegisterValidator(v) \/ ConfirmReady(v) \/ Deactivate(v)
         \/ Unjail(v) \/ CompleteUnbonding(v)
  PROVE  TypeOK'
<1> USE DEF TypeOK
<1> val[v] \in Record /\ val[v] \in Record
  OBVIOUS
<1>1. CASE RegisterValidator(v)
  BY <1>1, ConstantRecordsType, UpdateType DEF RegisterValidator
<1>2. CASE ConfirmReady(v)
  <2>1. [val[v] EXCEPT !.lc = "Joining"] \in Record
    BY DEF Record, Variants
  <2>2. val' = [val EXCEPT ![v] = [val[v] EXCEPT !.lc = "Joining"]]
    BY <1>2 DEF ConfirmReady
  <2> QED
    BY <1>2, <2>1, <2>2, UpdateType DEF ConfirmReady
<1>3. CASE Deactivate(v)
  BY <1>3, MovesType, UpdateType DEF Deactivate
<1>4. CASE Unjail(v)
  BY <1>4, MovesType, UpdateType DEF Unjail
<1>5. CASE CompleteUnbonding(v)
  BY <1>5, MovesType, UpdateType DEF CompleteUnbonding
<1> QED
  BY <1>1, <1>2, <1>3, <1>4, <1>5

(* The stake calls and the penalties of one validator. *)
LEMMA StakeStepType ==
  ASSUME TypeOK, NEW v \in Validators, NEW b \in Stakes,
         \/ IncreaseStake(v, b) \/ Unstake(v, b)
         \/ Felony(v, b) \/ OcompMiss(v, b)
  PROVE  TypeOK'
<1> USE DEF TypeOK
<1> val[v] \in Record /\ b \in Nat /\ height \in Nat
  BY ValidatorSetAssumption
<1>1. pending' \in BOOLEAN
  BY Zenon DEF IncreaseStake, Unstake, Felony, OcompMiss
<1>2. CASE IncreaseStake(v, b)
  BY ZenonT(20), <1>1, <1>2, StakeTransitionsType, UpdateType DEF IncreaseStake
<1>3. CASE Unstake(v, b)
  BY ZenonT(20), <1>1, <1>3, StakeTransitionsType, UpdateType DEF Unstake
<1>4. CASE Felony(v, b)
  <2>1. Punished(val[v], height) \in Record
    BY ZenonT(20), MovesType
  <2>2. StakeSlashed(Punished(val[v], height), b, height) \in Record
    BY <2>1, StakeTransitionsType
  <2> QED
    BY <1>1, <1>4, <2>2, UpdateType DEF Felony
<1>5. CASE OcompMiss(v, b)
  <2>1. Resolved(v, val[v]) \in Record
    BY MovesType DEF Resolved
  <2>2. [Resolved(v, val[v]) EXCEPT !.bonded = b] \in Record
    BY <2>1 DEF Record
  <2>3. ResolvedDeadline(v) \in Nat /\ height + RecoveryWindow \in Nat
    BY ValidatorSetAssumption DEF ResolvedDeadline
  <2> QED
    BY <1>1, <1>5, <2>2, <2>3, UpdateType DEF OcompMiss
<1> QED
  BY <1>2, <1>3, <1>4, <1>5

(* The steps of the block itself. *)
LEMMA BlockStepType ==
  ASSUME TypeOK, NEW S \in SUBSET Validators,
         CycleTick(S) \/ BoundaryOutcome(S) \/ NoBoundary \/ NewBlock(S)
  PROVE  TypeOK'
<1> USE DEF TypeOK
<1> \A v \in Validators : val[v] \in Record
  OBVIOUS
<1> height \in Nat
  OBVIOUS
<1>1. CASE CycleTick(S)
  <2>1. \A v \in Validators : TeeEnforced(S)[v] \in Record
    BY ZenonT(20), MovesType DEF TeeEnforced
  <2>2. \A v \in Validators : Resolved(v, TeeEnforced(S)[v]) \in Record
    BY ZenonT(20), <2>1, MovesType DEF Resolved
  <2>3. \A v \in Validators : ResolvedDeadline(v) \in Nat
    BY DEF ResolvedDeadline
  <2>4. pending' \in BOOLEAN
    BY <1>1, Zenon DEF CycleTick
  <2> QED
    BY <1>1, <2>2, <2>3, <2>4 DEF CycleTick
<1>2. CASE BoundaryOutcome(S)
  <2>1. \A v \in Validators :
          BoundaryMoved(val[v], v \in frozen.members) \in Record
    <3> SUFFICES ASSUME NEW v \in Validators
                 PROVE  BoundaryMoved(val[v], v \in frozen.members) \in Record
      OBVIOUS
    <3>1. val[v] \in Record
      OBVIOUS
    <3> QED
      BY ZenonT(20), <3>1 DEF BoundaryMoved, Record, Variants
  <2>2. AbsentRecord \in Record
    BY ConstantRecordsType
  <2>3. val' \in [Validators -> Record]
    BY <1>2, <2>1, <2>2 DEF BoundaryOutcome
  <2>4. pending' \in BOOLEAN
    BY <1>2, Zenon DEF BoundaryOutcome
  <2>5. frozen' \in [at : Nat, members : SUBSET Validators]
    BY <1>2 DEF BoundaryOutcome, NoTarget
  <2> QED
    BY <1>2, <2>3, <2>4, <2>5 DEF BoundaryOutcome
<1>3. CASE NoBoundary
  BY <1>3 DEF NoBoundary
<1>4. CASE NewBlock(S)
  <2>1. \A v \in Validators : UnbondingCompleted(val[v]) \in Record
    BY MovesType
  <2>2. \A v \in Validators : [val[v] EXCEPT !.bonded = 0] \in Record
    BY DEF Record
  <2>3. val' \in [Validators -> Record]
    BY <1>4, <2>1, <2>2 DEF NewBlock
  <2>4. frozen' \in [at : Nat, members : SUBSET Validators]
    BY <1>4 DEF NewBlock, FreezeAtEndOfBlock, ReshareTarget
  <2> QED
    BY <1>4, <2>3, <2>4 DEF NewBlock
<1> QED
  BY <1>1, <1>2, <1>3, <1>4

(* Every reachable state of the validator set is type correct. *)
THEOREM TypeCorrect == Spec => []TypeOK
<1>1. TypeOK /\ [Next]_vars => TypeOK'
  <2> SUFFICES ASSUME TypeOK, [Next]_vars PROVE TypeOK'
    OBVIOUS
  <2>1. CASE UNCHANGED vars
    BY <2>1 DEF vars, TypeOK
  <2> QED
    BY <2>1, UserStepType, StakeStepType, BlockStepType DEF Next, AtBound
<1> QED
  BY <1>1, InitType, PTL DEF Spec

-----------------------------------------------------------------------------
(* The safety invariants. *)


(* What a frozen target says of one validator. *)
TargetAgrees(v) ==
  /\ val[v].lc = "Active" => v \in frozen.members
  /\ val[v].lc = "Exiting" => (v \in frozen.members <=> val[v].deact > frozen.at)
  /\ val[v].lc = "JailRetained" =>
       (v \in frozen.members <=> val[v].jailedAt > frozen.at)
  /\ v \in frozen.members /\ v \notin committee =>
       val[v].lc \in {"WaitingForStake", "WaitingForReadiness", "Joining"}
  /\ v \in frozen.members => v \in admitted

(* Only an active validator may be below the minimum stake, and then its    *)
(* recovery window is running.                                              *)
Funded(v) ==
  val[v].bonded < MinStake =>
    /\ val[v].lc = "Active" => deadline[v] # 0
    /\ val[v].lc \notin {"WaitingForReadiness", "Joining"}

(* A running recovery window is of a registered validator and has not been  *)
(* missed.                                                                  *)
WindowOK(v) ==
  deadline[v] # 0 => /\ phase # "begin" => deadline[v] > height
                     /\ val[v].lc # "Absent"

(* What the invariant says of one validator. *)
Safe(v) ==
  /\ IsCanonical(val[v])
  /\ val[v].deact <= height
  /\ v \in committee <=> IsParticipant(val[v])
  /\ IsParticipant(val[v]) \/ val[v].lc = "Joining" => v \in admitted
  /\ frozen.at # 0 => TargetAgrees(v)
  /\ Funded(v)
  /\ WindowOK(v)

(* The inductive invariant of the set. *)
Inductive ==
  /\ TypeOK
  /\ frozen.at < height
  /\ \A v \in Validators : Safe(v)

USE DEF IsCanonical, IsParticipant, IsJailed

(* The genesis committee is safe. *)
LEMMA InitSafe == Init => Inductive
<1> SUFFICES ASSUME Init PROVE Inductive
  OBVIOUS
<1>1. TypeOK
  BY InitType
<1>2. frozen.at < height
  BY DEF Init, NoTarget
<1>3. ASSUME NEW v \in Validators PROVE Safe(v)
  <2>1. PICK b \in [Founders -> MinStake..MaxStake] :
        val = [w \in Validators |->
                 IF w \in Founders
                 THEN [AbsentRecord EXCEPT !.lc = "Active", !.bonded = b[w]]
                 ELSE AbsentRecord]
    BY ZenonT(20) DEF Init, GenesisRecords
  <2>2. CASE v \in Founders
    <3>1. val[v] = [AbsentRecord EXCEPT !.lc = "Active", !.bonded = b[v]]
      BY ZenonT(20), <2>1, <2>2
    <3>2. b[v] \in Nat /\ b[v] >= MinStake
      BY <2>2, MinStakeAssumption, ValidatorSetAssumption
    <3> QED
      BY <2>2, <3>1, <3>2, MinStakeAssumption
      DEF Safe, Init, NoTarget, Funded, WindowOK, AbsentRecord
  <2>3. CASE v \notin Founders
    <3>1. val[v] = AbsentRecord
      BY ZenonT(20), <2>1, <2>3
    <3> QED
      BY SMTT(30), Z3T(30), <2>3, <3>1 DEF Safe, Init, NoTarget, Funded, WindowOK, AbsentRecord
  <2> QED
    BY <2>2, <2>3
<1> QED
  BY <1>1, <1>2, <1>3 DEF Inductive

(* A validator that a step leaves alone stays safe, if the step keeps the     *)
(* block and the target and only adds registrations.                         *)
LEMMA OthersSafe ==
  ASSUME NEW w \in Validators, Safe(w), val'[w] = val[w],
         deadline'[w] = deadline[w],
         UNCHANGED <<height, phase, committee, frozen>>,
         admitted \subseteq admitted'
  PROVE  Safe(w)'
  BY DEF Safe, TargetAgrees, Funded, WindowOK

(* Registration, readiness, exit, unjail and the end of an unbonding. *)
LEMMA UserStepSafe ==
  ASSUME Inductive, NEW v \in Validators,
         \/ RegisterValidator(v) \/ ConfirmReady(v) \/ Deactivate(v)
         \/ Unjail(v) \/ CompleteUnbonding(v)
  PROVE  Inductive'
<1> USE DEF Inductive
<1>0. val[v] \in Record /\ val \in [Validators -> Record] /\ height \in Nat \ {0}
  BY DEF TypeOK
<1>1. TypeOK'
  BY UserStepType
<1>2. (frozen.at < height)'
  BY DEF RegisterValidator, ConfirmReady, Deactivate, Unjail, CompleteUnbonding
<1>3. ASSUME NEW w \in Validators, w # v PROVE Safe(w)'
  BY ZenonT(20), <1>0, <1>3, OthersSafe
  DEF RegisterValidator, ConfirmReady, Deactivate, Unjail, CompleteUnbonding
<1>4. Safe(v)'
  <2> USE <1>0 DEF Safe, TargetAgrees, Funded, WindowOK
  <2>1. CASE RegisterValidator(v)
    <3>1. val'[v] = Registered
      BY <2>1 DEF RegisterValidator
    <3> QED
      BY <2>1, <3>1 DEF RegisterValidator, Registered, AbsentRecord
  <2>2. CASE ConfirmReady(v)
    <3>1. val'[v] = [val[v] EXCEPT !.lc = "Joining"]
      BY <2>2 DEF ConfirmReady
    <3> QED
      BY <2>2, <3>1 DEF ConfirmReady, Record
  <2>3. CASE Deactivate(v)
    <3>1. val'[v] = ExitBegun(val[v], height)
      BY <2>3 DEF Deactivate
    <3> QED
      BY <2>3, <3>1 DEF Deactivate, ExitBegun, Record
  <2>4. CASE Unjail(v)
    <3>1. val'[v] = Unjailed(val[v])
      BY ZenonT(20), <2>4 DEF Unjail
    <3>2. val[v].lc = "Jail" /\ val[v].bonded >= MinStake
      BY ZenonT(20), <2>4 DEF Unjail, CanUnjail
    <3>3. UNCHANGED <<height, phase, admitted, deadline, committee, frozen>>
      BY <2>4 DEF Unjail
    <3> QED
      BY SMTT(30), Z3T(30), <3>1, <3>2, <3>3, MinStakeAssumption DEF Unjailed, Record
  <2>5. CASE CompleteUnbonding(v)
    <3>1. val'[v] = UnbondingCompleted(val[v])
      BY <2>5 DEF CompleteUnbonding
    <3> QED
      BY ZenonT(20), <2>5, <3>1 DEF CompleteUnbonding, UnbondingCompleted, Record
  <2> QED
    BY ZenonT(20), <2>1, <2>2, <2>3, <2>4, <2>5
<1> QED
  BY <1>1, <1>2, <1>3, <1>4

(* Stake calls and penalties: a jail or an exit writes the height of the block, *)
(* which lies after every freeze.                                            *)
LEMMA StakeStepSafe ==
  ASSUME Inductive, NEW v \in Validators, NEW b \in Stakes,
         \/ IncreaseStake(v, b) \/ Unstake(v, b)
         \/ Felony(v, b) \/ OcompMiss(v, b)
  PROVE  Inductive'
<1> USE DEF Inductive
<1>0. /\ val[v] \in Record /\ val \in [Validators -> Record]
      /\ height \in Nat \ {0} /\ b \in Nat /\ MinStake \in Nat
      /\ deadline \in [Validators -> Nat]
  <2>1. b \in Nat
    BY ValidatorSetAssumption DEF Stakes
  <2>2. MinStake \in Nat
    BY MinStakeAssumption
  <2> QED
    BY <2>1, <2>2 DEF TypeOK
<1>1. TypeOK'
  BY StakeStepType
<1>2. (frozen.at < height)'
  <2>1. UNCHANGED <<height, frozen>>
    BY Zenon DEF IncreaseStake, Unstake, Felony, OcompMiss
  <2> QED
    BY <2>1
<1>3. ASSUME NEW w \in Validators, w # v PROVE Safe(w)'
  <2>1. /\ val'[w] = val[w]
        /\ deadline'[w] = deadline[w]
    BY <1>0, <1>3 DEF IncreaseStake, Unstake, Felony, OcompMiss
  <2>2. UNCHANGED <<height, phase, admitted, committee, frozen>>
    BY ZenonT(20) DEF IncreaseStake, Unstake, Felony, OcompMiss
  <2> QED
    BY <2>1, <2>2, OthersSafe
<1>4. Safe(v)'
  <2> USE <1>0 DEF Safe, TargetAgrees, Funded, WindowOK
  <2>1. CASE IncreaseStake(v, b)
    <3>1. val'[v] = StakeIncreased(val[v], b)
      BY ZenonT(20), <2>1 DEF IncreaseStake
    <3> QED
      BY SMTT(30), Z3T(30), <2>1, <3>1 DEF IncreaseStake, StakeIncreased, CanIncreaseStake, Record
  <2>2. CASE Unstake(v, b)
    <3>1. val'[v] = Unstaked(val[v], b, height)
      BY ZenonT(20), <2>2 DEF Unstake
    <3> QED
      BY SMTT(30), Z3T(30), <2>2, <3>1 DEF Unstake, Unstaked, HasStakeRecord, Record
  <2>3. CASE Felony(v, b)
    <3>1. val'[v] = StakeSlashed(Punished(val[v], height), b, height)
      BY <2>3 DEF Felony
    <3>2. CASE val[v].lc = "Active"
      <4>1. /\ Punished(val[v], height).lc = "JailRetained"
            /\ Punished(val[v], height).deact = height
            /\ Punished(val[v], height).jailedAt = height
            /\ Punished(val[v], height) \in Record
        BY ZenonT(20), <3>2, MovesType DEF Punished, Record
      <4>2. val'[v] = [Punished(val[v], height) EXCEPT !.bonded = b]
        BY <3>1, <4>1 DEF StakeSlashed
      <4> QED
        BY SMTT(30), Z3T(30), <2>3, <3>2, <4>1, <4>2 DEF Felony, Record
    <3>3. CASE val[v].lc # "Active"
      <4>1. val'[v] = [val[v] EXCEPT !.bonded = b]
        BY ZenonT(20), <2>3, <3>1, <3>3
        DEF Felony, Punished, StakeSlashed, CanSuffer, CanBePunished
      <4> QED
        BY <2>3, <3>3, <4>1
        DEF Felony, CanSuffer, CanBePunished, HasStakeRecord, Record
    <3> QED
      BY ZenonT(20), <3>2, <3>3
  <2>4. CASE OcompMiss(v, b)
    <3>0. /\ UNCHANGED <<height, phase, admitted, committee, frozen>>
          /\ phase = "begin"
      BY <2>4 DEF OcompMiss
    <3>1. CASE WindowDue(v) /\ val[v].lc = "Active" /\ val[v].bonded < MinStake
      <4>1. /\ Resolved(v, val[v]) = Punished(val[v], height)
            /\ ResolvedDeadline(v) = 0
        BY ZenonT(20), <3>1 DEF Resolved, ResolvedDeadline
      <4>2. /\ Punished(val[v], height).lc = "JailRetained"
            /\ Punished(val[v], height).deact = height
            /\ Punished(val[v], height).jailedAt = height
            /\ Punished(val[v], height) \in Record
        BY ZenonT(20), <3>1, MovesType DEF Punished, Record
      <4>3. /\ val'[v] = [Punished(val[v], height) EXCEPT !.bonded = b]
            /\ deadline'[v] = 0
        BY <2>4, <4>1, <4>2 DEF OcompMiss
      <4> QED
        BY SMTT(30), Z3T(30), <3>0, <3>1, <4>2, <4>3 DEF Record
    <3>2. CASE ~(WindowDue(v) /\ val[v].lc = "Active" /\ val[v].bonded < MinStake)
      <4>1. Resolved(v, val[v]) = val[v]
        BY <3>2 DEF Resolved
      <4>2. val'[v] = [val[v] EXCEPT !.bonded = b]
        BY <2>4, <4>1 DEF OcompMiss
      <4>3. CASE val[v].lc = "Active" /\ ResolvedDeadline(v) = 0
        <5>1. deadline'[v] = height + RecoveryWindow /\ deadline'[v] > height
          BY SMTT(30), Z3T(30), <2>4, <4>1, <4>3, ValidatorSetAssumption DEF OcompMiss
        <5> QED
          BY <3>0, <4>2, <4>3, <5>1 DEF Record
      <4>4. CASE ~(val[v].lc = "Active" /\ ResolvedDeadline(v) = 0)
        <5>1. b = val[v].bonded /\ deadline'[v] = ResolvedDeadline(v)
          BY <2>4, <4>1, <4>4 DEF OcompMiss
        <5>2. val'[v] = val[v]
          BY <4>2, <5>1 DEF Record
        <5> QED
          BY <3>0, <4>4, <5>1, <5>2 DEF ResolvedDeadline
      <4> QED
        BY ZenonT(20), <4>3, <4>4
    <3> QED
      BY <3>1, <3>2
  <2> QED
    BY ZenonT(20), <2>1, <2>2, <2>3, <2>4
<1> QED
  BY <1>1, <1>2, <1>3, <1>4

(* The lease sweep and the recovery sweep of one cycle tick. *)
LEMMA CycleTickSafe ==
  ASSUME Inductive, NEW S \in SUBSET Validators, CycleTick(S)
  PROVE  Inductive'
<1> USE DEF Inductive
<1>0. /\ val \in [Validators -> Record]
      /\ height \in Nat \ {0}
      /\ deadline \in [Validators -> Nat]
  BY DEF TypeOK
<1>1. TypeOK'
  BY BlockStepType
<1>2. UNCHANGED <<height, admitted, committee, frozen>> /\ phase' = "boundary"
  BY ZenonT(20) DEF CycleTick
<1>3. ASSUME NEW v \in Validators PROVE Safe(v)'
  <2> USE <1>0 DEF Safe, TargetAgrees, Funded, WindowOK
  <2>0. /\ val[v] \in Record
        /\ deadline[v] \in Nat
        /\ MinStake \in Nat
    BY ZenonT(20), MinStakeAssumption
  <2>1. /\ val'[v] = Resolved(v, TeeEnforced(S)[v])
        /\ deadline'[v] = ResolvedDeadline(v)
    BY ZenonT(20) DEF CycleTick
  <2>2. deadline'[v] # 0 => deadline'[v] = deadline[v] /\ deadline[v] > height
    BY <2>0, <2>1 DEF ResolvedDeadline, WindowDue
  <2>3. CASE v \in S
    <3>1. val[v].lc = "Active"
      BY <2>3 DEF CycleTick
    <3>2. TeeEnforced(S)[v] = [val[v] EXCEPT !.lc = "JailRetained",
                                             !.deact = height, !.jailedAt = height]
      BY <2>3 DEF TeeEnforced, TeeJailed
    <3>3. TeeEnforced(S)[v].lc = "JailRetained"
      BY <2>0, <3>2 DEF Record
    <3>4. val'[v] = TeeEnforced(S)[v]
      BY ZenonT(20), <2>1, <3>3 DEF Resolved
    <3> QED
      BY SMTT(30), Z3T(30), <1>2, <2>0, <2>2, <3>1, <3>2, <3>4 DEF Record
  <2>4. CASE v \notin S
    <3>1. TeeEnforced(S)[v] = val[v]
      BY ZenonT(20), <2>4 DEF TeeEnforced
    <3>2. CASE WindowDue(v) /\ val[v].lc = "Active" /\ val[v].bonded < MinStake
      <4>1. val'[v] = Punished(val[v], height)
        BY <2>1, <3>1, <3>2 DEF Resolved
      <4>2. /\ val'[v].lc = "JailRetained"
            /\ val'[v].deact = height
            /\ val'[v].jailedAt = height
            /\ val'[v].bonded = val[v].bonded
        BY ZenonT(20), <2>0, <3>2, <4>1 DEF Punished, Record
      <4> QED
        BY SMTT(30), Z3T(30), <1>2, <2>0, <2>2, <3>2, <4>2
    <3>3. CASE ~(WindowDue(v) /\ val[v].lc = "Active" /\ val[v].bonded < MinStake)
      <4>1. val'[v] = val[v]
        BY ZenonT(20), <2>1, <3>1, <3>3 DEF Resolved
      <4>2. val[v].lc = "Active" /\ val[v].bonded < MinStake => deadline'[v] # 0
        BY <2>1, <3>3 DEF ResolvedDeadline
      <4> QED
        BY ZenonT(20), <1>2, <2>0, <2>2, <4>1, <4>2
    <3> QED
      BY ZenonT(20), <3>2, <3>3
  <2> QED
    BY ZenonT(20), <2>3, <2>4
<1> QED
  BY <1>1, <1>2, <1>3

(* An accepted boundary makes its target the committee. *)
LEMMA BoundarySafe ==
  ASSUME Inductive, NEW S \in SUBSET Validators, BoundaryOutcome(S)
  PROVE  Inductive'
<1> USE DEF Inductive
<1>0. /\ val \in [Validators -> Record]
      /\ height \in Nat \ {0}
      /\ deadline \in [Validators -> Nat]
  BY DEF TypeOK
<1>1. TypeOK'
  BY BlockStepType
<1>2. /\ UNCHANGED <<height, admitted, deadline>>
      /\ phase = "boundary" /\ phase' = "user"
      /\ frozen.at # 0
      /\ frozen' = NoTarget
      /\ committee' = frozen.members
  BY DEF BoundaryOutcome, BoundaryDue
<1>3. ASSUME NEW v \in Validators PROVE Safe(v)'
  <2>0. val[v] \in Record /\ deadline[v] \in Nat /\ MinStake \in Nat
    BY ZenonT(20), <1>0, MinStakeAssumption
  <2>1. /\ BoundaryAccepts(val[v], v \in frozen.members, frozen.at, v \in admitted)
        /\ v \in frozen.members => v \in admitted
    BY DEF BoundaryOutcome, BoundaryAccepted
  <2>2. v \in frozen.members
          <=> IsParticipant(BoundaryMoved(val[v], v \in frozen.members))
    BY ZenonT(20) DEF BoundaryOutcome, BoundaryAccepted, Participants
  <2>3. CASE v \in S
    <3>1. val[v].lc = "Inactive" /\ deadline[v] = 0
      BY ZenonT(20), <2>3 DEF BoundaryOutcome, CleanupSets, CanBeCleaned
    <3>2. val'[v] = AbsentRecord
      BY <2>3 DEF BoundaryOutcome
    <3>3. v \notin frozen.members
      BY ZenonT(20), <2>1, <3>1 DEF BoundaryAccepts
    <3> QED
      BY <1>0, <1>2, <2>0, <3>1, <3>2, <3>3
      DEF Safe, Funded, WindowOK, AbsentRecord, NoTarget
  <2>4. CASE v \notin S
    <3>1. val'[v] = BoundaryMoved(val[v], v \in frozen.members)
      BY <2>4 DEF BoundaryOutcome
    <3>2. Safe(v)
      OBVIOUS
    <3> QED
      BY <1>0, <1>2, <2>0, <2>1, <2>2, <3>1, <3>2
      DEF Safe, TargetAgrees, Funded, WindowOK, NoTarget, BoundaryMoved,
          BoundaryAccepts, Record
  <2> QED
    BY <2>3, <2>4
<1>4. (frozen.at < height)'
  BY <1>0, <1>2 DEF NoTarget
<1> QED
  BY <1>1, <1>3, <1>4

(* The target is read from the state that a block ends with, so no exit or     *)
(* jail of that block is later than the freeze.                              *)
LEMMA NewBlockSafe ==
  ASSUME Inductive, NEW S \in SUBSET Validators, NewBlock(S)
  PROVE  Inductive'
<1> USE DEF Inductive
<1>0. /\ val \in [Validators -> Record]
      /\ height \in Nat \ {0}
      /\ frozen \in [at : Nat, members : SUBSET Validators]
  BY DEF TypeOK
<1>1. TypeOK'
  BY BlockStepType
<1>2. /\ UNCHANGED <<admitted, deadline, committee>>
      /\ height' = height + 1
      /\ phase' = "begin"
  BY DEF NewBlock
<1>3. (frozen.at < height)'
  BY SMTT(30), Z3T(30), <1>0, <1>2 DEF NewBlock, FreezeAtEndOfBlock
<1>4. ASSUME NEW v \in Validators PROVE Safe(v)'
  <2>0. val[v] \in Record /\ MinStake \in Nat
    BY <1>0, MinStakeAssumption
  <2>1. Safe(v)
    OBVIOUS
  <2>2. \/ val'[v] = val[v]
        \/ /\ val[v].lc = "Unbonding"
           /\ val[v].bonded = 0
           /\ val'[v] = UnbondingCompleted(val[v])
        \/ /\ val[v].lc = "Unbonding"
           /\ val'[v] = [val[v] EXCEPT !.bonded = 0]
    BY DEF NewBlock
  <2>3. /\ val'[v].deact = val[v].deact
        /\ val'[v].jailedAt = val[v].jailedAt
        /\ \/ val'[v].lc = val[v].lc
           \/ /\ val[v].lc = "Unbonding"
              /\ val'[v].lc = "Inactive" /\ val'[v].bonded = 0
        /\ val[v].lc # "Unbonding" => val'[v] = val[v]
    <3>1. CASE val'[v] = val[v]
      BY <3>1
    <3>2. CASE /\ val[v].lc = "Unbonding"
               /\ val[v].bonded = 0
               /\ val'[v] = UnbondingCompleted(val[v])
      BY <2>0, <3>2 DEF UnbondingCompleted, Record
    <3>3. CASE val[v].lc = "Unbonding" /\ val'[v] = [val[v] EXCEPT !.bonded = 0]
      BY <2>0, <3>3 DEF Record
    <3> QED
      BY <2>2, <3>1, <3>2, <3>3
  <2>4. \/ frozen' = frozen
        \/ /\ frozen'.at = height
           /\ frozen'.members = ReshareTarget
    BY DEF NewBlock, FreezeAtEndOfBlock
  <2>5. (frozen.at # 0 => TargetAgrees(v))'
    <3>1. CASE frozen' = frozen
      BY ZenonT(20), <1>2, <2>1, <2>3, <3>1 DEF Safe, TargetAgrees
    <3>2. CASE frozen'.at = height /\ frozen'.members = ReshareTarget
      <4>1. v \in frozen'.members
              <=> \/ val[v].lc = "Active"
                  \/ val[v].lc = "Joining" /\ v \in admitted
        BY ZenonT(20), <3>2 DEF ReshareTarget
      <4>2. /\ val[v].deact <= height
            /\ IsJailed(val[v]) => val[v].jailedAt = val[v].deact
            /\ v \in committee <=> IsParticipant(val[v])
            /\ IsParticipant(val[v]) => v \in admitted
        BY <2>1 DEF Safe
      <4>3. ~(val'[v].deact > frozen'.at) /\ val[v].deact \in Nat
        BY <1>0, <2>0, <2>3, <3>2, <4>2 DEF Record
      <4>4. val'[v].lc = "JailRetained" => ~(val'[v].jailedAt > frozen'.at)
        BY ZenonT(20), <2>3, <4>2, <4>3
      <4> QED
        BY <1>2, <2>3, <4>1, <4>2, <4>3, <4>4 DEF TargetAgrees
    <3> QED
      BY ZenonT(20), <2>4, <3>1, <3>2
  <2>6. (IsCanonical(val[v]) /\ val[v].deact <= height)'
    <3>1. IsCanonical(val[v]) /\ val[v].deact <= height
      BY ZenonT(20), <2>1 DEF Safe
    <3> QED
      BY SMTT(30), Z3T(30), <1>0, <1>2, <2>0, <2>3, <3>1 DEF Record
  <2>7. /\ (v \in committee <=> IsParticipant(val[v]))'
        /\ (IsParticipant(val[v]) \/ val[v].lc = "Joining" => v \in admitted)'
    BY ZenonT(20), <1>2, <2>1, <2>3 DEF Safe
  <2>8. Funded(v)' /\ WindowOK(v)'
    BY ZenonT(20), <1>2, <2>1, <2>3 DEF Safe, Funded, WindowOK
  <2> QED
    BY ZenonT(20), <2>5, <2>6, <2>7, <2>8 DEF Safe
<1> QED
  BY <1>1, <1>3, <1>4

(* A block without a boundary. *)
LEMMA NoBoundarySafe ==
  ASSUME Inductive, NoBoundary
  PROVE  Inductive'
<1>1. TypeOK'
  BY BlockStepType DEF Inductive
<1> QED
  BY <1>1 DEF Inductive, NoBoundary, Safe, TargetAgrees, Funded, WindowOK

(* Every reachable state is safe for every validator. *)
THEOREM InductiveHolds == Spec => []Inductive
<1>1. Inductive /\ [Next]_vars => Inductive'
  <2> SUFFICES ASSUME Inductive, [Next]_vars PROVE Inductive'
    BY ZenonT(20)
  <2>1. CASE UNCHANGED vars
    BY <2>1 DEF vars, Inductive, TypeOK, Safe, TargetAgrees, Funded, WindowOK
  <2> QED
    BY <2>1, UserStepSafe, StakeStepSafe, CycleTickSafe, BoundarySafe,
       NewBlockSafe, NoBoundarySafe DEF Next, AtBound
<1> QED
  BY <1>1, InitSafe, PTL DEF Spec

-----------------------------------------------------------------------------
(* The signal that a reshare is wanted. *)

USE DEF AwaitsBoundary

(* No step but a boundary lowers the signal. *)
LEMMA PendingKept ==
  ASSUME pending, [Next]_vars, \A S \in SUBSET Validators : ~BoundaryOutcome(S)
  PROVE  pending'
  BY Zenon DEF Next, vars, RegisterValidator, ConfirmReady, Deactivate, Unjail,
     CompleteUnbonding, IncreaseStake, Unstake, Felony, OcompMiss, CycleTick,
     NoBoundary, NewBlock, AtBound

(* A validator that starts to wait raises it. *)
LEMMA WaiterSignals ==
  ASSUME TypeOK, Next, NEW w \in Validators,
         AwaitsBoundary(val[w])', ~AwaitsBoundary(val[w]),
         \A S \in SUBSET Validators : ~BoundaryOutcome(S)
  PROVE  pending'
<1>0. val \in [Validators -> Record] /\ val[w] \in Record
  BY DEF TypeOK
<1>1. val'[w] # val[w] /\ val'[w].lc # val[w].lc
  OBVIOUS
<1>2. ASSUME NEW v \in Validators, RegisterValidator(v) PROVE pending'
  BY <1>2 DEF RegisterValidator
<1>3. ASSUME NEW v \in Validators, ConfirmReady(v) \/ Deactivate(v) \/ Unjail(v)
      PROVE  pending'
  BY <1>3 DEF ConfirmReady, Deactivate, Unjail
<1>4. ASSUME NEW v \in Validators, CompleteUnbonding(v) PROVE pending'
  <2>1. v = w
    BY <1>0, <1>1, <1>4 DEF CompleteUnbonding
  <2> QED
    BY <1>0, <1>4, <2>1 DEF CompleteUnbonding, UnbondingCompleted, Record
<1>5. ASSUME NEW v \in Validators, NEW b \in Stakes, IncreaseStake(v, b)
      PROVE  pending'
  <2>1. v = w /\ val'[w] = StakeIncreased(val[w], b)
    BY <1>0, <1>1, <1>5 DEF IncreaseStake
  <2> QED
    BY ZenonT(20), <1>1, <1>5, <2>1 DEF IncreaseStake
<1>6. ASSUME NEW v \in Validators, NEW b \in Stakes, Unstake(v, b)
      PROVE  pending'
  <2>1. v = w /\ val'[w] = Unstaked(val[w], b, height)
    BY <1>0, <1>1, <1>6 DEF Unstake
  <2>2. val[w].lc # "Jail"
    <3>1. SUFFICES ASSUME val[w].lc = "Jail" PROVE FALSE
      OBVIOUS
    <3>2. val'[w].lc \in {"Jail", "Unbonding"}
      BY <1>0, <2>1, <3>1 DEF Unstaked, Record
    <3> QED
      BY <3>2
  <2>3. UnstakeChangesSet(val[w], b, height)
    BY <1>1, <2>1, <2>2 DEF UnstakeChangesSet
  <2> QED
    BY ZenonT(20), <1>6, <2>1, <2>3 DEF Unstake
<1>7. ASSUME NEW v \in Validators, NEW b \in Stakes, Felony(v, b)
      PROVE  pending'
  <2>1. v = w /\ val'[w] = StakeSlashed(Punished(val[w], height), b, height)
    BY <1>0, <1>1, <1>7 DEF Felony
  <2>2. val[w].lc = "Active"
    <3>1. SUFFICES ASSUME val[w].lc # "Active" PROVE FALSE
      OBVIOUS
    <3>2. Punished(val[w], height) = val[w]
      BY <3>1 DEF Punished
    <3>3. val'[w].lc = val[w].lc \/ val'[w].lc = "WaitingForStake"
      BY <1>0, <2>1, <3>1, <3>2 DEF StakeSlashed, Record
    <3> QED
      BY <1>1, <3>3
  <2> QED
    BY ZenonT(20), <1>7, <2>1, <2>2 DEF Felony
<1>8. ASSUME NEW v \in Validators, NEW b \in Stakes, OcompMiss(v, b)
      PROVE  pending'
  <2>1. v = w /\ val'[w] = [Resolved(w, val[w]) EXCEPT !.bonded = b]
    BY ZenonT(20), <1>0, <1>1, <1>8 DEF OcompMiss
  <2>2. Resolved(w, val[w]) \in Record
    BY ZenonT(20), <1>0, MovesType DEF Resolved, TypeOK
  <2>3. Resolved(w, val[w]).lc # val[w].lc
    BY ZenonT(20), <1>1, <2>1, <2>2 DEF Record
  <2> QED
    BY ZenonT(20), <1>8, <2>1, <2>3 DEF OcompMiss
<1>9. ASSUME NEW S \in SUBSET Validators, CycleTick(S) PROVE pending'
  BY ZenonT(20), <1>1, <1>9 DEF CycleTick
<1>10. ASSUME NEW S \in SUBSET Validators, NewBlock(S) PROVE pending'
  <2>1. val[w].lc = "Unbonding" /\ val'[w].lc \in {"Unbonding", "Inactive"}
    BY <1>0, <1>1, <1>10 DEF NewBlock, UnbondingCompleted, Record
  <2> QED
    BY <2>1
<1>11. ASSUME NoBoundary \/ AtBound PROVE pending'
  BY <1>1, <1>11 DEF NoBoundary, AtBound, vars
<1> QED
  BY ZenonT(20), <1>2, <1>3, <1>4, <1>5, <1>6, <1>7, <1>8, <1>9, <1>10, <1>11 DEF Next

(* A boundary computes the signal afresh, before its cleanup, which removes     *)
(* no waiter.                                                                *)
LEMMA BoundarySignals ==
  ASSUME NEW S \in SUBSET Validators, BoundaryOutcome(S),
         NEW w \in Validators, AwaitsBoundary(val[w])'
  PROVE  pending'
<1>1. CASE w \in S
  BY ZenonT(20), <1>1 DEF BoundaryOutcome, AbsentRecord
<1>2. CASE w \notin S
  <2>1. val'[w] = BoundaryMoved(val[w], w \in frozen.members)
    BY <1>2 DEF BoundaryOutcome
  <2> QED
    BY <2>1 DEF BoundaryOutcome
<1> QED
  BY ZenonT(20), <1>1, <1>2

(* pending_set_change is raised whenever a validator waits for a boundary. *)
THEOREM PendingSafe == Spec => []PendingCoversWaiters
<1>1. Init => PendingCoversWaiters
  <2> SUFFICES ASSUME Init, NEW v \in Validators PROVE ~AwaitsBoundary(val[v])
    BY ZenonT(20) DEF PendingCoversWaiters
  <2>1. PICK b \in [Founders -> MinStake..MaxStake] :
        val = [w \in Validators |->
                 IF w \in Founders
                 THEN [AbsentRecord EXCEPT !.lc = "Active", !.bonded = b[w]]
                 ELSE AbsentRecord]
    BY DEF Init, GenesisRecords
  <2>2. val[v].lc \in {"Active", "Absent"}
    BY <2>1 DEF AbsentRecord
  <2> QED
    BY <2>2
<1>2. TypeOK /\ PendingCoversWaiters /\ [Next]_vars => PendingCoversWaiters'
  <2> SUFFICES ASSUME TypeOK, PendingCoversWaiters, [Next]_vars,
                      NEW w \in Validators, AwaitsBoundary(val[w])'
               PROVE  pending'
    BY DEF PendingCoversWaiters
  <2>1. CASE \E S \in SUBSET Validators : BoundaryOutcome(S)
    BY <2>1, BoundarySignals
  <2>2. CASE /\ \A S \in SUBSET Validators : ~BoundaryOutcome(S)
             /\ AwaitsBoundary(val[w])
    BY <2>2, PendingKept DEF PendingCoversWaiters
  <2>3. CASE /\ \A S \in SUBSET Validators : ~BoundaryOutcome(S)
             /\ ~AwaitsBoundary(val[w])
    <3>1. Next
      BY <2>3 DEF vars
    <3> QED
      BY <2>3, <3>1, WaiterSignals
  <2> QED
    BY <2>1, <2>2, <2>3
<1> QED
  BY <1>1, <1>2, TypeCorrect, PTL DEF Spec

-----------------------------------------------------------------------------
(* The invariants of the run. *)

(* The adapter can decode every reachable record. *)
THEOREM CanonicalSafe == Spec => []RecordsCanonical
<1>1. Inductive => RecordsCanonical
  BY DEF Inductive, Safe, RecordsCanonical
<1> QED
  BY <1>1, InductiveHolds, PTL

(* The certified committee is the set of validators that hold a share. *)
THEOREM CommitteeSafe == Spec => []CommitteeHoldsShares
<1>1. Inductive => CommitteeHoldsShares
  BY ZenonT(20) DEF Inductive, Safe, TypeOK, CommitteeHoldsShares, Participants
<1> QED
  BY <1>1, InductiveHolds, PTL

(* A frozen target agrees with the heights at which its members left. *)
THEOREM FrozenTargetSafe == Spec => []FrozenTargetConsistent
<1>1. Inductive => FrozenTargetConsistent
  BY ZenonT(20) DEF Inductive, Safe, TargetAgrees, FrozenTargetConsistent
<1> QED
  BY <1>1, InductiveHolds, PTL

(* Only an open recovery window keeps an underfunded validator active. *)
THEOREM FundingSafe == Spec => []UnderfundedOnlyInRecovery
<1>1. Inductive => UnderfundedOnlyInRecovery
  BY ZenonT(20) DEF Inductive, Safe, Funded, UnderfundedOnlyInRecovery
<1> QED
  BY <1>1, InductiveHolds, PTL

(* No recovery window outlives the cycle tick of its deadline. *)
THEOREM WindowsSafe == Spec => []WindowsResolvedInTime
<1>1. Inductive => WindowsResolvedInTime
  BY DEF Inductive, Safe, WindowOK, WindowsResolvedInTime
<1> QED
  BY <1>1, InductiveHolds, PTL

=============================================================================
