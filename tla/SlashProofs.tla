----------------------------- MODULE SlashProofs -----------------------------
(***************************************************************************)
(* Liveness felonies hit active validators only, for every committee,        *)
(* threshold above the window length, and epoch length.                      *)
(*                                                                         *)
(* SlashIndicator is shown to implement ValidatorSet, whose invariants are    *)
(* then available.  What remains is a bound on the counters: at most one      *)
(* window closes in a block and a boundary resets them, so a member of the    *)
(* previous committee has fewer than K misses while its windows close.        *)
(***************************************************************************)
EXTENDS SlashIndicator, ValidatorSetProofs

(* Every step of SlashIndicator is a step of ValidatorSet or leaves it alone. *)
LEMMA StepImplements ==
  ASSUME [SlashNext]_<<vars, slashVars>>
  PROVE  [Next]_vars
<1>1. Actors \subseteq Validators
  BY SlashAssumption
<1>2. Evidence \subseteq [no : Nat, offender : Validators]
  BY SlashAssumption
<1>3. ASSUME NEW v \in Validators, JailAndSlash(v)
      PROVE  Next
  BY <1>3 DEF JailAndSlash, Next
<1>4. CASE \E c \in BOOLEAN : PreExecution(c)
  BY <1>4 DEF PreExecution
<1>5. CASE \E v \in Actors : SlashProposer(v) \/ SlashVoter(v)
  BY <1>1, <1>3, <1>5 DEF SlashProposer, SlashVoter
<1>6. CASE ParentAccounted
  BY <1>6 DEF ParentAccounted
<1>7. CASE WindowClosed
  BY <1>7 DEF WindowClosed
<1>8. CASE \E e \in Evidence : SubmitEvidence(e)
  <2>1. PICK e \in Evidence : SubmitEvidence(e)
    BY <1>8
  <2>2. e.offender \in Validators
    BY <1>2
  <2>3. JailAndSlash(e.offender)
    BY <2>1 DEF SubmitEvidence
  <2> QED
    BY <1>3, <2>2, <2>3
<1>9. CASE LifecycleStep
  BY <1>1, <1>9 DEF LifecycleStep, Boundary, Next
<1>10. CASE \E drained \in SUBSET Validators : StartBlock(drained)
  BY <1>10 DEF StartBlock, Next
<1>11. CASE UNCHANGED <<vars, slashVars>>
  BY <1>11
<1> QED
  BY <1>4, <1>5, <1>6, <1>7, <1>8, <1>9, <1>10, <1>11 DEF SlashNext

(* The miss counters and felonies of slashindicator drive the validator set     *)
(* within its specification: what is proved of ValidatorSet holds here.         *)
THEOREM SlashImplementsSet == SlashSpec => Spec
<1>1. SlashInit => Init
  BY DEF SlashInit
<1> QED
  BY <1>1, StepImplements, PTL DEF SlashSpec, Spec

-----------------------------------------------------------------------------
(* The invariant *)

(* The types of the counters. *)
SlashTyped ==
  /\ stage \in Stages
  /\ carries \in BOOLEAN
  /\ voterMisses \in [Validators -> Nat]
  /\ proposerMisses \in [Validators -> Nat]
  /\ signers \in [1..MaxHeight -> SUBSET Validators]

(* Where the block is, and that a boundary opens an epoch with its own block. *)
Progress ==
  /\ lastActivation < height
  /\ phase = "begin" => lastActivation + 1 < height /\ height <= MaxHeight
  /\ stage # "done" => phase = "begin"
  /\ stage = "pre" => ~carries

(* The blocks of the epoch were certified by its committee. *)
EpochSigners ==
  \A b \in 1..MaxHeight :
    /\ b > lastActivation => signers[b] \subseteq committee
    /\ b >= height => signers[b] = {}

(* The window that closes in this block has not been held against v yet. *)
NotYet(v) == stage = "parent" \/ (stage = "late" /\ v \notin absent)

(* At most one miss per block since the boundary; none yet in a block that      *)
(* carries one, and no stale count of an address that was removed.              *)
Counts(v) ==
  /\ voterMisses[v] <= height - lastActivation
  /\ stage = "pre" \/ NotYet(v) => voterMisses[v] < height - lastActivation
  /\ val[v].lc = "Absent" => voterMisses[v] <= 1
  /\ carries => voterMisses[v] <= 1
  /\ carries /\ val[v].lc # "Absent" /\ NotYet(v) => voterMisses[v] = 0
  /\ carries /\ val[v].lc # "Absent" /\ phase # "user" /\ v \notin committee =>
       proposerMisses[v] = 0

(* An active validator has not reached a threshold since its counters were  *)
(* reset.                                                                   *)
Below(v) ==
  val[v].lc = "Active" => /\ voterMisses[v] < VoterThreshold
                          /\ proposerMisses[v] < ProposerThreshold

(* The inductive invariant of the counters, on top of that of the set. *)
SlashInductive ==
  /\ SlashTyped
  /\ Progress
  /\ EpochSigners
  /\ \A v \in Validators : Counts(v)
  /\ \A v \in Validators : Below(v)

-----------------------------------------------------------------------------
(* What the steps of ValidatorSet do to the records *)

(* What is needed of the invariant of ValidatorSet. *)
LEMMA SetFacts ==
  ASSUME Inductive
  PROVE  /\ height \in Nat \ {0}
         /\ lastActivation \in Nat
         /\ val \in [Validators -> Record]
         /\ deadline \in [Validators -> Nat]
         /\ phase \in Phases
         /\ committee \subseteq Validators
         /\ \A v \in Validators :
              v \in committee <=> val[v].lc \in {"Active", "JailRetained", "Exiting"}
BY DEF Inductive, TypeOK, Safe, IsParticipant

(* No record appears or disappears, and none becomes active. *)
Calm(w) ==
  /\ val'[w].lc = "Active" => val[w].lc = "Active"
  /\ val'[w].lc = "Absent" <=> val[w].lc = "Absent"

(* A felony leaves the convicted validator inactive. *)
LEMMA FelonyMoves ==
  ASSUME Inductive, NEW v \in Validators, JailAndSlash(v)
  PROVE  /\ UNCHANGED <<height, phase, committee, lastActivation>>
         /\ val'[v].lc # "Active"
         /\ \A w \in Validators : Calm(w)
<1>0. PICK b \in Stakes : Felony(v, b)
  BY DEF JailAndSlash
<1>1. val \in [Validators -> Record] /\ val[v] \in Record
  BY SetFacts
<1>2. UNCHANGED <<height, phase, committee, lastActivation>>
  BY <1>0 DEF Felony
<1>3. val'[v] = StakeSlashed(Punished(val[v], height), b, height)
  BY <1>0, <1>1 DEF Felony
<1>4. \A w \in Validators : w # v => val'[w] = val[w]
  BY <1>0, <1>1 DEF Felony
<1>5. CanSuffer(val[v])
  BY <1>0 DEF Felony
<1>6. CASE val[v].lc = "Active"
  <2>1. Punished(val[v], height).lc = "JailRetained"
    BY <1>1, <1>6 DEF Punished, Record
  <2>2. StakeSlashed(Punished(val[v], height), b, height)
          = [Punished(val[v], height) EXCEPT !.bonded = b]
    BY <2>1 DEF StakeSlashed
  <2>3. Punished(val[v], height) =
          [val[v] EXCEPT !.lc = "JailRetained", !.deact = height, !.jailedAt = height,
                         !.slashes = @ + 1]
    BY <1>6 DEF Punished
  <2>4. val'[v].lc = "JailRetained"
    BY <1>1, <1>3, <2>2, <2>3 DEF Record
  <2> QED
    BY <1>2, <1>4, <1>6, <2>4 DEF Calm
<1>7. CASE val[v].lc # "Active"
  <2>1. Punished(val[v], height) = val[v]
    BY <1>7 DEF Punished
  <2>2. val[v].lc \notin {"WaitingForReadiness", "Joining", "Active", "Absent"}
    BY <1>5, <1>7 DEF CanSuffer, CanBePunished, HasStakeRecord
  <2>3. StakeSlashed(val[v], b, height) = [val[v] EXCEPT !.bonded = b]
    BY <2>2 DEF StakeSlashed
  <2>4. val'[v].lc = val[v].lc
    BY <1>1, <1>3, <2>1, <2>3 DEF Record
  <2> QED
    BY <1>2, <1>4, <2>2, <2>4 DEF Calm
<1> QED
  BY <1>6, <1>7

(* User transactions: none makes a record active or removes one. *)
LEMMA UserMoves ==
  ASSUME Inductive, NEW v \in Validators,
         \/ RegisterValidator(v) \/ ConfirmReady(v) \/ Deactivate(v)
         \/ Unjail(v) \/ CompleteUnbonding(v)
         \/ \E b \in Stakes : IncreaseStake(v, b) \/ Unstake(v, b)
  PROVE  /\ UNCHANGED <<height, phase, committee, lastActivation>>
         /\ phase = "user"
         /\ \A w \in Validators :
              /\ val'[w].lc = "Active" => val[w].lc = "Active"
              /\ val'[w].lc = "Absent" => val[w].lc = "Absent"
<1>1. val \in [Validators -> Record] /\ val[v] \in Record
  BY SetFacts
<1>2. /\ UNCHANGED <<height, phase, committee, lastActivation>>
      /\ phase = "user"
      /\ \A w \in Validators : w # v => val'[w] = val[w]
  BY ZenonT(20), <1>1 DEF RegisterValidator, ConfirmReady, Deactivate, Unjail, CompleteUnbonding,
              IncreaseStake, Unstake
<1>3. /\ val'[v].lc = "Active" => val[v].lc = "Active"
      /\ val'[v].lc = "Absent" => val[v].lc = "Absent"
  <2>1. CASE RegisterValidator(v)
    BY <1>1, <2>1 DEF RegisterValidator, Registered, AbsentRecord
  <2>2. CASE ConfirmReady(v)
    BY <1>1, <2>2 DEF ConfirmReady, Record
  <2>3. CASE Deactivate(v)
    BY <1>1, <2>3 DEF Deactivate, ExitBegun, Record
  <2>4. CASE Unjail(v)
    BY <1>1, <2>4 DEF Unjail, Unjailed, Record
  <2>5. CASE CompleteUnbonding(v)
    BY <1>1, <2>5 DEF CompleteUnbonding, UnbondingCompleted, Record
  <2>6. ASSUME NEW b \in Stakes, IncreaseStake(v, b)
        PROVE  /\ val'[v].lc = "Active" => val[v].lc = "Active"
               /\ val'[v].lc = "Absent" => val[v].lc = "Absent"
    <3>1. val'[v] = StakeIncreased(val[v], b)
      BY <1>1, <2>6 DEF IncreaseStake
    <3>2. CASE val[v].lc = "WaitingForStake" /\ b >= MinStake
      BY <1>1, <3>1, <3>2 DEF StakeIncreased, Record
    <3>3. CASE ~(val[v].lc = "WaitingForStake" /\ b >= MinStake)
      BY <1>1, <3>1, <3>3 DEF StakeIncreased, Record
    <3> QED
      BY <3>2, <3>3
  <2>7. ASSUME NEW b \in Stakes, Unstake(v, b)
        PROVE  /\ val'[v].lc = "Active" => val[v].lc = "Active"
               /\ val'[v].lc = "Absent" => val[v].lc = "Absent"
    <3>1. val'[v] = Unstaked(val[v], b, height)
      BY <1>1, <2>7 DEF Unstake
    <3> QED
      BY <1>1, <3>1 DEF Unstaked, Record
  <2> QED
    BY <2>1, <2>2, <2>3, <2>4, <2>5, <2>6, <2>7
<1> QED
  BY <1>2, <1>3

(* Resolving a recovery window at most jails an active validator. *)
LEMMA ResolvedMoves ==
  ASSUME NEW v \in Validators, NEW r \in Record
  PROVE  /\ Resolved(v, r).lc = "Active" => r.lc = "Active"
         /\ Resolved(v, r).lc = "Absent" <=> r.lc = "Absent"
<1>1. CASE WindowDue(v) /\ r.lc = "Active" /\ r.bonded < MinStake
  <2>1. Resolved(v, r) = [r EXCEPT !.lc = "JailRetained", !.deact = height,
                                   !.jailedAt = height, !.slashes = @ + 1]
    BY <1>1 DEF Resolved, Punished
  <2> QED
    BY <1>1, <2>1 DEF Record
<1>2. CASE ~(WindowDue(v) /\ r.lc = "Active" /\ r.bonded < MinStake)
  BY <1>2 DEF Resolved
<1> QED
  BY <1>1, <1>2

(* OCOMP misses and the sweeps of the cycle tick. *)
LEMMA BeginMoves ==
  ASSUME Inductive,
         \/ \E v \in Validators, b \in Stakes : OcompMiss(v, b)
         \/ \E S \in SUBSET Validators : CycleTick(S)
  PROVE  /\ UNCHANGED <<height, committee, lastActivation>>
         /\ phase = "begin"
         /\ phase' \in {"begin", "boundary"}
         /\ \A w \in Validators : Calm(w)
<1>0. val \in [Validators -> Record] /\ deadline \in [Validators -> Nat]
  BY SetFacts
<1>1. ASSUME NEW v \in Validators, NEW b \in Stakes, OcompMiss(v, b)
      PROVE  /\ UNCHANGED <<height, committee, lastActivation>>
             /\ phase = "begin"
             /\ phase' \in {"begin", "boundary"}
             /\ \A w \in Validators : Calm(w)
  <2>0. val[v] \in Record /\ height \in Nat
    BY <1>0, SetFacts
  <2>1. /\ UNCHANGED <<height, committee, lastActivation>>
        /\ phase = "begin" /\ phase' = phase
        /\ val' = [val EXCEPT ![v] = [Resolved(v, val[v]) EXCEPT !.bonded = b]]
    BY <1>1 DEF OcompMiss
  <2>2. Resolved(v, val[v]) \in Record
    BY <2>0, MovesType DEF Resolved
  <2>3. val'[v].lc = Resolved(v, val[v]).lc
    BY <1>0, <2>1, <2>2 DEF Record
  <2>4. Calm(v)
    BY <2>0, <2>3, ResolvedMoves DEF Calm
  <2>5. \A w \in Validators : w # v => Calm(w)
    BY <1>0, <2>1 DEF Calm
  <2> QED
    BY <2>1, <2>4, <2>5
<1>2. ASSUME NEW S \in SUBSET Validators, CycleTick(S)
      PROVE  /\ UNCHANGED <<height, committee, lastActivation>>
             /\ phase = "begin"
             /\ phase' \in {"begin", "boundary"}
             /\ \A w \in Validators : Calm(w)
  <2>0. height \in Nat
    BY SetFacts
  <2>1. /\ UNCHANGED <<height, committee, lastActivation>>
        /\ phase = "begin" /\ phase' = "boundary"
        /\ S \subseteq {v \in Validators : val[v].lc = "Active"}
        /\ val' = [v \in Validators |-> Resolved(v, TeeEnforced(S)[v])]
    BY <1>2 DEF CycleTick
  <2>2. ASSUME NEW w \in Validators
        PROVE  Calm(w)
    <3>1. val[w] \in Record
      BY <1>0
    <3>2. val'[w] = Resolved(w, TeeEnforced(S)[w])
      BY <2>1
    <3>3. CASE w \in S
      <4>1. TeeEnforced(S)[w] = [val[w] EXCEPT !.lc = "JailRetained", !.deact = height,
                                               !.jailedAt = height]
        BY <3>3 DEF TeeEnforced, TeeJailed
      <4>2. TeeEnforced(S)[w] \in Record /\ TeeEnforced(S)[w].lc = "JailRetained"
        BY ZenonT(20), <2>0, <3>1, <4>1 DEF Record, Variants
      <4>3. val[w].lc = "Active"
        BY <2>1, <3>3
      <4> QED
        BY <3>2, <4>2, <4>3, ResolvedMoves DEF Calm
    <3>4. CASE w \notin S
      <4>1. TeeEnforced(S)[w] = val[w]
        BY <3>4 DEF TeeEnforced
      <4> QED
        BY <3>1, <3>2, <4>1, ResolvedMoves DEF Calm
    <3> QED
      BY <3>3, <3>4
  <2> QED
    BY <2>1, <2>2
<1> QED
  BY <1>1, <1>2

(* process_unbonding at the start of a block. *)
LEMMA NewBlockMoves ==
  ASSUME Inductive, NEW S \in SUBSET Validators, NewBlock(S)
  PROVE  /\ UNCHANGED <<committee, lastActivation>>
         /\ height' = height + 1 /\ height < MaxHeight
         /\ phase = "user" /\ phase' = "begin"
         /\ \A w \in Validators : Calm(w)
<1>1. val \in [Validators -> Record]
  BY SetFacts
<1>2. /\ UNCHANGED <<committee, lastActivation>>
      /\ height' = height + 1 /\ height < MaxHeight
      /\ phase = "user" /\ phase' = "begin"
      /\ S \subseteq {v \in Validators : val[v].lc = "Unbonding" /\ val[v].bonded = 0}
      /\ val' = [v \in Validators |->
                  IF v \in S THEN UnbondingCompleted(val[v])
                  ELSE IF val[v].lc = "Unbonding" THEN [val[v] EXCEPT !.bonded = 0]
                  ELSE val[v]]
  BY DEF NewBlock
<1>3. ASSUME NEW w \in Validators
      PROVE  Calm(w)
  <2>1. val[w] \in Record
    BY <1>1
  <2>2. CASE w \in S
    <3>1. val'[w] = [val[w] EXCEPT !.lc = "Inactive"] /\ val[w].lc = "Unbonding"
      BY <1>2, <2>2 DEF UnbondingCompleted
    <3> QED
      BY <2>1, <3>1 DEF Calm, Record
  <2>3. CASE w \notin S
    <3>1. \/ val'[w] = val[w]
          \/ val'[w] = [val[w] EXCEPT !.bonded = 0]
      BY <1>2, <2>3
    <3> QED
      BY <2>1, <3>1 DEF Calm, Record
  <2> QED
    BY <2>2, <2>3
<1> QED
  BY <1>2, <1>3

(* A boundary activates joining validators only, and registers nobody. *)
LEMMA BoundaryMoves ==
  ASSUME Inductive, NEW S \in SUBSET Validators, BoundaryOutcome(S)
  PROVE  /\ height' = height
         /\ lastActivation' = height - 1
         /\ phase = "boundary" /\ phase' = "user"
         /\ \A w \in Validators :
              /\ val'[w].lc = "Active" => val[w].lc \in {"Active", "Joining"}
              /\ val[w].lc = "Absent" => val'[w].lc = "Absent"
<1>1. val \in [Validators -> Record]
  BY SetFacts
<1>2. /\ height' = height
      /\ lastActivation' = height - 1
      /\ phase = "boundary" /\ phase' = "user"
      /\ val' = [v \in Validators |->
                  IF v \in S THEN AbsentRecord
                  ELSE BoundaryMoved(val[v], v \in frozen.members)]
  BY DEF BoundaryOutcome
<1>3. ASSUME NEW w \in Validators
      PROVE  /\ val'[w].lc = "Active" => val[w].lc \in {"Active", "Joining"}
             /\ val[w].lc = "Absent" => val'[w].lc = "Absent"
  <2>1. val[w] \in Record
    BY <1>1
  <2>2. CASE w \in S
    BY <1>2, <2>2 DEF AbsentRecord
  <2>3. CASE w \notin S
    <3>1. val'[w] = BoundaryMoved(val[w], w \in frozen.members)
      BY <1>2, <2>3
    <3> QED
      BY <2>1, <3>1 DEF BoundaryMoved, Record
  <2> QED
    BY <2>2, <2>3
<1> QED
  BY <1>2, <1>3

-----------------------------------------------------------------------------
(* Preservation *)

(* A count below its threshold that does not strike stays below it. *)
LEMMA NoStrike ==
  ASSUME NEW T \in Nat \ {0}, NEW c \in Nat, c < T, (c + 1) % T # 0
  PROVE  c + 1 < T
<1>1. T % T = 0
  OBVIOUS
<1> QED
  BY <1>1

(* Steps that leave the counters of v alone. *)
LEMMA CountsKept ==
  ASSUME NEW v \in Validators, Counts(v),
         UNCHANGED <<height, lastActivation, committee, carries>>,
         voterMisses'[v] = voterMisses[v],
         proposerMisses'[v] = proposerMisses[v],
         stage' = "pre" => stage = "pre",
         NotYet(v)' => NotYet(v),
         val'[v].lc = "Absent" => val[v].lc = "Absent",
         \/ phase' = "user" /\ ~NotYet(v)'
         \/ phase # "user" /\ (val[v].lc = "Absent" => val'[v].lc = "Absent")
  PROVE  Counts(v)'
<1>1. /\ voterMisses'[v] <= height' - lastActivation'
      /\ stage' = "pre" \/ NotYet(v)' => voterMisses'[v] < height' - lastActivation'
  BY DEF Counts
<1>2. /\ (val[v].lc = "Absent")' => voterMisses'[v] <= 1
      /\ carries' => voterMisses'[v] <= 1
  BY ZenonT(20) DEF Counts
<1>3. carries' /\ (val[v].lc # "Absent")' /\ NotYet(v)' => voterMisses'[v] = 0
  BY ZenonT(20) DEF Counts
<1>4. carries' /\ (val[v].lc # "Absent")' /\ phase' # "user" /\ v \notin committee' =>
        proposerMisses'[v] = 0
  BY DEF Counts
<1> QED
  BY ZenonT(20), <1>1, <1>2, <1>3, <1>4 DEF Counts

(* The counters are reset, or not, before the system transactions. *)
LEMMA PreExecutionKeeps ==
  ASSUME Inductive, SlashInductive, NEW c \in BOOLEAN, PreExecution(c)
  PROVE  SlashInductive'
<1>0. /\ val \in [Validators -> Record]
      /\ voterMisses \in [Validators -> Nat]
      /\ proposerMisses \in [Validators -> Nat]
      /\ VoterThreshold \in Nat \ {0}
      /\ ProposerThreshold \in Nat \ {0}
      /\ height \in Nat /\ lastActivation \in Nat
  BY SetFacts, SlashAssumption DEF SlashInductive, SlashTyped
<1>1. /\ stage = "pre" /\ stage' = "parent"
      /\ carries' = c /\ phase = "begin"
      /\ UNCHANGED <<height, phase, lastActivation, committee, val, signers, absent>>
  BY DEF PreExecution, vars, SlashInductive, Progress
<1>2. ASSUME NEW v \in Validators
      PROVE  /\ voterMisses'[v] \in Nat /\ proposerMisses'[v] \in Nat
             /\ voterMisses'[v] <= voterMisses[v]
             /\ proposerMisses'[v] <= proposerMisses[v]
             /\ c /\ val[v].lc # "Absent" => voterMisses'[v] = 0 /\ proposerMisses'[v] = 0
  <2>1. CASE c
    BY <1>0, <2>1 DEF PreExecution, Reset
  <2>2. CASE ~c
    BY <1>0, <2>2 DEF PreExecution
  <2> QED
    BY <2>1, <2>2
<1>3. SlashTyped'
  <2>1. voterMisses' \in [Validators -> Nat] /\ proposerMisses' \in [Validators -> Nat]
    <3>1. CASE c
      BY <1>0, <3>1 DEF PreExecution, Reset
    <3>2. CASE ~c
      BY <1>0, <3>2 DEF PreExecution
    <3> QED
      BY <3>1, <3>2
  <2> QED
    BY <1>1, <2>1 DEF SlashInductive, SlashTyped, Stages
<1>4. Progress' /\ EpochSigners'
  BY <1>1 DEF SlashInductive, Progress, EpochSigners
<1>5. ASSUME NEW v \in Validators
      PROVE  Counts(v)' /\ Below(v)'
  <2>0. Counts(v) /\ Below(v) /\ voterMisses[v] \in Nat
    BY <1>0 DEF SlashInductive
  <2>1. voterMisses'[v] < height' - lastActivation'
    BY <1>0, <1>1, <1>2, <2>0 DEF Counts
  <2>2. (val[v].lc = "Absent")' => voterMisses'[v] <= 1
    BY <1>1, <1>2, <2>0 DEF Counts
  <2>3. carries' => voterMisses'[v] <= 1
    <3>1. CASE val[v].lc = "Absent"
      BY ZenonT(20), <1>1, <2>2, <3>1
    <3>2. CASE c /\ val[v].lc # "Absent"
      BY <1>2, <3>2
    <3> QED
      BY <1>1, <3>1, <3>2
  <2>4. carries' /\ (val[v].lc # "Absent")' => voterMisses'[v] = 0 /\ proposerMisses'[v] = 0
    BY <1>1, <1>2
  <2>5. voterMisses'[v] <= height' - lastActivation'
    BY <1>0, <1>1, <1>2, <2>1
  <2>6. Counts(v)'
    BY ZenonT(20), <2>1, <2>2, <2>3, <2>4, <2>5 DEF Counts
  <2>7. Below(v)'
    BY <1>0, <1>1, <1>2, <2>0 DEF Below
  <2> QED
    BY <2>6, <2>7
<1> QED
  BY <1>3, <1>4, <1>5 DEF SlashInductive

(* A missed proposer of the parent. *)
LEMMA SlashProposerKeeps ==
  ASSUME Inductive, SlashInductive, NEW v \in Validators, SlashProposer(v)
  PROVE  SlashInductive'
<1>0. /\ voterMisses \in [Validators -> Nat]
      /\ proposerMisses \in [Validators -> Nat]
      /\ ProposerThreshold \in Nat \ {0}
      /\ height \in Nat /\ lastActivation \in Nat
  BY SetFacts, SlashAssumption DEF SlashInductive, SlashTyped
<1>1. /\ stage = "parent" /\ phase = "begin"
      /\ UNCHANGED <<stage, carries, voterMisses, signers, absent>>
      /\ proposerMisses' = [proposerMisses EXCEPT ![v] = @ + 1]
      /\ v \in signers[height - 1]
  BY ZenonT(20) DEF SlashProposer, SlashInductive, Progress
<1>2. /\ UNCHANGED <<height, phase, lastActivation, committee>>
      /\ \A w \in Validators : Calm(w)
      /\ val'[v].lc = "Active" => ~Strikes(v, proposerMisses, ProposerThreshold)
  <2>1. CASE Strikes(v, proposerMisses, ProposerThreshold)
    BY ZenonT(20), <2>1, FelonyMoves DEF SlashProposer
  <2>2. CASE ~Strikes(v, proposerMisses, ProposerThreshold)
    BY ZenonT(20), <2>2 DEF SlashProposer, vars, Calm
  <2> QED
    BY <2>1, <2>2
<1>3. v \in committee
  <2>1. height - 1 \in 1..MaxHeight /\ height - 1 > lastActivation
    BY <1>0, <1>1, ValidatorSetAssumption DEF SlashInductive, Progress
  <2> QED
    BY <1>1, <2>1 DEF SlashInductive, EpochSigners
<1>4. SlashTyped' /\ Progress' /\ EpochSigners'
  BY <1>0, <1>1, <1>2 DEF SlashInductive, SlashTyped, Progress, EpochSigners
<1>5. ASSUME NEW w \in Validators, w # v
      PROVE  Counts(w)' /\ Below(w)'
  <2>0. Counts(w) /\ Below(w) /\ proposerMisses'[w] = proposerMisses[w] /\ Calm(w)
    BY ZenonT(20), <1>0, <1>1, <1>2, <1>5 DEF SlashInductive
  <2>1. Counts(w)'
    BY <1>1, <1>2, <2>0, CountsKept DEF Calm, NotYet
  <2>2. Below(w)'
    BY ZenonT(20), <1>1, <2>0 DEF Below, Calm
  <2> QED
    BY ZenonT(20), <2>1, <2>2
<1>6. Counts(v)'
  <2>0. Counts(v) /\ Calm(v)
    BY <1>2 DEF SlashInductive
  <2>1. /\ voterMisses'[v] <= height' - lastActivation'
        /\ stage' = "pre" \/ NotYet(v)' => voterMisses'[v] < height' - lastActivation'
    BY ZenonT(20), <1>1, <1>2, <2>0 DEF Counts, NotYet
  <2>2. /\ (val[v].lc = "Absent")' => voterMisses'[v] <= 1
        /\ carries' => voterMisses'[v] <= 1
        /\ carries' /\ (val[v].lc # "Absent")' /\ NotYet(v)' => voterMisses'[v] = 0
    BY <1>1, <1>2, <2>0 DEF Counts, NotYet, Calm
  <2>3. v \in committee'
    BY <1>2, <1>3
  <2> QED
    BY <2>1, <2>2, <2>3 DEF Counts
<1>7. Below(v)'
  <2>0. /\ Below(v) /\ Calm(v)
        /\ proposerMisses'[v] = proposerMisses[v] + 1 /\ proposerMisses[v] \in Nat
    BY ZenonT(20), <1>0, <1>1, <1>2 DEF SlashInductive
  <2> SUFFICES ASSUME val'[v].lc = "Active"
               PROVE  /\ voterMisses'[v] < VoterThreshold
                      /\ proposerMisses'[v] < ProposerThreshold
    BY DEF Below
  <2>1. /\ val[v].lc = "Active"
        /\ voterMisses[v] < VoterThreshold
        /\ proposerMisses[v] < ProposerThreshold
    BY <2>0 DEF Below, Calm
  <2>2. (proposerMisses[v] + 1) % ProposerThreshold # 0
    BY <1>2, <2>1 DEF Strikes, AlreadyPenalized
  <2>3. proposerMisses[v] + 1 < ProposerThreshold
    BY ZenonT(20), <1>0, <2>0, <2>1, <2>2, NoStrike
  <2> QED
    BY ZenonT(20), <1>1, <2>0, <2>1, <2>3
<1> QED
  BY <1>4, <1>5, <1>6, <1>7 DEF SlashInductive

(* An absentee of the window that closes. *)
LEMMA SlashVoterKeeps ==
  ASSUME Inductive, SlashInductive, NEW v \in Validators, SlashVoter(v)
  PROVE  SlashInductive'
<1>0. /\ voterMisses \in [Validators -> Nat]
      /\ proposerMisses \in [Validators -> Nat]
      /\ VoterThreshold \in Nat \ {0}
      /\ height \in Nat /\ lastActivation \in Nat
  BY SetFacts, SlashAssumption DEF SlashInductive, SlashTyped
<1>1. /\ stage = "late" /\ phase = "begin"
      /\ UNCHANGED <<stage, carries, proposerMisses, signers>>
      /\ absent' = absent \cup {v}
      /\ voterMisses' = [voterMisses EXCEPT ![v] = @ + 1]
      /\ v \notin absent /\ val[v].lc # "Absent"
  BY ZenonT(20) DEF SlashVoter, MayBeAbsent, SlashInductive, Progress
<1>2. /\ UNCHANGED <<height, phase, lastActivation, committee>>
      /\ \A w \in Validators : Calm(w)
      /\ val'[v].lc = "Active" => ~Strikes(v, voterMisses, VoterThreshold)
  <2>1. CASE Strikes(v, voterMisses, VoterThreshold)
    BY <2>1, FelonyMoves DEF SlashVoter
  <2>2. CASE ~Strikes(v, voterMisses, VoterThreshold)
    BY ZenonT(20), <2>2 DEF SlashVoter, vars, Calm
  <2> QED
    BY <2>1, <2>2
<1>4. SlashTyped' /\ Progress' /\ EpochSigners'
  BY SMTT(30), Z3T(30), <1>0, <1>1, <1>2 DEF SlashInductive, SlashTyped, Progress, EpochSigners
<1>5. ASSUME NEW w \in Validators, w # v
      PROVE  Counts(w)' /\ Below(w)'
  <2>0. Counts(w) /\ Below(w) /\ voterMisses'[w] = voterMisses[w] /\ Calm(w)
    BY ZenonT(20), <1>0, <1>1, <1>2, <1>5 DEF SlashInductive
  <2>1. Counts(w)'
    BY ZenonT(20), <1>1, <1>2, <1>5, <2>0, CountsKept DEF Calm, NotYet
  <2>2. Below(w)'
    BY ZenonT(20), <1>1, <2>0 DEF Below, Calm
  <2> QED
    BY <2>1, <2>2
<1>6. Counts(v)'
  <2>0. /\ Counts(v) /\ Calm(v) /\ NotYet(v)
        /\ voterMisses[v] \in Nat /\ voterMisses'[v] = voterMisses[v] + 1
    BY ZenonT(20), <1>0, <1>1, <1>2 DEF SlashInductive, NotYet
  <2>1. voterMisses'[v] <= height' - lastActivation'
    BY <1>0, <1>2, <2>0 DEF Counts
  <2>2. ~NotYet(v)' /\ stage' # "pre" /\ val'[v].lc # "Absent"
    BY ZenonT(20), <1>1, <2>0 DEF NotYet, Calm
  <2>3. carries => voterMisses[v] = 0
    BY ZenonT(20), <1>1, <2>0 DEF Counts
  <2>4. carries' => voterMisses'[v] <= 1
    BY SMTT(30), Z3T(30), <1>1, <2>0, <2>3
  <2>5. carries' /\ (val[v].lc # "Absent")' /\ phase' # "user" /\ v \notin committee' =>
          proposerMisses'[v] = 0
    BY ZenonT(20), <1>1, <1>2, <2>0 DEF Counts, Calm
  <2> QED
    BY ZenonT(20), <2>1, <2>2, <2>4, <2>5 DEF Counts
<1>7. Below(v)'
  <2>0. /\ Below(v) /\ Calm(v)
        /\ voterMisses'[v] = voterMisses[v] + 1 /\ voterMisses[v] \in Nat
    BY ZenonT(20), <1>0, <1>1, <1>2 DEF SlashInductive
  <2> SUFFICES ASSUME val'[v].lc = "Active"
               PROVE  /\ voterMisses'[v] < VoterThreshold
                      /\ proposerMisses'[v] < ProposerThreshold
    BY DEF Below
  <2>1. /\ val[v].lc = "Active"
        /\ voterMisses[v] < VoterThreshold
        /\ proposerMisses[v] < ProposerThreshold
    BY <2>0 DEF Below, Calm
  <2>2. (voterMisses[v] + 1) % VoterThreshold # 0
    BY <1>2, <2>1 DEF Strikes, AlreadyPenalized
  <2>3. voterMisses[v] + 1 < VoterThreshold
    BY <1>0, <2>0, <2>1, <2>2, NoStrike
  <2> QED
    BY ZenonT(20), <1>1, <2>0, <2>1, <2>3
<1> QED
  BY <1>4, <1>5, <1>6, <1>7 DEF SlashInductive

(* The begin phase moves on without touching a counter. *)
LEMMA StageKeeps ==
  ASSUME Inductive, SlashInductive, ParentAccounted \/ WindowClosed
  PROVE  SlashInductive'
<1>1. /\ phase = "begin"
      /\ UNCHANGED <<height, phase, lastActivation, committee, val, carries,
                     voterMisses, proposerMisses>>
      /\ stage' \in {"late", "done"}
      /\ stage' = "late" => stage = "parent"
  BY DEF ParentAccounted, WindowClosed, vars, SlashInductive, Progress
<1>2. SlashTyped' /\ EpochSigners'
  <2>1. CASE ParentAccounted
    BY ZenonT(20), <1>1, <2>1 DEF ParentAccounted, SlashInductive, SlashTyped, EpochSigners, Stages
  <2>2. CASE WindowClosed
    BY <1>1, <2>2 DEF WindowClosed, SlashInductive, SlashTyped, EpochSigners, Stages
  <2> QED
    BY <2>1, <2>2
<1>3. Progress'
  BY ZenonT(20), <1>1 DEF SlashInductive, Progress
<1>4. ASSUME NEW v \in Validators
      PROVE  Counts(v)' /\ Below(v)'
  <2>1. Counts(v) /\ Below(v)
    BY ZenonT(20) DEF SlashInductive
  <2>2. Counts(v)'
    BY ZenonT(20), <1>1, <2>1, CountsKept DEF NotYet
  <2> QED
    BY <1>1, <2>1, <2>2 DEF Below
<1> QED
  BY <1>2, <1>3, <1>4 DEF SlashInductive

(* The rest of the block between two boundaries: what does not touch the        *)
(* counters, and makes nobody active.                                           *)
LEMMA QuietKeeps ==
  ASSUME Inductive, SlashInductive,
         stage = "done",
         UNCHANGED <<stage, carries, voterMisses, proposerMisses, signers>>,
         UNCHANGED <<height, committee, lastActivation>>,
         phase' = "begin" => phase = "begin",
         \A w \in Validators : val'[w].lc = "Active" => val[w].lc = "Active",
         \A w \in Validators : val'[w].lc = "Absent" => val[w].lc = "Absent",
         \/ phase' = "user"
         \/ phase # "user" /\ \A w \in Validators : Calm(w)
  PROVE  SlashInductive'
<1>1. SlashTyped' /\ Progress' /\ EpochSigners'
  BY DEF SlashInductive, SlashTyped, Progress, EpochSigners
<1>2. ASSUME NEW v \in Validators
      PROVE  Counts(v)' /\ Below(v)'
  <2>1. Counts(v) /\ Below(v)
    BY DEF SlashInductive
  <2>2. ~NotYet(v)'
    BY ZenonT(20) DEF NotYet
  <2>3. Counts(v)'
    BY <2>1, <2>2, CountsKept DEF Calm
  <2> QED
    BY ZenonT(20), <2>1, <2>3 DEF Below
<1> QED
  BY ZenonT(20), <1>1, <1>2 DEF SlashInductive

(* A boundary: the counters were reset in the same block, so nobody brings a     *)
(* count into the new epoch that exceeds its first block.                        *)
LEMMA BoundaryKeeps ==
  ASSUME Inductive, SlashInductive, NEW S \in SUBSET Validators, BoundaryOutcome(S),
         carries, stage = "done", UNCHANGED slashVars
  PROVE  SlashInductive'
<1>0. /\ height \in Nat \ {0}
      /\ voterMisses \in [Validators -> Nat]
      /\ VoterThreshold \in Nat /\ VoterThreshold > 1
      /\ ProposerThreshold \in Nat \ {0}
  BY SetFacts, SlashAssumption DEF SlashInductive, SlashTyped
<1>1. /\ height' = height
      /\ lastActivation' = height - 1
      /\ phase = "boundary" /\ phase' = "user"
      /\ UNCHANGED <<stage, carries, voterMisses, proposerMisses, signers>>
  BY BoundaryMoves DEF slashVars
<1>2. SlashTyped' /\ Progress'
  BY <1>0, <1>1 DEF SlashInductive, SlashTyped, Progress
<1>3. EpochSigners'
  BY <1>0, <1>1 DEF SlashInductive, EpochSigners
<1>4. ASSUME NEW v \in Validators
      PROVE  Counts(v)' /\ Below(v)'
  <2>1. voterMisses[v] <= 1 /\ voterMisses[v] \in Nat /\ Below(v)
    BY <1>0 DEF SlashInductive, Counts
  <2>2. voterMisses'[v] <= 1 /\ voterMisses'[v] <= height' - lastActivation'
    BY <1>0, <1>1, <2>1
  <2>3. stage' # "pre" /\ ~NotYet(v)' /\ phase' = "user"
    BY ZenonT(20), <1>1 DEF NotYet
  <2>4. Counts(v)'
    BY ZenonT(20), <2>2, <2>3 DEF Counts
  <2>5. val[v].lc = "Joining" => proposerMisses[v] = 0
    BY ZenonT(20), <1>1, SetFacts DEF SlashInductive, Counts
  <2>6. val'[v].lc = "Active" => proposerMisses[v] < ProposerThreshold
    BY SMTT(30), Z3T(30), <1>0, <2>1, <2>5, BoundaryMoves DEF Below
  <2>7. Below(v)'
    BY <1>0, <1>1, <2>1, <2>6 DEF Below
  <2> QED
    BY ZenonT(20), <2>4, <2>7
<1> QED
  BY <1>2, <1>3, <1>4 DEF SlashInductive

(* The next block. *)
LEMMA StartBlockKeeps ==
  ASSUME Inductive, SlashInductive, NEW S \in SUBSET Validators, StartBlock(S)
  PROVE  SlashInductive'
<1>0. /\ height \in Nat \ {0} /\ lastActivation \in Nat
      /\ committee \subseteq Validators
      /\ voterMisses \in [Validators -> Nat]
      /\ signers \in [1..MaxHeight -> SUBSET Validators]
      /\ MaxHeight \in Nat
  BY SetFacts, ValidatorSetAssumption DEF SlashInductive, SlashTyped
<1>1. /\ UNCHANGED <<committee, lastActivation>>
      /\ height' = height + 1 /\ height < MaxHeight
      /\ phase = "user" /\ phase' = "begin"
      /\ \A w \in Validators : Calm(w)
  BY NewBlockMoves DEF StartBlock
<1>2. /\ stage' = "pre" /\ carries' = FALSE
      /\ signers' = [signers EXCEPT ![height] = committee]
      /\ UNCHANGED <<voterMisses, proposerMisses>>
  BY DEF StartBlock
<1>3. SlashTyped' /\ Progress'
  <2>1. signers' \in [1..MaxHeight -> SUBSET Validators]
    BY ZenonT(20), <1>0, <1>2
  <2>2. SlashTyped'
    BY ZenonT(20), <1>2, <2>1 DEF SlashInductive, SlashTyped, Stages
  <2>3. lastActivation' + 1 < height' /\ lastActivation' < height' /\ height' <= MaxHeight
    BY <1>0, <1>1 DEF SlashInductive, Progress
  <2>4. phase' = "begin" /\ ~carries'
    BY <1>1, <1>2
  <2>5. Progress'
    BY <2>3, <2>4 DEF Progress
  <2> QED
    BY <2>2, <2>5
<1>4. EpochSigners'
  BY SMTT(30), Z3T(30), <1>0, <1>1, <1>2 DEF SlashInductive, EpochSigners
<1>5. ASSUME NEW v \in Validators
      PROVE  Counts(v)' /\ Below(v)'
  <2>1. Counts(v) /\ Below(v) /\ Calm(v) /\ voterMisses[v] \in Nat
    BY ZenonT(20), <1>0, <1>1 DEF SlashInductive
  <2>2. /\ voterMisses'[v] <= height' - lastActivation'
        /\ voterMisses'[v] < height' - lastActivation'
    BY SMTT(30), Z3T(30), <1>0, <1>1, <1>2, <2>1 DEF Counts
  <2>3. (val[v].lc = "Absent")' => voterMisses'[v] <= 1
    BY ZenonT(20), <1>2, <2>1 DEF Counts, Calm
  <2>4. Counts(v)'
    BY <1>2, <2>2, <2>3 DEF Counts
  <2> QED
    BY <1>2, <2>1, <2>4 DEF Below, Calm
<1> QED
  BY <1>3, <1>4, <1>5 DEF SlashInductive

(* Every other step of the block. *)
LEMMA LifecycleKeeps ==
  ASSUME Inductive, SlashInductive, LifecycleStep
  PROVE  SlashInductive'
<1>0. Actors \subseteq Validators
  BY SlashAssumption
<1>1. /\ stage = "done"
      /\ UNCHANGED <<stage, carries, voterMisses, proposerMisses, signers>>
      /\ UNCHANGED slashVars
  BY DEF LifecycleStep, slashVars
<1>2. ASSUME NEW v \in Validators,
             \/ RegisterValidator(v) \/ ConfirmReady(v) \/ Deactivate(v)
             \/ Unjail(v) \/ CompleteUnbonding(v)
             \/ \E b \in Stakes : IncreaseStake(v, b) \/ Unstake(v, b)
      PROVE  SlashInductive'
  <2>1. /\ UNCHANGED <<height, phase, committee, lastActivation>>
        /\ phase = "user"
        /\ \A w \in Validators :
             /\ val'[w].lc = "Active" => val[w].lc = "Active"
             /\ val'[w].lc = "Absent" => val[w].lc = "Absent"
    BY ZenonT(20), <1>2, UserMoves
  <2> QED
    BY ZenonT(20), <1>1, <2>1, QuietKeeps
<1>3. ASSUME \/ \E v \in Validators, b \in Stakes : OcompMiss(v, b)
             \/ \E S \in SUBSET Validators : CycleTick(S)
      PROVE  SlashInductive'
  <2>1. /\ UNCHANGED <<height, committee, lastActivation>>
        /\ phase = "begin"
        /\ \A w \in Validators : Calm(w)
    BY ZenonT(20), <1>3, BeginMoves
  <2> QED
    BY <1>1, <2>1, QuietKeeps DEF Calm
<1>4. CASE NoBoundary
  <2>1. UNCHANGED <<height, committee, lastActivation, val>> /\ phase' = "user"
    BY <1>4 DEF NoBoundary
  <2> QED
    BY <1>1, <2>1, QuietKeeps
<1>5. CASE carries /\ \E S \in SUBSET Validators : BoundaryOutcome(S)
  BY ZenonT(20), <1>1, <1>5, BoundaryKeeps
<1>6. CASE AtBound
  <2>1. UNCHANGED <<height, committee, lastActivation, val, phase>> /\ phase = "user"
    BY ZenonT(20), <1>6 DEF AtBound, vars
  <2> QED
    BY <1>1, <2>1, QuietKeeps
<1> QED
  BY <1>0, <1>2, <1>3, <1>4, <1>5, <1>6 DEF LifecycleStep, Boundary

(* Felonies for evidence are executed by user transactions. *)
LEMMA EvidenceKeeps ==
  ASSUME Inductive, SlashInductive, NEW e \in Evidence, SubmitEvidence(e)
  PROVE  SlashInductive'
<1>1. e.offender \in Validators
  BY ZenonT(20), SlashAssumption
<1>2. /\ phase = "user" /\ stage = "done"
      /\ UNCHANGED <<stage, carries, voterMisses, proposerMisses, signers>>
      /\ JailAndSlash(e.offender)
  BY ZenonT(20) DEF SubmitEvidence, SlashInductive, Progress, SlashTyped, Stages
<1>3. /\ UNCHANGED <<height, phase, committee, lastActivation>>
      /\ \A w \in Validators : Calm(w)
  BY <1>1, <1>2, FelonyMoves
<1> QED
  BY <1>2, <1>3, QuietKeeps DEF Calm

(* The genesis state. *)
LEMMA InitKeeps == SlashInit => SlashInductive
<1> SUFFICES ASSUME SlashInit
             PROVE  SlashInductive
  OBVIOUS
<1>0. /\ VoterThreshold \in Nat \ {0} /\ ProposerThreshold \in Nat \ {0}
  BY SlashAssumption
<1>1. height = 1 /\ phase = "user" /\ lastActivation = 0
  BY DEF SlashInit, Init
<1>2. /\ stage = "done" /\ carries = FALSE
      /\ voterMisses = [v \in Validators |-> 0]
      /\ proposerMisses = [v \in Validators |-> 0]
      /\ signers = [b \in 1..MaxHeight |-> {}]
  BY DEF SlashInit
<1>3. SlashTyped
  BY ZenonT(20), <1>2 DEF SlashTyped, Stages
<1>4. Progress /\ EpochSigners
  BY <1>1, <1>2 DEF Progress, EpochSigners
<1>5. ASSUME NEW v \in Validators
      PROVE  Counts(v) /\ Below(v)
  BY <1>0, <1>1, <1>2 DEF Counts, Below, NotYet
<1> QED
  BY <1>3, <1>4, <1>5 DEF SlashInductive

(* The miss counters and committees stay within the bounds above in every          *)
(* reachable state.                                                                *)
THEOREM SlashInductiveHolds == SlashSpec => [](Inductive /\ SlashInductive)
<1>1. Inductive /\ SlashInductive /\ [SlashNext]_<<vars, slashVars>> => SlashInductive'
  <2> SUFFICES ASSUME Inductive, SlashInductive, [SlashNext]_<<vars, slashVars>>
               PROVE  SlashInductive'
    OBVIOUS
  <2>0. Actors \subseteq Validators
    BY ZenonT(20), SlashAssumption
  <2>1. CASE UNCHANGED <<vars, slashVars>>
    BY <2>1 DEF vars, slashVars, SlashInductive, SlashTyped, Progress, EpochSigners,
                Counts, Below, NotYet
  <2> QED
    BY <2>0, <2>1, PreExecutionKeeps, SlashProposerKeeps, SlashVoterKeeps, StageKeeps,
       LifecycleKeeps, EvidenceKeeps, StartBlockKeeps DEF SlashNext
<1> QED
  BY <1>1, InitKeeps, SlashImplementsSet, InductiveHolds, PTL DEF SlashSpec

-----------------------------------------------------------------------------
(* What the invariant gives *)

(* Nobody is active with a count at or above a felony threshold                     *)
(* (reset_epoch_counters against slash_proposer and slash_voter).                   *)
THEOREM ThresholdsHold == SlashSpec => []ThresholdEnforced
<1>1. SlashInductive => ThresholdEnforced
  BY DEF SlashInductive, Below, ThresholdEnforced
<1> QED
  BY <1>1, SlashInductiveHolds, PTL

(* A count below the threshold minus one does not strike. *)
LEMMA SmallCount ==
  ASSUME NEW T \in Nat \ {0}, NEW c \in Nat, c + 1 < T
  PROVE  (c + 1) % T # 0
OBVIOUS

(* slash_proposer and slash_voter convict active validators only, whatever the      *)
(* window length and the epoch length: the committee of a block that is K blocks     *)
(* old is either still in office, or its members have at most K misses.              *)
THEOREM FelonyTargetsHold == SlashSpec => []LivenessFelonyHitsActive
<1>1. ASSUME Inductive, SlashInductive
      PROVE  LivenessFelonyHitsActive
  <2>0. /\ height \in Nat \ {0} /\ lastActivation \in Nat /\ MaxHeight \in Nat
        /\ K \in Nat \ {0} /\ VoterThreshold \in Nat \ {0} /\ VoterThreshold > K
        /\ voterMisses \in [Validators -> Nat]
    BY <1>1, SetFacts, SlashAssumption, ValidatorSetAssumption
       DEF SlashInductive, SlashTyped
  <2>1. ASSUME NEW v \in Validators, v \in committee, ~AlreadyPenalized(val[v])
        PROVE  val[v].lc = "Active"
    BY ZenonT(20), <1>1, <2>1, SetFacts DEF AlreadyPenalized
  <2>2. ASSUME NEW v \in Validators, stage = "parent", v \in signers[height - 1]
        PROVE  v \in committee
    <3>1. height - 1 \in 1..MaxHeight /\ height - 1 > lastActivation
      BY <1>1, <2>0, <2>2 DEF SlashInductive, Progress
    <3> QED
      BY ZenonT(20), <1>1, <2>2, <3>1 DEF SlashInductive, EpochSigners
  <2>3. ASSUME NEW v \in Validators, stage = "late", v \in Closing \ absent,
               Strikes(v, voterMisses, VoterThreshold)
        PROVE  v \in committee
    <3>1. height > K /\ v \in signers[height - K] /\ height <= MaxHeight
      BY <1>1, <2>3 DEF Closing, SlashInductive, Progress
    <3>2. height - K \in 1..MaxHeight
      BY <2>0, <3>1
    <3>3. CASE height - K > lastActivation
      BY ZenonT(20), <1>1, <3>1, <3>2, <3>3 DEF SlashInductive, EpochSigners
    <3>4. CASE ~(height - K > lastActivation)
      <4>1. NotYet(v)
        BY ZenonT(20), <2>3 DEF NotYet
      <4>2. voterMisses[v] < height - lastActivation
        BY <1>1, <4>1 DEF SlashInductive, Counts
      <4>3. voterMisses[v] + 1 < VoterThreshold /\ voterMisses[v] \in Nat
        BY <2>0, <3>4, <4>2
      <4> QED
        BY <2>0, <2>3, <4>3, SmallCount DEF Strikes
    <3> QED
      BY ZenonT(20), <3>3, <3>4
  <2> QED
    BY ZenonT(20), <2>1, <2>2, <2>3 DEF LivenessFelonyHitsActive, Strikes
<1> QED
  BY <1>1, SlashInductiveHolds, PTL
=============================================================================
