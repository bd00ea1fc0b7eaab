--------------------------- MODULE ProtocolUpdates ---------------------------
(***************************************************************************)
(* Proposals, their targets and the activation of updates in the order of a    *)
(* block: the hooks before the block's transactions run Vote first and Update  *)
(* second (crates/blockchain/evm/src/executor.rs), then the calls of users.    *)
(* The hooks loop over a snapshot of an index while their iterations rewrite    *)
(* it; each iteration is one step here. An error in a hook fails the block, and *)
(* the next attempt fails as well, since nothing in between changes the state.  *)
(***************************************************************************)
EXTENDS VoteTargets

CONSTANTS
  MaxHeight,     \* bound: the last block
  MaxProposals,  \* bound: how many proposals are ever made
  LastCall       \* bound: users are quiet after this block

ASSUME BoundsAssumption == MaxHeight \in Nat /\ MaxProposals \in Nat /\ LastCall \in Nat

VARIABLES
  phase,  \* "vote", "update" or "user"
  queue,  \* the rest of the snapshot the running hook iterates over
  binary  \* the newest version the node's binary supports

vars == <<height, active, voteVars, updateVars, registryVars, l2Vars, coinVars,
          phase, queue, binary>>

TypeOK ==
  /\ VoteTypeOK /\ RegistryTypeOK /\ TargetsTypeOK
  /\ phase \in {"vote", "update", "user"}
  /\ queue \in Seq(Nat)
  /\ binary \in Nat

Init ==
  /\ VoteInit /\ RegistryInit /\ TargetsInit
  /\ phase = "user"
  /\ queue = <<>>
  /\ binary = 1

-----------------------------------------------------------------------------
targetVars == <<updateVars, registryVars, l2Vars, coinVars>>
blockVars == <<height, phase, queue>>

(* A call of createProposal: one checkpoint of Vote and of the target. *)
Propose(p, payload) ==
  /\ phase = "user" /\ height <= LastCall /\ Len(proposals) < MaxProposals
  /\ Valid(p, payload)
  /\ CreateProposal(p, payload)
  /\ Reserve(Len(proposals) + 1, payload)
  /\ UNCHANGED <<blockVars, active, updateVars, registryVars, l2Vars, binary>>

DoVote(v, i, approve) ==
  /\ phase = "user"
  /\ CastVote(v, i, approve)
  /\ UNCHANGED <<blockVars, active, targetVars, binary>>

(* Validators come and go: boundaries, jails and exits are ValidatorSet's. *)
ChangeActive(S) ==
  /\ phase = "user" /\ height <= LastCall
  /\ active' = S
  /\ active' # active
  /\ UNCHANGED <<blockVars, voteVars, targetVars, binary>>

LeaveL2(c) ==
  /\ phase = "user" /\ height <= LastCall
  /\ RemoveNetwork(c)
  /\ UNCHANGED <<blockVars, active, voteVars, binary>>

(* Metadosis starts, retries and ends computations. *)
Compute(l) ==
  /\ phase = "user" /\ height <= LastCall
  /\ \/ PinLineage(l)
     \/ \E p \in Lineages : PinInherited(l, p)
     \/ ReleaseLineage(l, height)
  /\ UNCHANGED <<blockVars, active, voteVars, updateVars, l2Vars, coinVars, binary>>

NextBlock ==
  /\ phase = "user" /\ height < MaxHeight
  /\ height' = height + 1
  /\ phase' = "vote"
  /\ UNCHANGED <<active, voteVars, targetVars, binary>>
  /\ queue' = Due'

-----------------------------------------------------------------------------
(* One iteration of Vote::process_begin_block. *)
FinalizeNext ==
  /\ phase = "vote" /\ queue # <<>>
  /\ LET i == Head(queue) IN
     \/ "Applied" \in Outcomes(i) /\ Finalize(i, "Applied") /\ Apply(i)
     \/ "Error" \in Outcomes(i) /\ Finalize(i, "Error") /\ UNCHANGED targetVars
  /\ queue' = Tail(queue)
  /\ UNCHANGED <<height, active, phase, binary>>

VoteDone ==
  /\ phase = "vote" /\ queue = <<>>
  /\ phase' = "update"
  /\ queue' = waiting
  /\ UNCHANGED <<height, active, voteVars, targetVars, binary>>

(* Mutant: an update waits for the block after its height. *)
DueAfterHeight(i) == scheduled[i] = "Scheduled" /\ height > PayloadOf(i).at

(* Mutant: versions are activated one by one. *)
DueIfNext(i) ==
  scheduled[i] = "Scheduled" /\ height >= PayloadOf(i).at /\ PayloadOf(i).version = version + 1

(* One iteration of Update::process_begin_block_with_handlers. A block that    *)
(* activates a version the binary does not know waits for a newer binary.      *)
DueForActivation(i) == scheduled[i] = "Scheduled" /\ height >= PayloadOf(i).at

ActivateNext ==
  /\ phase = "update" /\ queue # <<>>
  /\ LET i == Head(queue) IN
     \/ /\ DueForActivation(i)
        /\ IF PayloadOf(i).version <= version
           THEN Cancel(i)
           ELSE PayloadOf(i).version <= binary /\ Activate(i)
     \/ ~DueForActivation(i) /\ UNCHANGED targetVars
  /\ queue' = Tail(queue)
  /\ UNCHANGED <<height, active, voteVars, phase, binary>>

UpdateDone ==
  /\ phase = "update" /\ queue = <<>>
  /\ TryRetirePredecessor(height)
  /\ phase' = "user"
  /\ UNCHANGED <<height, active, voteVars, updateVars, l2Vars, coinVars, queue, binary>>

(* A node whose binary is too old stops at that block; its operator installs a *)
(* newer one. Upgrading earlier makes no difference to the state of the chain. *)
UpgradeBinary ==
  /\ phase = "update" /\ queue # <<>>
  /\ DueForActivation(Head(queue)) /\ PayloadOf(Head(queue)).version > binary
  /\ binary' = PayloadOf(Head(queue)).version
  /\ UNCHANGED <<blockVars, active, voteVars, targetVars>>

(* The block cannot be executed: a target answered with a fatal error. *)
Aborted == phase = "vote" /\ queue # <<>> /\ Outcomes(Head(queue)) = {"Fatal"}

AtBound == (Aborted \/ (phase = "user" /\ height = MaxHeight)) /\ UNCHANGED vars

Step == NextBlock \/ FinalizeNext \/ VoteDone \/ ActivateNext \/ UpdateDone

Next ==
  \/ \E p \in Accounts, payload \in Payloads : Propose(p, payload)
  \/ \E v \in Validators, i \in Ids, approve \in BOOLEAN : DoVote(v, i, approve)
  \/ \E S \in SUBSET Validators : ChangeActive(S)
  \/ \E c \in Chains : LeaveL2(c)
  \/ \E l \in Lineages : Compute(l)
  \/ UpgradeBinary
  \/ Step
  \/ AtBound

Spec == Init /\ [][Next]_vars

(* Blocks keep being produced, and operators install the binary an approved     *)
(* update needs. Nothing else is assumed of anybody.                            *)
FairSpec == Spec /\ WF_vars(Step) /\ WF_vars(UpgradeBinary)

-----------------------------------------------------------------------------
(* Once the hooks have run, no proposal is past its deadline undecided, and no *)
(* update is past its height unactivated: the begin-block hooks miss nothing   *)
(* although they rewrite the index they loop over.                             *)
NothingOverdue ==
  phase = "user" =>
    /\ \A i \in Ids : proposals[i].status = "Pending" => height <= proposals[i].deadline
    /\ \A i \in ToSet(waiting) : PayloadOf(i).at > height

(* A step decides at most one proposal, only after its deadline, and approves  *)
(* it only with the votes of two thirds of the validators active in that       *)
(* block; what is decided stays decided.                                       *)
DecidedByActive ==
  [][\A i \in Ids : proposals'[i].status # proposals[i].status =>
       /\ proposals[i].status = "Pending"
       /\ height > proposals[i].deadline
       /\ proposals'[i].status = "Approved" =>
            3 * Cardinality({v \in active : \E n \in DOMAIN votes[i] :
                  votes[i][n] = [voter |-> v, approve |-> TRUE]}) >= 2 * Cardinality(active)
    ]_vars

(* The protocol version only grows, and the enclave policy and the computation *)
(* bundle change only together with it, each to a successor of the old one.    *)
ReleasesMoveTogether ==
  [][/\ version' >= version
     /\ policy' # policy => version' > version /\ Parent[policy'] = policy
     /\ bundle' # bundle => version' > version /\ Parent[bundle'] = bundle
    ]_vars

(* Every proposal is decided, every scheduled update is activated or canceled  *)
(* (process_begin_block of Vote and of Update), and a bundle that nobody uses    *)
(* any more is retired (try_retire_predecessor): nothing is skipped for ever by *)
(* an index that moves under the loop, by an update that overtakes, or by a      *)
(* deadline that nobody sets.                                                  *)
EverythingEnds ==
  /\ \A i \in 1..MaxProposals :
       LET Open == (i \in Ids /\ proposals[i].status = "Pending") \/ i \in ToSet(waiting)
       IN  Open ~> (Aborted \/ ~Open)
  /\ (retiring # None /\ live[retiring] = 0) ~> (Aborted \/ retiring = None)

(* What schema.rs of crates/system/vote says of Error: a deterministic failure *)
(* of a target ends the proposal, it does not fail the block.                  *)
TargetFailureEndsProposal == ~Aborted
=============================================================================
