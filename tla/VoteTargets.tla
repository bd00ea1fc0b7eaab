----------------------------- MODULE VoteTargets -----------------------------
(***************************************************************************)
(* What an approved or expired proposal does (the VoteTarget implementations   *)
(* registered in crates/blockchain/evm/src/handlers.rs):                       *)
(*  - Update schedules a protocol version and stages the enclave policy        *)
(*    (TeeRegistry) and the computation bundle (OcompRegistry) that become     *)
(*    active with it;                                                          *)
(*  - L2Registry registers a network or switches its ZK verification;          *)
(*  - StablecoinFactory turns the ticker reserved at creation into a token;     *)
(*  - Governance appends an approved text, which no other target reads: see    *)
(*    module Governance for its lifecycle.                                     *)
(*                                                                         *)
(* Outcomes(i) are the answers the target may give: "Applied", "Error" (the     *)
(* proposal fails, with its effects rolled back) or "Fatal" (the block fails).  *)
(***************************************************************************)
EXTENDS Vote, OcompRegistry

CONSTANTS
  Buffer,      \* min_activation_buffer: 100, and 0 on a local network
  MaxWaiting,  \* MAX_WAITING_FOR_ACTIVATION_UPDATES
  Chains,      \* L2 chain ids
  Tickers      \* stablecoin tickers

ASSUME TargetsAssumption == Buffer \in Nat /\ MaxWaiting \in Nat

VARIABLES
  version,     \* active_version
  scheduled,   \* scheduled_updates, by proposal id
  waiting,     \* waiting_for_activation_proposal_ids
  policy,      \* the active enclave policy
  nextPolicy,  \* the staged successor policy and its proposal, or None
  networks,    \* L2Registry: networks, None where absent
  chainOf,     \* L2Registry: l1_to_chain, None where absent
  reserved,    \* StablecoinFactory: pending_ticker, 0 where absent
  tokens       \* StablecoinFactory: tickers of the created tokens

updateVars == <<version, scheduled, waiting, policy, nextPolicy>>
l2Vars == <<networks, chainOf>>
coinVars == <<reserved, tokens>>

ScheduledIds == DOMAIN scheduled

TargetsTypeOK ==
  /\ version \in Nat
  /\ ScheduledIds \subseteq Ids
  /\ \A i \in ScheduledIds : scheduled[i] \in {"Scheduled", "Activated", "Canceled"}
  /\ waiting \in Seq(Nat)
  /\ policy \in Releases
  /\ nextPolicy \in [id : Nat, to : Releases, at : Nat] \cup {None}
  /\ networks \in [Chains -> [owner : Accounts, zk : BOOLEAN] \cup {None}]
  /\ chainOf \in [Accounts -> Chains \cup {None}]
  /\ reserved \in [Tickers -> Nat]
  /\ tokens \subseteq Tickers

TargetsInit ==
  /\ version = 1
  /\ scheduled = <<>>
  /\ waiting = <<>>
  /\ policy = Genesis
  /\ nextPolicy = None
  /\ networks = [c \in Chains |-> None]
  /\ chainOf = [a \in Accounts |-> None]
  /\ reserved = [t \in Tickers |-> 0]
  /\ tokens = {}

-----------------------------------------------------------------------------
(* VoteTarget::validate at creation. A text, a network and a policy are        *)
(* checked for their form only; the sets of payloads have the right form.      *)
Valid(p, payload) ==
  CASE payload.target = "update" -> payload.at >= height + Buffer
    [] payload.target = "coin" -> reserved[payload.ticker] = 0 /\ payload.ticker \notin tokens
    [] OTHER -> TRUE

(* VoteTarget::reserve *)
Reserve(i, payload) ==
  /\ reserved' = IF payload.target = "coin" THEN [reserved EXCEPT ![payload.ticker] = i] ELSE reserved
  /\ UNCHANGED tokens

PayloadOf(i) == proposals[i].payload
Staged(i, release) == [id |-> i, to |-> release, at |-> PayloadOf(i).at]

(* schedule_update_from_propose_classified: what makes an update unschedulable. *)
CanSchedule(p) ==
  /\ p.version > version
  /\ p.at >= height + Buffer
  /\ \A n \in DOMAIN waiting : PayloadOf(waiting[n]).at # p.at
  /\ Len(waiting) < MaxWaiting

(* stage_successor_policy_v1 *)
CanStagePolicy(s) ==
  /\ Parent[s.to] = policy /\ s.to # policy
  /\ s.at > height
  /\ nextPolicy \in {None, s}

UpdateOutcome(i) ==
  LET p == PayloadOf(i) IN
  IF ~CanSchedule(p) \/ (p.tee # None /\ ~CanStagePolicy(Staged(i, p.tee))) THEN "Error"
  ELSE IF p.ocomp # None /\ ~CanStageSuccessor(Staged(i, p.ocomp), height) THEN "Fatal"
  ELSE "Applied"

(* register_network_with_zk and set_zk_enabled *)
L2Outcome(p) ==
  IF p.op = "register"
  THEN IF networks[p.chain] = None /\ chainOf[p.owner] = None THEN "Applied" ELSE "Error"
  ELSE IF networks[p.chain] # None THEN "Applied" ELSE "Error"

(* execute_approved and release: fatal unless the reservation is the one the   *)
(* proposal made and, for a token, the ticker is still free.  A transfer policy  *)
(* that is not found or an initialization of the token that reverts is an Error, *)
(* whichever the state of the other modules decides.                            *)
CoinOutcomes(i) ==
  LET t == PayloadOf(i).ticker IN
  IF reserved[t] # i THEN {"Fatal"}
  ELSE IF TallyStatus(i) # "Approved" THEN {"Applied"}
  ELSE IF t \in tokens THEN {"Fatal"}
  ELSE {"Applied", "Error"}

(* handle_tally of the target. *)
Outcomes(i) ==
  LET p == PayloadOf(i) IN
  CASE p.target = "coin" -> CoinOutcomes(i)
    [] p.target = "update" /\ TallyStatus(i) = "Approved" -> {UpdateOutcome(i)}
    [] p.target = "l2" /\ TallyStatus(i) = "Approved" -> {L2Outcome(p)}
    [] OTHER -> {"Applied"}

-----------------------------------------------------------------------------
(* Mutant: the enclave policy is installed on approval. *)
ApplyUpdateAtOnce(i) ==
  LET p == PayloadOf(i) IN
  /\ scheduled' = [n \in ScheduledIds \cup {i} |->
                     IF n = i THEN "Scheduled" ELSE scheduled[n]]
  /\ waiting' = Append(waiting, i)
  /\ policy' = IF p.tee = None THEN policy ELSE p.tee
  /\ successor' = IF p.ocomp = None THEN successor ELSE Staged(i, p.ocomp)
  /\ UNCHANGED <<version, nextPolicy, bundle, retiring, lineage, live, until, l2Vars, coinVars>>

(* UpdateVoteTarget::handle_approved when nothing is in the way. *)
ApplyUpdate(i) ==
  LET p == PayloadOf(i) IN
  /\ scheduled' = [n \in ScheduledIds \cup {i} |->
                     IF n = i THEN "Scheduled" ELSE scheduled[n]]
  /\ waiting' = Append(waiting, i)
  /\ nextPolicy' = IF p.tee = None THEN nextPolicy ELSE Staged(i, p.tee)
  /\ successor' = IF p.ocomp = None THEN successor ELSE Staged(i, p.ocomp)
  /\ UNCHANGED <<version, policy, bundle, retiring, lineage, live, until, l2Vars, coinVars>>

ApplyL2(p) ==
  /\ networks' = [networks EXCEPT ![p.chain] =
       IF p.op = "register" THEN [owner |-> p.owner, zk |-> p.zk] ELSE [@ EXCEPT !.zk = p.zk]]
  /\ chainOf' = IF p.op = "register" THEN [chainOf EXCEPT ![p.owner] = p.chain] ELSE chainOf
  /\ UNCHANGED <<updateVars, registryVars, coinVars>>

(* consume_and_register, or release for a proposal that expired. *)
ApplyCoin(i) ==
  LET t == PayloadOf(i).ticker IN
  /\ reserved' = [reserved EXCEPT ![t] = 0]
  /\ tokens' = IF TallyStatus(i) = "Approved" THEN tokens \cup {t} ELSE tokens
  /\ UNCHANGED <<updateVars, registryVars, l2Vars>>

(* The effects of proposal i when its target answers "Applied". *)
Apply(i) ==
  LET target == PayloadOf(i).target
      approved == TallyStatus(i) = "Approved" IN
  \/ target = "coin" /\ ApplyCoin(i)
  \/ target = "update" /\ approved /\ ApplyUpdate(i)
  \/ target = "l2" /\ approved /\ ApplyL2(PayloadOf(i))
  \/ /\ target = "text" \/ (target # "coin" /\ ~approved)
     /\ UNCHANGED <<updateVars, registryVars, l2Vars, coinVars>>

(* remove_network, a call of the network's owner. *)
RemoveNetwork(c) ==
  /\ networks[c] # None
  /\ networks' = [networks EXCEPT ![c] = None]
  /\ chainOf' = [chainOf EXCEPT ![networks[c].owner] = None]
  /\ UNCHANGED <<updateVars, registryVars, coinVars>>

-----------------------------------------------------------------------------
(* Mutant: only an update that is already canceled loses its staged release. *)
OutdatedIfCanceled(staged, i) == scheduled[staged.id] # "Scheduled"

(* reconcile_staged_tee_policy and reconcile_staged_ocomp_successor: the       *)
(* staged release of the update that activates is promoted; one that belongs   *)
(* to an update which this activation outdates is discarded.                   *)
Outdated(staged, i) ==
  \/ scheduled[staged.id] # "Scheduled"
  \/ PayloadOf(staged.id).version <= PayloadOf(i).version

CanPromotePolicy(i) ==
  /\ height >= nextPolicy.at
  /\ Parent[nextPolicy.to] = policy

CanActivate(i) ==
  /\ nextPolicy # None /\ nextPolicy.id = i => CanPromotePolicy(i)
  /\ successor # None /\ successor.id = i => CanPromoteSuccessor(i, height)

ReconcilePolicy(i) ==
  \/ nextPolicy = None /\ UNCHANGED <<policy, nextPolicy>>
  \/ /\ nextPolicy # None /\ nextPolicy.id = i
     /\ policy' = nextPolicy.to
     /\ nextPolicy' = None
  \/ /\ nextPolicy # None /\ nextPolicy.id # i
     /\ nextPolicy' = IF Outdated(nextPolicy, i) THEN None ELSE nextPolicy
     /\ UNCHANGED policy

ReconcileSuccessor(i) ==
  \/ successor = None /\ UNCHANGED registryVars
  \/ successor # None /\ successor.id = i /\ PromoteSuccessor(height)
  \/ /\ successor # None /\ successor.id # i
     /\ successor' = IF Outdated(successor, i) THEN None ELSE successor
     /\ UNCHANGED <<bundle, retiring, lineage, live, until>>

(* cancel_outdated_waiting_updates, after the activated one left the index;    *)
(* each cancellation is a swap-remove, in the order of the index before.       *)
CancelOutdated(seq, v) ==
  FoldLeft(LAMBDA w, n : IF PayloadOf(n).version <= v THEN SwapRemove(w, n) ELSE w, seq, seq)

(* activate_scheduled_update *)
Activate(i) ==
  LET p == PayloadOf(i)
      rest == SwapRemove(waiting, i)
      kept == CancelOutdated(rest, p.version)
  IN
  /\ CanActivate(i)
  /\ ReconcilePolicy(i)
  /\ ReconcileSuccessor(i)
  /\ version' = p.version
  /\ waiting' = kept
  /\ scheduled' = [n \in ScheduledIds |->
       IF n = i THEN "Activated"
       ELSE IF n \in ToSet(rest) \ ToSet(kept) THEN "Canceled"
       ELSE scheduled[n]]
  /\ UNCHANGED <<l2Vars, coinVars>>

(* cancel_scheduled_update *)
Cancel(i) ==
  /\ waiting' = SwapRemove(waiting, i)
  /\ scheduled' = [scheduled EXCEPT ![i] = "Canceled"]
  /\ UNCHANGED <<version, policy, nextPolicy, registryVars, l2Vars, coinVars>>

-----------------------------------------------------------------------------
(* The waiting index holds exactly the scheduled updates, all of them newer    *)
(* than the active version and at different heights: the branch of             *)
(* activate_scheduled_update that finds an outdated update never runs.         *)
WaitingExact ==
  /\ IsInjective(waiting)
  /\ ToSet(waiting) = {i \in ScheduledIds : scheduled[i] = "Scheduled"}
  /\ \A n \in DOMAIN waiting : PayloadOf(waiting[n]).version > version
  /\ \A m, n \in DOMAIN waiting :
       PayloadOf(waiting[m]).at = PayloadOf(waiting[n]).at => m = n

(* Whatever is staged can be promoted when its update activates: the update is *)
(* still scheduled, the release still follows the active one, and no retiring  *)
(* bundle is in the way. The fatal arms of promote_staged_successor_policy_v1  *)
(* and promote_staged_successor are unreachable.                               *)
StagedPromotable ==
  /\ WaitingExact
  /\ nextPolicy # None =>
       /\ nextPolicy.id \in ToSet(waiting)
       /\ PayloadOf(nextPolicy.id).tee = nextPolicy.to
       /\ Parent[nextPolicy.to] = policy
  /\ successor # None =>
       /\ successor.id \in ToSet(waiting)
       /\ PayloadOf(successor.id).ocomp = successor.to
       /\ successor.at >= height
       /\ Parent[successor.to] = bundle
       /\ retiring = None

(* A ticker is held by the one open proposal that reserved it, from its        *)
(* creation until it is settled, for ever if its execution failed, and by       *)
(* nobody once a token has it: the invariant errors of consume_and_register     *)
(* and release cannot occur. Likewise                                          *)
(* networks and the owner index stay inverse to each other through             *)
(* registrations, failed registrations and removals (l2registry, runtime.rs).  *)
ReservationsExact ==
  /\ \A t \in Tickers :
       LET holders == {i \in ToSet(pending) : PayloadOf(i).target = "coin" /\ PayloadOf(i).ticker = t} IN
       /\ holders = IF reserved[t] = 0 THEN {} ELSE {reserved[t]}
       /\ t \in tokens => reserved[t] = 0
  /\ \A o \in Accounts, c \in Chains :
       chainOf[o] = c <=> (networks[c] # None /\ networks[c].owner = o)
=============================================================================
