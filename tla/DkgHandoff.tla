----------------------------- MODULE DkgHandoff -----------------------------
(***************************************************************************)
(* The change of committee on the chain, as the epoch loop of every node   *)
(* (engine/src/stack.rs) and the block handlers of consensus see it: a     *)
(* ceremony starts at the freeze height, its outcome is announced in a     *)
(* block of the outgoing epoch, and at the activation anchor each node     *)
(* moves to the incoming epoch, whose first block carries the boundary.    *)
(* Nodes learn of finalized blocks at their own pace, crash, and restart   *)
(* from the chain they have and the outcome they saved.                    *)
(*                                                                         *)
(* What a ceremony computes is the subject of DkgCeremony and what a node  *)
(* keeps on disk that of DkgStorage; here an outcome is known by the       *)
(* target it is for, and every node is a member of every committee.        *)
(***************************************************************************)
EXTENDS Integers, FiniteSets, Sequences

CONSTANTS
    Validators,     \* the committee
    Quorum,         \* votes that finalize a block
    EpochLength,    \* epoch_length_blocks
    PrepareWindow,  \* prepare_window_blocks
    Grace,          \* activation_grace_blocks
    MaxHeight,      \* bound: blocks
    MaxBreaks       \* bound: crashes and failed ceremonies

ASSUME HandoffAssumption ==
    /\ IsFiniteSet(Validators) /\ Quorum \in 1 .. Cardinality(Validators)
    /\ 2 * Quorum > Cardinality(Validators)
    /\ EpochLength \in Nat \ {0} /\ PrepareWindow \in 0 .. EpochLength /\ Grace \in Nat
    /\ MaxHeight \in Nat /\ MaxBreaks \in Nat

VARIABLES
    chain,     \* finalized blocks: epoch and header artifact
    node,      \* per validator: "up", "down", "failed"
    epoch,     \* per validator: current_epoch
    last,      \* per validator: last_dkg_activation_height
    view,      \* per validator: finalized height it has
    at,        \* per validator: height its epoch loop has handled
    ceremony,  \* per validator: "none", "running", "retry", "done"
    pending,   \* per validator: saved outcome, NoTarget: none
    breaks

handoffVars == <<chain, node, epoch, last, view, at, ceremony, pending, breaks>>

NoTarget == [epoch |-> 0, freeze |-> 0, planned |-> 0]
Targets == [epoch : Nat, freeze : Nat, planned : Nat]
NoArtifact == [kind |-> "none", target |-> NoTarget]
DealerLog(t) == [kind |-> "log", target |-> t]
PreAnnounce(t) == [kind |-> "preannounce", target |-> t]
BoundaryOutcome(t) == [kind |-> "boundary", target |-> t]

HandoffTypeOK ==
    /\ \A i \in DOMAIN chain : chain[i].epoch \in Nat /\ chain[i].artifact.target \in Targets
    /\ node \in [Validators -> {"up", "down", "failed"}]
    /\ epoch \in [Validators -> Nat] /\ last \in [Validators -> Nat]
    /\ view \in [Validators -> 0 .. Len(chain)] /\ at \in [Validators -> 0 .. Len(chain)]
    /\ ceremony \in [Validators -> {"none", "running", "retry", "done"}]
    /\ pending \in [Validators -> Targets] /\ breaks \in 0 .. MaxBreaks

-----------------------------------------------------------------------------
(***************************************************************************)
(* The schedule, from the height of the last activation.                   *)
(***************************************************************************)
Planned(activation) == activation + EpochLength
FreezeHeight(activation) == Planned(activation) - PrepareWindow
Deadline(t) == t.planned + Grace

(* frozen_dkg_target_expired *)
Expired(t, height) == height >= Deadline(t)

(* The target a node freezes in its epoch. *)
Target(n) == [epoch |-> epoch[n] + 1, freeze |-> FreezeHeight(last[n]), planned |-> Planned(last[n])]

(***************************************************************************)
(* The ceremony the manager of a node holds: from its first start in the   *)
(* epoch, through failures and completion, until the epoch or the process  *)
(* ends.                                                                   *)
(***************************************************************************)
CurrentCeremony(n) == IF ceremony[n] = "none" THEN {} ELSE {Target(n)}

(* The height up to which VrfSafetyGate allows blocks. *)
VrfExpiry(n) == Planned(last[n]) + Grace

(***************************************************************************)
(* find_exact_finalized_preannounce_carrier: the first block that          *)
(* announces the outcome, from the freeze height to the deadline.          *)
(***************************************************************************)
Carriers(t, height) ==
    {h \in 1 .. height : /\ t.freeze <= h /\ h <= Deadline(t)
                         /\ chain[h].artifact = PreAnnounce(t)}
Carrier(t, height) ==
    CHOOSE h \in Carriers(t, height) : \A k \in Carriers(t, height) : h <= k

(* pending_dkg_handoff_decision *)
HandoffDecision(t, height) ==
    CASE Carriers(t, height) # {} /\ height >= t.planned ->
            [do |-> "activate",
             anchor |-> IF Carrier(t, height) > t.planned THEN Carrier(t, height) ELSE t.planned]
      [] Carriers(t, height) = {} /\ height >= Deadline(t) -> [do |-> "expired", anchor |-> 0]
      [] OTHER -> [do |-> "wait", anchor |-> 0]

-----------------------------------------------------------------------------
HandoffInit ==
    /\ chain = <<>>
    /\ node = [n \in Validators |-> "up"]
    /\ epoch = [n \in Validators |-> 0]
    /\ last = [n \in Validators |-> 0]
    /\ view = [n \in Validators |-> 0]
    /\ at = [n \in Validators |-> 0]
    /\ ceremony = [n \in Validators |-> "none"]
    /\ pending = [n \in Validators |-> NoTarget]
    /\ breaks = 0

(***************************************************************************)
(* Blocks.                                                                 *)
(***************************************************************************)
Committed(t) == \E h \in DOMAIN chain : chain[h].artifact = BoundaryOutcome(t)

(* The dealer logs of its ceremony are on the node's chain: one block *)
(* stands for the quorum of them.                                      *)
LogsOnChain(n) ==
    \E h \in 1 .. view[n] : h >= Target(n).freeze /\ chain[h].artifact = DealerLog(Target(n))

(***************************************************************************)
(* The artifacts a proposer may put into its header.  Without an outcome   *)
(* it carries a dealer log of its ceremony if it has one to emit; a log    *)
(* that is on the chain is pruned.                                         *)
(***************************************************************************)
ProposedArtifacts(p) ==
    CASE pending[p].epoch = epoch[p] /\ epoch[p] > 0 ->
            {IF Committed(pending[p]) THEN NoArtifact ELSE BoundaryOutcome(pending[p])}
      [] pending[p].epoch = epoch[p] + 1 -> {PreAnnounce(pending[p])}
      [] OTHER -> {NoArtifact} \cup {DealerLog(t) : t \in {c \in CurrentCeremony(p) : ~LogsOnChain(p)}}

(***************************************************************************)
(* validate_header_consensus_artifacts_for_activation.  A dealer log is    *)
(* verified against the ceremony the voter's own manager holds.            *)
(***************************************************************************)
ArtifactAccepted(n, artifact) ==
    LET mine == pending[n].epoch = epoch[n] /\ epoch[n] > 0
    IN  CASE mine /\ ~Committed(pending[n]) -> artifact = BoundaryOutcome(pending[n])
          [] mine /\ Committed(pending[n]) -> artifact.kind # "boundary"
          [] OTHER -> \/ artifact \in {NoArtifact, PreAnnounce(pending[n])}
                      \/ \E t \in CurrentCeremony(n) : artifact = DealerLog(t)

(***************************************************************************)
(* A quorum finalizes the next block.  A voter must be in the epoch of the *)
(* block (the fence), must have its parent finalized where the epoch       *)
(* changes, and must hold VRF material that has not expired.               *)
(***************************************************************************)
FinalizeBlock(p, voters, artifact) ==
    LET height == Len(chain) + 1
    IN  /\ height <= MaxHeight
        /\ \A n \in voters :
             /\ node[n] = "up" /\ epoch[n] = epoch[p] /\ view[n] = Len(chain)
             /\ height <= VrfExpiry(n)
             /\ ArtifactAccepted(n, artifact)
        /\ chain' = Append(chain, [epoch |-> epoch[p], artifact |-> artifact])
        /\ view' = [n \in Validators |-> IF n \in voters THEN height ELSE view[n]]
        /\ UNCHANGED <<node, epoch, last, at, ceremony, pending, breaks>>

(***************************************************************************)
(* Another node catches up.  It can verify the certificate of a block only *)
(* in an epoch whose committee it has registered.                          *)
(***************************************************************************)
DeliverBlock(n) ==
    /\ node[n] = "up" /\ view[n] < Len(chain) /\ chain[view[n] + 1].epoch <= epoch[n]
    /\ view' = [view EXCEPT ![n] = @ + 1]
    /\ UNCHANGED <<chain, node, epoch, last, at, ceremony, pending, breaks>>

-----------------------------------------------------------------------------
(***************************************************************************)
(* The epoch loop.  A height is handled only while no ceremony is running. *)
(***************************************************************************)

Fail(n) ==
    /\ node' = [node EXCEPT ![n] = "failed"]
    /\ UNCHANGED <<epoch, last, ceremony, pending>>

(* The outcome waits for its carrier, and activates at its anchor. *)
HandlePending(n, height) ==
    LET decision == HandoffDecision(pending[n], height)
    IN  /\ pending[n].epoch = epoch[n] + 1
        /\ \/ decision.do = "expired" /\ Fail(n)
           \/ decision.do = "wait" /\ UNCHANGED <<node, epoch, last, ceremony, pending>>
           \/ /\ decision.do = "activate"
              /\ epoch' = [epoch EXCEPT ![n] = @ + 1]
              /\ last' = [last EXCEPT ![n] = decision.anchor]
              /\ ceremony' = [ceremony EXCEPT ![n] = "none"]
              /\ UNCHANGED <<node, pending>>

(* A frozen target expires or its ceremony is run again. *)
HandleRetry(n, height) ==
    /\ ceremony[n] = "retry"
    /\ \/ Expired(Target(n), height) /\ Fail(n)
       \/ /\ ~Expired(Target(n), height)
          /\ ceremony' = [ceremony EXCEPT ![n] = "running"]
          /\ UNCHANGED <<node, epoch, last, pending>>

(* The committed boundary is retired; at the freeze height a ceremony starts. *)
HandleSchedule(n, height) ==
    /\ pending[n].epoch # epoch[n] + 1 /\ ceremony[n] = "none"
    /\ pending' = [pending EXCEPT ![n] =
                      IF chain[height].artifact = BoundaryOutcome(@) THEN NoTarget ELSE @]
    /\ ceremony' = [ceremony EXCEPT ![n] =
                      IF height >= FreezeHeight(last[n]) THEN "running" ELSE @]
    /\ UNCHANGED <<node, epoch, last>>

HandleHeight(n) ==
    LET height == at[n] + 1
    IN  /\ node[n] = "up" /\ ceremony[n] # "running" /\ at[n] < view[n]
        /\ HandlePending(n, height) \/ HandleRetry(n, height) \/ HandleSchedule(n, height)
        /\ at' = [at EXCEPT ![n] = height]
        /\ UNCHANGED <<chain, view, breaks>>

(***************************************************************************)
(* The result of a ceremony.  It can succeed once its dealer logs are on   *)
(* the node's chain, and a quorum takes part or somebody has the outcome.  *)
(* The outcome is saved, and the height is handled again.                  *)
(***************************************************************************)
OutcomeReachable(t) ==
    \/ Cardinality({m \in Validators : ceremony[m] = "running" /\ Target(m) = t}) >= Quorum
    \/ \E m \in Validators : pending[m] = t

ExitLoop(n) ==
    /\ node' = [node EXCEPT ![n] = "down"]
    /\ ceremony' = [ceremony EXCEPT ![n] = "none"]
    /\ UNCHANGED <<pending, at>>

DkgResult(n) ==
    /\ node[n] = "up" /\ ceremony[n] = "running"
    /\ LogsOnChain(n) /\ OutcomeReachable(Target(n))
    /\ \/ Expired(Target(n), view[n]) /\ ExitLoop(n)
       \/ /\ ~Expired(Target(n), view[n])
          /\ pending' = [pending EXCEPT ![n] = Target(n)]
          /\ ceremony' = [ceremony EXCEPT ![n] = "done"]
          /\ at' = [at EXCEPT ![n] = IF @ = view[n] THEN @ - 1 ELSE @]
          /\ UNCHANGED node
    /\ UNCHANGED <<chain, epoch, last, view, breaks>>

DkgFailure(n) ==
    /\ node[n] = "up" /\ ceremony[n] = "running" /\ breaks < MaxBreaks
    /\ breaks' = breaks + 1
    /\ \/ Expired(Target(n), view[n]) /\ ExitLoop(n)
       \/ /\ ~Expired(Target(n), view[n])
          /\ ceremony' = [ceremony EXCEPT ![n] = "retry"]
          /\ UNCHANGED <<node, pending, at>>
    /\ UNCHANGED <<chain, epoch, last, view>>

-----------------------------------------------------------------------------
CrashNode(n) ==
    /\ node[n] = "up" /\ breaks < MaxBreaks
    /\ breaks' = breaks + 1
    /\ ExitLoop(n)
    /\ UNCHANGED <<chain, epoch, last, view>>

(* Mutant: the height of the block that carries the boundary. *)
RecoveredAnchorAtCommit(commit) == commit

(* The boundary rides the first block above its anchor. *)
RecoveredAnchor(commit) == IF commit = 0 THEN 0 ELSE commit - 1

(* A saved outcome counts until the chain of the node has its boundary. *)
Restored(saved, current) == IF saved.epoch <= current THEN NoTarget ELSE saved

(***************************************************************************)
(* Start: the latest boundary of the node's chain gives epoch and anchor;  *)
(* a saved outcome of the next epoch waits, is activated or has expired.   *)
(* A node has blocks of an epoch only if it has activated it, and so has   *)
(* the material.                                                           *)
(***************************************************************************)
StartNode(n) ==
    LET boundaries == {h \in 1 .. view[n] : chain[h].artifact.kind = "boundary"}
        commit == IF boundaries = {} THEN 0
                  ELSE CHOOSE h \in boundaries : \A k \in boundaries : k <= h
        current == IF commit = 0 THEN 0 ELSE chain[commit].epoch
        saved == Restored(pending[n], current)
        decision == HandoffDecision(saved, view[n])
        activates == saved.epoch = current + 1 /\ decision.do = "activate"
    IN  /\ node[n] = "down"
        /\ \/ saved.epoch = current + 1 /\ decision.do = "expired" /\ Fail(n) /\ UNCHANGED at
           \/ /\ ~(saved.epoch = current + 1 /\ decision.do = "expired")
              /\ node' = [node EXCEPT ![n] = "up"]
              /\ epoch' = [epoch EXCEPT ![n] = IF activates THEN current + 1 ELSE current]
              /\ last' = [last EXCEPT ![n] = IF activates THEN decision.anchor
                                             ELSE RecoveredAnchor(commit)]
              /\ pending' = [pending EXCEPT ![n] = saved]
              /\ at' = [at EXCEPT ![n] = view[n]]
              /\ UNCHANGED ceremony
        /\ UNCHANGED <<chain, view, breaks>>

Quorums == {voters \in SUBSET Validators : Cardinality(voters) = Quorum}

FinalizeSome ==
    \E voters \in Quorums : \E p \in voters :
        \E artifact \in ProposedArtifacts(p) : FinalizeBlock(p, voters, artifact)

HandoffNext ==
    \/ \E n \in Validators : \/ DeliverBlock(n) \/ HandleHeight(n) \/ DkgResult(n)
                             \/ DkgFailure(n) \/ CrashNode(n) \/ StartNode(n)
    \/ FinalizeSome

(***************************************************************************)
(* Every process that is up runs and every node that is down is started;   *)
(* a committee with a quorum finalizes blocks.                             *)
(***************************************************************************)
HandoffStep(n) == DeliverBlock(n) \/ HandleHeight(n) \/ DkgResult(n) \/ StartNode(n)

HandoffSpec == HandoffInit /\ [][HandoffNext]_handoffVars
FairHandoffSpec ==
    /\ HandoffSpec
    /\ \A n \in Validators : WF_handoffVars(HandoffStep(n))
    /\ WF_handoffVars(FinalizeSome)

-----------------------------------------------------------------------------
(***************************************************************************)
(* A committee takes over once, with the first block of its epoch, and     *)
(* only after a block of the outgoing committee that announces it was      *)
(* finalized no later than the deadline, and not before the planned        *)
(* height.                                                                 *)
(***************************************************************************)
HandoffAuthorized ==
    \A h \in DOMAIN chain :
        LET t == chain[h].artifact.target
            starts == h > 1 /\ chain[h].epoch # chain[h - 1].epoch
        IN  /\ chain[h].artifact.kind = "boundary" <=> starts
            /\ starts => /\ t.epoch = chain[h].epoch /\ chain[h].epoch = chain[h - 1].epoch + 1
                         /\ h > t.planned
                         /\ \E c \in Carriers(t, h - 1) : chain[c].epoch = t.epoch - 1

(* The outgoing epoch has finalized blocks above the anchor of a handoff. *)
Overshot(e) ==
    \E h \in DOMAIN chain :
        LET t == chain[h].artifact.target
        IN  /\ chain[h].artifact.kind = "boundary" /\ t.epoch <= e
            /\ h - 1 # HandoffDecision(t, h - 1).anchor

(***************************************************************************)
(* Nodes of one epoch count it from one anchor, whether they crossed the   *)
(* boundary live, restarted from a saved outcome or restarted from the     *)
(* block that carries the boundary, unless the outgoing committee went on  *)
(* above the anchor.  They therefore freeze the same targets.              *)
(***************************************************************************)
AnchorsAgree ==
    \A n, m \in Validators :
        node[n] = "up" /\ node[m] = "up" /\ epoch[n] = epoch[m] =>
            last[n] = last[m] \/ Overshot(epoch[n])

(* Both: committees change as authorized, and their nodes agree on when.  *)
HandoffSafe == HandoffAuthorized /\ AnchorsAgree

(***************************************************************************)
(* With finitely many crashes and failed ceremonies the committees go on   *)
(* to change and the chain to grow, unless the VRF material expires before *)
(* an outcome is announced: no split of the nodes between two epochs, and  *)
(* no loss of an outcome, stops a chain that has time left.                *)
(***************************************************************************)
VrfExpired ==
    \E n \in Validators : Len(chain) >= VrfExpiry(n) /\ Carriers(Target(n), Len(chain)) = {}
HandoffsDone == Len(chain) = MaxHeight \/ VrfExpired
HandoffCompletes == <>HandoffsDone
=============================================================================
