------------------------------- MODULE Staking -------------------------------
(***************************************************************************)
(* The stake ledger on top of ValidatorSet: bonded stake, the native balance *)
(* of the staking contract, and the unbonding queue with its per-validator   *)
(* linked lists (crates/system/staking/src/logic.rs).                        *)
(*                                                                         *)
(* The queue is a sequence, so position i is the stored index idx + 1 of the *)
(* code and 0 ends a list, as in storage.  One block is one unit of time.    *)
(* Every action carries the action of ValidatorSet that the same call makes, *)
(* so this module implements the specification of that one.                  *)
(***************************************************************************)
EXTENDS ValidatorSet, SequencesExt

CONSTANTS
  Actors,                \* the addresses that act and are punished in an instance
  NoOne,                 \* Address::ZERO, the owner of a zeroed entry
  Wallet,                \* native coins of every address at the start
  UnbondingPeriod,       \* config_unbonding_period
  SlashedDelay,          \* slashed_withdrawal_delay
  SlashPercents,         \* the percentages slash_stake is called with (slash indicator, oracle)
  OcompDivisor,          \* OCOMP_MISS_SLASH_PERCENT, used as a divisor
  MaxStakePercent,       \* config_max_stake_percent, 0 when off
  LastCall,              \* bound: the last block in which a validator acts
  MaxCompaction          \* MAX_COMPACTION_PER_BLOCK

ASSUME StakingAssumption ==
  /\ Actors \subseteq Validators
  /\ NoOne \notin Validators
  /\ Wallet \in Nat
  /\ UnbondingPeriod \in Nat
  /\ SlashedDelay \in Nat
  /\ SlashPercents \subseteq 0..100
  /\ OcompDivisor \in Nat \ {0}
  /\ MaxStakePercent \in 0..100
  /\ MaxCompaction \in Nat

VARIABLES
  stake,      \* stake_amount
  total,      \* total_staked
  balance,    \* native balance of STAKING_ADDRESS
  wallet,     \* native balance of every validator address
  queue,      \* the unbonding entries below unbonding_count
  head        \* per_val_unbonding_head

ledger == <<stake, total, balance, wallet, queue, head>>

Entry == [owner : Validators \cup {NoOne}, amount : Nat, time : Nat, next : Nat]

ZeroedEntry == [owner |-> NoOne, amount |-> 0, time |-> 0, next |-> 0]

LedgerTypeOK ==
  /\ TypeOK
  /\ stake \in [Validators -> Nat]
  /\ total \in Nat
  /\ balance \in Nat
  /\ wallet \in [Validators -> Nat]
  /\ queue \in Seq(Entry)
  /\ head \in [Validators -> Nat]

(* The passive founders of an instance hold the minimum. *)
StakingInit ==
  /\ Init
  /\ \A v \in Founders \ Actors : val[v].bonded = MinStake
  /\ stake = [v \in Validators |-> val[v].bonded]
  /\ total = MapThenSumSet(LAMBDA v : val[v].bonded, Validators)
  /\ balance = total
  /\ wallet = [v \in Validators |-> Wallet]
  /\ queue = <<>>
  /\ head = [v \in Validators |-> 0]

-----------------------------------------------------------------------------
(* The unbonding queue. *)

(* The positions on the list of v, from its head on. *)
List(v) ==
  LET from[i \in 0..Len(queue)] ==
        IF i = 0 THEN <<>> ELSE <<i>> \o from[queue[i].next]
  IN  from[head[v]]

(* enqueue_unbonding on a queue and heads: the entry goes to the front. *)
Enqueued(qh, v, a, t) ==
  IF a = 0 THEN qh
  ELSE [q |-> Append(qh.q, [owner |-> v, amount |-> a, time |-> t,
                            next |-> qh.h[v]]),
        h |-> [qh.h EXCEPT ![v] = Len(qh.q) + 1]]

(* has_pending_unbonding *)
HasPending(v) == \E i \in ToSet(List(v)) : queue[i].amount # 0

(* Mutant: an entry is paid one block early. *)
ClaimStepEarly(st, i) ==
  IF height + 1 >= st.q[i].time
  THEN [st EXCEPT !.q[i] = ZeroedEntry, !.paid = @ + st.q[i].amount]
  ELSE IF st.first = 0
  THEN [st EXCEPT !.first = i, !.tail = i]
  ELSE [st EXCEPT !.q[st.tail].next = i, !.tail = i]

(* One turn of the loop of claim_unbonded: a mature entry is paid and zeroed, *)
(* another is linked behind the last one that is kept.                       *)
ClaimStep(st, i) ==
  IF height >= st.q[i].time
  THEN [st EXCEPT !.q[i] = ZeroedEntry, !.paid = @ + st.q[i].amount]
  ELSE IF st.first = 0
  THEN [st EXCEPT !.first = i, !.tail = i]
  ELSE [st EXCEPT !.q[st.tail].next = i, !.tail = i]

(* What claim pays and the list it leaves. *)
Claimed(v) ==
  LET end == FoldLeft(ClaimStep, [q |-> queue, first |-> 0, tail |-> 0, paid |-> 0],
                      List(v))
  IN  IF end.tail = 0 THEN end ELSE [end EXCEPT !.q[end.tail].next = 0]

(* The part of slash_stake that walks the list: every live entry loses its   *)
(* share and completes no earlier than the delay for slashed validators.     *)
Cut(amount, percent) == (amount * percent) \div 100

(* Mutant: the walk stops at the head of the list. *)
SlashedQueueHeadOnly(v, percent) ==
  [i \in DOMAIN queue |->
     IF i = head[v] /\ queue[i].amount # 0
     THEN [queue[i] EXCEPT !.amount = @ - Cut(@, percent),
                           !.time = IF @ < height + SlashedDelay
                                    THEN height + SlashedDelay ELSE @]
     ELSE queue[i]]

SlashedQueue(v, percent) ==
  [i \in DOMAIN queue |->
     IF i \in ToSet(List(v)) /\ queue[i].amount # 0
     THEN [queue[i] EXCEPT !.amount = @ - Cut(@, percent),
                           !.time = IF @ < height + SlashedDelay
                                    THEN height + SlashedDelay ELSE @]
     ELSE queue[i]]

(* What the cut of the queued coins burns. *)
QueueCut(v, percent) ==
  MapThenSumSet(LAMBDA i : Cut(queue[i].amount, percent), ToSet(List(v)))

(* The tail-trim of process_unbonding: zeroed entries at the end, a bounded   *)
(* number per block.                                                         *)
(* Mutant: an entry that was slashed to nothing is trimmed like a zeroed one. *)
TrimmedByAmount(q) ==
  SubSeq(q, 1, Max({0, Len(q) - MaxCompaction}
                   \cup {i \in DOMAIN q : q[i].amount # 0}))

Trimmed(q) ==
  SubSeq(q, 1, Max({0, Len(q) - MaxCompaction}
                   \cup {i \in DOMAIN q : q[i].owner # NoOne}))

-----------------------------------------------------------------------------
(* Transactions of a validator on its own stake. *)

StakeShareAllowed(v, a) ==
  \/ MaxStakePercent \in {0, 100}
  \/ total = 0
  \/ (stake[v] + a) * 100 <= MaxStakePercent * (total + a)

(* stake, with the value transferred by the call *)
Stake(v, a) ==
  /\ a > 0
  /\ a <= wallet[v]
  /\ stake[v] + a <= MaxStake
  /\ StakeShareAllowed(v, a)
  /\ IncreaseStake(v, stake[v] + a)
  /\ stake' = [stake EXCEPT ![v] = @ + a]
  /\ total' = total + a
  /\ balance' = balance + a
  /\ wallet' = [wallet EXCEPT ![v] = @ - a]
  /\ UNCHANGED <<queue, head>>

(* unstake *)
Withdraw(v, a) ==
  /\ a > 0
  /\ a <= stake[v]
  /\ Unstake(v, stake[v] - a)
  /\ stake' = [stake EXCEPT ![v] = @ - a]
  /\ total' = total - a
  /\ LET qh == Enqueued([q |-> queue, h |-> head], v, a, height + UnbondingPeriod)
     IN  queue' = qh.q /\ head' = qh.h
  /\ UNCHANGED <<balance, wallet>>

(* claim_unbonded, with finalize_inactive_if_complete at its end *)
ClaimUnbonded(v) ==
  LET c == Claimed(v)
      kept == {i \in ToSet(List(v)) : c.q[i].amount # 0}
  IN  /\ phase = "user"
      /\ c.paid <= balance
      /\ queue' = c.q
      /\ head' = [head EXCEPT ![v] = c.first]
      /\ balance' = balance - c.paid
      /\ wallet' = [wallet EXCEPT ![v] = @ + c.paid]
      /\ IF val[v].lc = "Unbonding" /\ stake[v] = 0 /\ kept = {}
         THEN CompleteUnbonding(v)
         ELSE UNCHANGED vars
      /\ UNCHANGED <<stake, total>>

(* unjail_validator *)
UnjailValidator(v) ==
  /\ stake[v] >= MinStake
  /\ Unjail(v)
  /\ UNCHANGED ledger

-----------------------------------------------------------------------------
(* Penalties. *)

(* jail_validator followed by slash_stake; the slashed coins are burned.  The *)
(* reward of an evidence submitter is left out: coins minted outside the      *)
(* contract.                                                                 *)
SlashFelony(v, percent) ==
  LET cut == Cut(stake[v], percent)
      queued == QueueCut(v, percent)
  IN  /\ Felony(v, stake[v] - cut)
      /\ cut + queued <= balance
      /\ stake' = [stake EXCEPT ![v] = @ - cut]
      /\ total' = total - cut
      /\ queue' = SlashedQueue(v, percent)
      /\ balance' = balance - cut - queued
      /\ UNCHANGED <<wallet, head>>

(* record_ocomp_miss: only the miss that opens a window takes bonded stake,   *)
(* and it leaves the unbonding entries alone.                                *)
OpensWindow(v) ==
  Resolved(v, val[v]).lc = "Active" /\ ResolvedDeadline(v) = 0

SlashOcompMiss(v) ==
  LET cut == IF OpensWindow(v) THEN stake[v] \div OcompDivisor ELSE 0
  IN  /\ OcompMiss(v, stake[v] - cut)
      /\ cut <= total
      /\ cut <= balance
      /\ stake' = [stake EXCEPT ![v] = @ - cut]
      /\ total' = total - cut
      /\ balance' = balance - cut
      /\ UNCHANGED <<wallet, queue, head>>

-----------------------------------------------------------------------------
(* process_unbonding, at the start of a block: the stake left with excluded   *)
(* validators is queued, with the longer delay for a slashed one; drained     *)
(* validators become inactive; the queue is trimmed.                         *)

Leaving == {v \in Validators : val[v].lc = "Unbonding" /\ stake[v] # 0}

(* Mutant: entries that still wait for payment are not looked at. *)
DrainedOfStake == {v \in Validators : val[v].lc = "Unbonding" /\ stake[v] = 0}

Drained == {v \in Validators : /\ val[v].lc = "Unbonding"
                               /\ stake[v] = 0
                               /\ ~HasPending(v)}

CompleteTime(v) ==
  height + 1 + (IF val[v].slashes > 0 THEN SlashedDelay ELSE UnbondingPeriod)

ProcessUnbonding ==
  LET qh == FoldLeft(LAMBDA acc, v : Enqueued(acc, v, stake[v], CompleteTime(v)),
                     [q |-> queue, h |-> head], SetToSeq(Leaving))
  IN  /\ MapThenSumSet(LAMBDA v : stake[v], Leaving) <= total
      /\ stake' = [v \in Validators |-> IF v \in Leaving THEN 0 ELSE stake[v]]
      /\ total' = total - MapThenSumSet(LAMBDA v : stake[v], Leaving)
      /\ queue' = Trimmed(qh.q)
      /\ head' = qh.h
      /\ UNCHANGED <<balance, wallet>>

StartBlock ==
  /\ NewBlock(Drained)
  /\ ProcessUnbonding

Callers == {v \in Actors : height <= LastCall[v]}

(* The steps that leave the ledger alone. *)
OtherStep ==
  /\ \/ \E v \in Callers :
          RegisterValidator(v) \/ ConfirmReady(v) \/ Deactivate(v)
     \/ \E expired \in SUBSET Actors : CycleTick(expired)
     \/ \E gone \in SUBSET Validators : BoundaryOutcome(gone)
     \/ NoBoundary
     \/ AtBound
  /\ UNCHANGED ledger

StakingNext ==
  \/ \E v \in Callers :
       \/ \E a \in 1..MaxStake : Stake(v, a) \/ Withdraw(v, a)
       \/ ClaimUnbonded(v)
       \/ UnjailValidator(v)
       \/ \E percent \in SlashPercents : SlashFelony(v, percent)
       \/ SlashOcompMiss(v)
  \/ StartBlock
  \/ OtherStep

StakingSpec == StakingInit /\ [][StakingNext]_<<vars, ledger>>

-----------------------------------------------------------------------------
(* Properties. *)

(* The books balance after every composite call: the mirror that ValidatorSet  *)
(* decides lifecycles by is the stake that Staking pays out of; a validator is  *)
(* inactive only when nothing of its money is left in the contract, neither     *)
(* stake nor an entry with an amount (mark_inactive); and the native balance is *)
(* the bonded total plus every queued amount, through partial withdrawals,      *)
(* slashes that round, claims and trims.                                       *)
BooksBalance ==
  /\ \A v \in Validators :
       /\ val[v].bonded = stake[v]
       /\ val[v].lc \in {"Absent", "Inactive"} => stake[v] = 0 /\ ~HasPending(v)
  /\ total = MapThenSumSet(LAMBDA v : stake[v], Validators)
  /\ balance = total + MapThenSumSet(LAMBDA i : queue[i].amount, DOMAIN queue)

(* The linked lists partition the live entries: an entry is on the list of    *)
(* its owner exactly once, lists run strictly backwards in the queue and meet *)
(* no zeroed entry, whatever claims relinked and trims cut off.              *)
ListsPartitionQueue ==
  /\ \A v \in Validators : head[v] <= Len(queue)
  /\ \A i \in DOMAIN queue : queue[i].next < i
  /\ \A v \in Validators :
       ToSet(List(v)) = {i \in DOMAIN queue : queue[i].owner = v}

(* Stake and queued amounts shrink only as the operation says: an entry that  *)
(* loses its amount or moves earlier is a mature one of a claim, and a slash   *)
(* never brings a completion forward.                                        *)
EntriesHeldToMaturity ==
  [][\A i \in DOMAIN queue :
       queue[i].amount # 0 =>
         \/ i \in DOMAIN queue' /\ queue'[i].owner = queue[i].owner
                               /\ queue'[i].time >= queue[i].time
         \/ height >= queue[i].time]_<<vars, ledger>>

(* The queue, the lists and their relinking are invisible to the owners: the  *)
(* entries of an owner, newest first, are its claims in StakeClaims, and every *)
(* step of this module is a step of that one.  In particular a claim pays      *)
(* exactly the mature entries, a slash reaches every live one, and no trim     *)
(* loses any.                                                                 *)
ClaimsOf(v) ==
  LET mine == SelectSeq(Reverse(queue), LAMBDA e : e.owner = v)
  IN  [k \in DOMAIN mine |-> [amount |-> mine[k].amount, time |-> mine[k].time]]

Promise == INSTANCE StakeClaims
             WITH Owners <- Validators, now <- height, bonded <- stake,
                  claims <- [v \in Validators |-> ClaimsOf(v)], purse <- wallet

ImplementsClaims == Promise!ClaimsSpec
=============================================================================
