---------------------------- MODULE ProtocolCycle ----------------------------
(***************************************************************************)
(* The daily settlement on top of Rewards: the ProtocolCycle trigger of the  *)
(* CycleTick system transaction (crates/system/cycle) settles a completed    *)
(* UTC day and freezes the gem obligations of its voters, and the            *)
(* RewardsGemDelivery transaction mints the oldest frozen batch              *)
(* (crates/system/rewards/src/api.rs).                                       *)
(*                                                                         *)
(* The begin-zone transactions of a block run in the order parent            *)
(* accounting, late credits, cycle tick, gem delivery.                       *)
(***************************************************************************)
EXTENDS Rewards

CONSTANTS
  Period,     \* period_seconds of the ProtocolCycle trigger
  Pool,       \* the validator share of the emission of a day
  Unit,       \* NATIVE_UNITS_PER_PROTOCOL_UNIT
  MaxBatch    \* bound: the late votes one block credits to another

ASSUME CycleAssumption ==
  /\ Period \in Nat \ {0}
  /\ Pool \in Nat
  /\ Unit \in Nat \ {0}
  /\ MaxBatch \in Nat

VARIABLES
  activeDay,      \* active_utc_day
  lastSlot,       \* last_executed_at of the ProtocolCycle trigger
  daySettled,     \* daily_settled
  topupSettled,   \* daily_topup_settled
  batch,          \* reward_gem_owner_at and reward_promis_load_at of a day
  head, tail,     \* reward_gem_queue_head, reward_gem_queue_tail
  pending,        \* reward_gem_pending_batch_count
  dayAt,          \* reward_gem_utc_day_by_sequence
  seqOf,          \* reward_gem_queue_sequence_plus_one
  minted,         \* gem load minted to every validator
  headroom        \* validator emission forwarded to Metadosis

gemVars == <<topupSettled, batch, head, tail, pending, dayAt, seqOf>>

vars == <<rewardVars, activeDay, lastSlot, daySettled, gemVars, minted, headroom>>

Sequences == 0..Cardinality(Days)
NoLoad == [v \in Validators |-> 0]

CycleTypeOK ==
  /\ RewardsTypeOK
  /\ activeDay \in Days
  /\ lastSlot \in 0..MaxClock
  /\ daySettled \subseteq Days
  /\ topupSettled \subseteq Days
  /\ batch \in [Days -> [Validators -> Nat]]
  /\ head \in Sequences
  /\ tail \in Sequences
  /\ pending \in Nat
  /\ dayAt \in [Sequences -> Days \cup {0}]
  /\ seqOf \in [Days -> Nat]
  /\ minted \in [Validators -> Nat]
  /\ headroom \in Nat

CycleInit ==
  /\ RewardsInit
  /\ activeDay = DayOf(clock)
  /\ lastSlot = 0
  /\ daySettled = {}
  /\ topupSettled = {}
  /\ batch = [d \in Days |-> NoLoad]
  /\ head = 0
  /\ tail = 0
  /\ pending = 0
  /\ dayAt = [i \in Sequences |-> 0]
  /\ seqOf = [d \in Days |-> 0]
  /\ minted = NoLoad
  /\ headroom = 0

-----------------------------------------------------------------------------
(* The calendar of the trigger. *)

(* next_fire_at and last_fire_at with offset 0. *)
NextFireAt(t) == (t \div Period + 1) * Period

LastFireAt(t) == (t \div Period) * Period

(* protocol_day_action *)
SameDay == DayOf(clock) = activeDay
SettlesPrevious == DayOf(clock) = activeDay + 1
SkipsMissed == DayOf(clock) > activeDay + 1

(* Mutant: a day is complete as soon as the calendar has left it. *)
DayCompleteAtMidnight(d) == TRUE

(* day_participation_complete *)
DayComplete(d) == close[d] = 0 \/ height > close[d]

(* accounting_gate_blocks *)
AccountingGateBlocks == height > 1 /\ accounted < height - 1

Due == /\ lastSlot # 0
       /\ clock >= NextFireAt(lastSlot)
       /\ ~AccountingGateBlocks

Fires == Due /\ (SettlesPrevious => DayComplete(activeDay))

-----------------------------------------------------------------------------
(* settle_emission_day *)

(* validator_gem_topup_protocol: fees are native, the budget is not. *)
TopUp(d) ==
  IF part[d] = NoLoad \/ feeSum[d] > Pool * Unit THEN 0
  ELSE (Pool * Unit - feeSum[d]) \div Unit

(* The loads of prepare_daily_validator_gem_batch; a zero load is no recipient. *)
Loads(d) ==
  LET total == SumOver(part[d], Validators)
  IN  [v \in Validators |->
        IF total = 0 THEN 0 ELSE (TopUp(d) * part[d][v]) \div total]

LoadSum(f) == SumOver(f, Validators)

(* Mutant: the remainders of the division are forwarded to nobody. *)
ExcessOfTopUp(d) == Pool - TopUp(d)

(* validator_excess: what the batch of d leaves of the emission. *)
Excess(d) == Pool - LoadSum(Loads(d))

(* Mutant: the reverse index holds the sequence number itself, 0 for the first. *)
QueuedFromZero(d, loads) ==
  /\ tail - head = pending
  /\ seqOf[d] = 0
  /\ batch' = [batch EXCEPT ![d] = loads]
  /\ dayAt' = [dayAt EXCEPT ![tail] = d]
  /\ seqOf' = [seqOf EXCEPT ![d] = tail]
  /\ tail' = tail + 1
  /\ pending' = pending + 1
  /\ UNCHANGED <<head, topupSettled>>

(* The append of a batch to the FIFO. *)
Queued(d, loads) ==
  /\ tail - head = pending
  /\ seqOf[d] = 0
  /\ batch' = [batch EXCEPT ![d] = loads]
  /\ dayAt' = [dayAt EXCEPT ![tail] = d]
  /\ seqOf' = [seqOf EXCEPT ![d] = tail + 1]
  /\ tail' = tail + 1
  /\ pending' = pending + 1
  /\ UNCHANGED <<head, topupSettled>>

(* A day nobody can be paid for is settled at once. *)
NoPayableShares(d) ==
  /\ topupSettled' = topupSettled \cup {d}
  /\ UNCHANGED <<batch, head, tail, pending, dayAt, seqOf>>

(* settle_emission_day; day_emission_limit has a positive floor, so the return    *)
(* for a limit of zero is never taken.                                           *)
SettleDay(d) ==
  /\ d \notin daySettled \cup prepared \cup topupSettled
  /\ LoadSum(Loads(d)) <= Pool
  /\ IF Loads(d) = NoLoad THEN NoPayableShares(d) ELSE Queued(d, Loads(d))
  /\ prepared' = prepared \cup {d}
  /\ headroom' = headroom + Excess(d)
  /\ daySettled' = daySettled \cup {d}

-----------------------------------------------------------------------------
(* CycleTick *)

TickDone ==
  /\ phase' = "gems"
  /\ UNCHANGED <<height, clock, summary, accounted, accounts, minted>>

(* The first encounter only anchors the trigger; a trigger that is not due, or  *)
(* that waits for the last late votes of the day, leaves everything as it is.   *)
Idle ==
  /\ phase = "cycle"
  /\ ~Fires
  /\ lastSlot' = IF lastSlot = 0 THEN clock ELSE lastSlot
  /\ TickDone
  /\ UNCHANGED <<prepared, activeDay, daySettled, gemVars, headroom>>

Fire ==
  /\ phase = "cycle"
  /\ Fires
  /\ lastSlot' = LastFireAt(clock)
  /\ TickDone

RunSameDay ==
  /\ Fire
  /\ SameDay
  /\ UNCHANGED <<prepared, activeDay, daySettled, gemVars, headroom>>

RunSettlePrevious ==
  /\ Fire
  /\ SettlesPrevious
  /\ SettleDay(activeDay)
  /\ activeDay' = DayOf(clock)

(* The days of a longer gap are forfeited. *)
RunSkipMissed ==
  /\ Fire
  /\ SkipsMissed
  /\ activeDay' = DayOf(clock)
  /\ UNCHANGED <<prepared, daySettled, gemVars, headroom>>

-----------------------------------------------------------------------------
(* RewardsGemDelivery: the whole oldest batch or nothing.  A failed mint rolls  *)
(* the transaction back and the block goes on.                                  *)

KeepBatch ==
  /\ phase = "gems"
  /\ phase' = "body"
  /\ UNCHANGED <<height, clock, summary, accounted, accounts, prepared, activeDay,
                 lastSlot, daySettled, gemVars, minted, headroom>>

Deliver ==
  LET d == dayAt[head]
  IN  /\ phase = "gems"
      /\ head < tail
      /\ tail - head = pending
      /\ d # 0
      /\ seqOf[d] = head + 1
      /\ d \in prepared \ topupSettled
      /\ batch[d] # NoLoad
      /\ minted' = [v \in Validators |-> minted[v] + batch[d][v]]
      /\ batch' = [batch EXCEPT ![d] = NoLoad]
      /\ dayAt' = [dayAt EXCEPT ![head] = 0]
      /\ seqOf' = [seqOf EXCEPT ![d] = 0]
      /\ topupSettled' = topupSettled \cup {d}
      /\ head' = head + 1
      /\ pending' = pending - 1
      /\ phase' = "body"
      /\ UNCHANGED <<height, clock, summary, accounted, accounts, prepared, activeDay,
                     lastSlot, daySettled, tail, headroom>>

-----------------------------------------------------------------------------
Batches == {s \in SUBSET Validators : Cardinality(s) <= MaxBatch}

cycleVars == <<activeDay, lastSlot, daySettled, gemVars, minted, headroom>>

(* The instance ends at its bound, so that a deadlock is a block that cannot be  *)
(* executed.                                                                     *)
AtBound == phase = "body" /\ height = MaxHeight /\ UNCHANGED vars

Next ==
  \/ /\ UNCHANGED cycleVars
     /\ \/ \E c \in Committees : \E base \in SUBSET c : AccountParent(c, base)
        \/ \E credits \in [InWindow -> Batches] : LateFinalizeCredits(credits)
        \/ \E fee \in Fees : \E t \in clock..MaxClock : ProduceBlock(fee, t)
  \/ Idle
  \/ RunSameDay
  \/ RunSettlePrevious
  \/ RunSkipMissed
  \/ KeepBatch
  \/ Deliver
  \/ AtBound

Spec == CycleInit /\ [][Next]_vars

-----------------------------------------------------------------------------
(* Properties *)

(* The contract holds exactly the escrows of the windows that are open and the *)
(* fees of a parent not yet accounted: every window can be settled in full,    *)
(* whatever was paid and burned before (settle_window, transfer_balance).       *)
Solvent ==
  balance = SumOver([b \in Blocks |-> win[b].fee], Blocks)
              + (IF phase = "parent" THEN summary.fee ELSE 0)

(* Late credits of the last K blocks always find their escrow, and nothing is   *)
(* open outside that window: an honest proposer never produces a block that     *)
(* authenticate_late_credit rejects, and no fee is stranded by settle_matured.  *)
OpenWindowsAreLastK ==
  LET first == IF phase \in {"parent", "late"} THEN height - K ELSE height - K + 1
  IN  {b \in Blocks : win[b].open} = {b \in Blocks : first <= b /\ b <= accounted}

(* Every seat in the committee of an accounted block is counted exactly once: as *)
(* participation of the day of the block, as a missed vote, or as a vote that    *)
(* may still arrive (record_reward_participation, record_window_close_absentees). *)
AttendanceExact ==
  \A v \in Validators :
    SumOver([d \in Days |-> part[d][v]], Days) + missed[v]
      + Cardinality({b \in Blocks : win[b].open /\ v \in Absentees(win[b], committee[b])})
    = Cardinality({b \in Blocks : v \in committee[b]})

(* The replay guards are kept for exactly the last Retain accounted blocks, and  *)
(* fee_settled for those of them whose window has closed: no block can be        *)
(* escrowed or settled again inside the horizon, and the guard maps are bounded  *)
(* (prune_block_guards).                                                         *)
GuardsCoverHorizon ==
  /\ counted = {b \in Blocks : accounted - Retain < b /\ b <= accounted}
  /\ settled = {b \in counted : ~win[b].open}

(* Once the gem batch of a day is prepared no vote for the day can arrive: its    *)
(* windows are closed, and neither the parent to account nor the block being      *)
(* executed belongs to it.  Otherwise record_reward_participation would fail the  *)
(* block with "reward participation arrived after GEM batch preparation".         *)
PreparedDaysFinal ==
  \A d \in prepared :
    /\ \A b \in Blocks : win[b].open => win[b].day # d
    /\ phase = "parent" => summary.day # d
    /\ DayOf(clock) # d

(* A settling window pays the same share to every member that had voted below     *)
(* distance K before the closing block, whoever else voted and however the vote   *)
(* was repeated (fixed_denominator, smallest distance rule).                      *)
TimelyVotersShareEqually ==
  [][\A b \in Blocks :
       win[b].open /\ ~win[b]'.open =>
         \A v \in Validators :
           win[b].k[v] \in 1..K =>
             paid'[v] - paid[v] = win[b].fee \div Cardinality(committee[b])]_vars

(* The FIFO holds exactly the prepared days that are not settled, each once, in    *)
(* calendar order, with matching reverse index and count: neither preparation nor  *)
(* delivery ever meets the inconsistencies they reject.                            *)
QueueSound ==
  /\ head <= tail
  /\ pending = tail - head
  /\ \A i \in Sequences : dayAt[i] # 0 <=> (head <= i /\ i < tail)
  /\ \A i, j \in head..tail - 1 : i < j => dayAt[i] < dayAt[j]
  /\ {dayAt[i] : i \in head..tail - 1} = prepared \ topupSettled
  /\ \A d \in Days :
       /\ seqOf[d] # 0 => dayAt[seqOf[d] - 1] = d
       /\ (seqOf[d] # 0) = (d \in prepared \ topupSettled)
       /\ (batch[d] # NoLoad) = (seqOf[d] # 0)

(* The validator emission of every settled day is minted, queued, or forwarded to   *)
(* Metadosis: nothing is minted twice and nothing is lost (settle_emission_day).    *)
EmissionConserved ==
  LoadSum(minted) + SumOver([d \in Days |-> LoadSum(batch[d])], Days) + headroom
    = Pool * Cardinality(daySettled)
=============================================================================
