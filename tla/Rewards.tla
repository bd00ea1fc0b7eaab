------------------------------- MODULE Rewards -------------------------------
(***************************************************************************)
(* Fee escrow, late finalize credits and daily participation               *)
(* (crates/system/rewards), as the begin-zone system transactions of a block *)
(* drive them (crates/blockchain/evm/src/begin_block_precompile.rs).         *)
(*                                                                         *)
(* Block N accounts its parent N - 1: the fees of the parent are escrowed    *)
(* and the signers of its certificate are credited at distance 0.  Votes     *)
(* that arrive late are credited at distance k = 1..K.  At N + K the window  *)
(* closes: whoever voted shares the fees by distance, the rest is burned,    *)
(* and the members that never voted are recorded as absent.                  *)
(*                                                                         *)
(* A finalized block has one hash, so its number stands for the hash.  The   *)
(* enumerable voter lists are the supports of the maps they enumerate.       *)
(***************************************************************************)
EXTENDS Integers, FiniteSets, Sums

CONSTANTS
  Validators,
  Committees,     \* the committees that certify blocks
  K,              \* LATE_FINALIZE_WINDOW_K
  WMax,           \* LATE_FINALIZE_W_MAX
  Retain,         \* BLOCK_GUARD_RETAIN
  Fees,           \* the fee sums a block may collect
  DayLength,      \* timestamps per UTC day
  MaxHeight,      \* bound: the last block of an instance
  MaxClock        \* bound: the last timestamp of an instance

ASSUME RewardsAssumption ==
  /\ IsFiniteSet(Validators)
  /\ Committees \subseteq SUBSET Validators
  /\ \A c \in Committees : IsFiniteSet(c) /\ c # {}
  /\ K \in Nat \ {0}
  /\ WMax \in Nat \ {0}
  /\ Retain \in Nat /\ Retain > K
  /\ Fees \subseteq Nat
  /\ DayLength \in Nat \ {0}
  /\ MaxHeight \in Nat \ {0}
  /\ MaxClock \in Nat \ {0}

VARIABLES
  height,      \* number of the block being executed
  clock,       \* its timestamp
  phase,       \* the next system transaction of the block
  summary,     \* execution summary of the parent: fee sum and UTC day
  accounted,   \* last_accounted_block_number
  committee,   \* committee snapshots, by the block they certified
  win,         \* the inclusion window of every block
  counted,     \* block_metadata_counted, metadata_fingerprint_for_block
  settled,     \* fee_settled
  ring,        \* block_guard_ring
  seq,         \* block_guard_ring_seq
  part,        \* daily_participation
  feeSum,      \* daily_fee_sum_raw
  close,       \* daily_last_window_close
  prepared,    \* daily_topup_prepared
  balance,     \* native balance of REWARDS_ADDRESS
  paid,        \* what every voter has received
  burned,      \* residues burned and recycled as Metadosis headroom
  missed       \* history: increments of val_missed_votes, which epochs reset

accounts == <<committee, win, counted, settled, ring, seq, part, feeSum, close,
              balance, paid, burned, missed>>

rewardVars == <<height, clock, phase, summary, accounted, accounts, prepared>>

Blocks == 1..MaxHeight
Days == 1..(MaxClock \div DayLength + 1)
Phases == {"parent", "late", "cycle", "gems", "body"}

(* timestamp_to_date_key *)
DayOf(t) == t \div DayLength + 1

Window == [open : BOOLEAN, fee : Nat, day : Days \cup {0},
           k : [Validators -> 0..K + 1], seen : SUBSET Validators]

(* The storage of a window before its escrow and after its settlement. *)
Vacant == [open |-> FALSE, fee |-> 0, day |-> 0,
           k |-> [v \in Validators |-> 0], seen |-> {}]

RewardsTypeOK ==
  /\ height \in 1..MaxHeight
  /\ clock \in 0..MaxClock
  /\ phase \in Phases
  /\ summary \in [fee : Nat, day : Days]
  /\ accounted \in Nat
  /\ committee \in [Blocks -> SUBSET Validators]
  /\ win \in [Blocks -> Window]
  /\ counted \subseteq Blocks
  /\ settled \subseteq Blocks
  /\ ring \in [0..Retain - 1 -> Blocks \cup {0}]
  /\ seq \in Nat
  /\ part \in [Days -> [Validators -> Nat]]
  /\ feeSum \in [Days -> Nat]
  /\ close \in [Days -> Nat]
  /\ prepared \subseteq Days
  /\ balance \in Nat
  /\ paid \in [Validators -> Nat]
  /\ burned \in Nat
  /\ missed \in [Validators -> Nat]

(* Block 1 carries neither parent accounting nor late credits. *)
RewardsInit ==
  /\ height = 1
  /\ clock = 1
  /\ phase = "cycle"
  /\ summary = [fee |-> 0, day |-> DayOf(1)]
  /\ accounted = 0
  /\ committee = [b \in Blocks |-> {}]
  /\ win = [b \in Blocks |-> Vacant]
  /\ counted = {}
  /\ settled = {}
  /\ ring = [i \in 0..Retain - 1 |-> 0]
  /\ seq = 0
  /\ part = [d \in Days |-> [v \in Validators |-> 0]]
  /\ feeSum = [d \in Days |-> 0]
  /\ close = [d \in Days |-> 0]
  /\ prepared = {}
  /\ balance = 0
  /\ paid = [v \in Validators |-> 0]
  /\ burned = 0
  /\ missed = [v \in Validators |-> 0]

-----------------------------------------------------------------------------
(* CertifiedParentAccounting *)

(* The signers of a certificate are more than two thirds of its committee. *)
Certifies(base, c) == base \subseteq c /\ 3 * Cardinality(base) > 2 * Cardinality(c)

(* escrow_block_fee: the fees wait, and the signers are credited at distance 0. *)
Escrowed(d, fee, base) ==
  [open |-> TRUE, fee |-> fee, day |-> d,
   k |-> [v \in Validators |-> IF v \in base THEN 1 ELSE 0], seen |-> base]

(* The height at which the inclusion window of block b closes. *)
ClosesAt(b) == b + K

(* Mutant: the slot after the cursor is evicted instead of the one under it. *)
EvictedNext == ring[(seq + 1) % Retain]

(* prune_block_guards: the block whose guards the ring gives up. *)
Evicted == ring[seq % Retain]

(* run_finalization_and_slashing with on_finalized_metadata, for a parent that *)
(* was not accounted before.  A block of a prepared day has no new             *)
(* participants: record_reward_participation fails the block.                  *)
AccountParent(c, base) ==
  LET b == height - 1
      d == summary.day
  IN  /\ phase = "parent"
      /\ Certifies(base, c)
      /\ b \notin counted
      /\ accounted = b - 1
      /\ b \notin settled
      /\ d \notin prepared
      /\ committee' = [committee EXCEPT ![b] = c]
      /\ win' = [win EXCEPT ![b] = Escrowed(d, summary.fee, base)]
      /\ part' = [part EXCEPT ![d] =
                    [v \in Validators |-> @[v] + (IF v \in base THEN 1 ELSE 0)]]
      /\ feeSum' = [feeSum EXCEPT ![d] = @ + summary.fee]
      /\ close' = [close EXCEPT ![d] = IF @ > ClosesAt(b) THEN @ ELSE ClosesAt(b)]
      /\ counted' = (counted \ {Evicted}) \cup {b}
      /\ settled' = settled \ {Evicted}
      /\ ring' = [ring EXCEPT ![seq % Retain] = b]
      /\ seq' = seq + 1
      /\ accounted' = b
      /\ phase' = "late"
      /\ UNCHANGED <<height, clock, summary, prepared, balance, paid, burned, missed>>

-----------------------------------------------------------------------------
(* LateFinalizeCredits *)

(* The blocks whose votes the block being executed may still credit. *)
InWindow == {b \in Blocks : height - b \in 1..K}

(* Mutant: a late vote replaces the distance already recorded. *)
CreditedLast(w, voters, k) ==
  [w EXCEPT !.k = [v \in Validators |-> IF v \in voters THEN k + 1 ELSE @[v]],
            !.seen = @ \cup voters]

(* record_late_credit: the smallest distance of every voter is kept. *)
Credited(w, voters, k) ==
  [w EXCEPT !.k = [v \in Validators |->
                     IF v \in voters /\ (@[v] = 0 \/ k + 1 < @[v]) THEN k + 1 ELSE @[v]],
            !.seen = @ \cup voters]

(* decay_weight: full weight below distance K, nothing at K. *)
DecayWeight(k) == IF k < K THEN WMax ELSE 0

Voters(w) == {v \in Validators : w.k[v] > 0}

(* The share of v when the window w of committee c is settled. *)
Payout(w, c, v) ==
  IF w.k[v] = 0 THEN 0
  ELSE (w.fee * DecayWeight(w.k[v] - 1)) \div (Cardinality(c) * WMax)

Distributed(w, c) == SumOver([v \in Validators |-> Payout(w, c, v)], Validators)

(* Mutant: what is not distributed stays with the contract. *)
ResidueKept(w, c) == 0

(* What is burned: the shares of absentees, the decay and the remainders. *)
Residue(w, c) == w.fee - Distributed(w, c)

(* Mutant: the absentees are those outside the certificate. *)
AbsenteesOfBase(w, c) == {v \in c : w.k[v] # 1}

(* The members of committee c that never voted within the window w. *)
Absentees(w, c) == c \ Voters(w)

(* Mutant: the window is closed one block late. *)
MaturedLate == height - K - 1

(* The block whose window closes in this one. *)
Matured == height - K

(* record_window_close_absentees and settle_matured, on the windows ws. *)
CloseMatured(ws) ==
  LET b == Matured
  IN  IF b >= 1 /\ ws[b].open
      THEN LET w == ws[b]
               c == committee[b]
           IN  /\ missed' = [v \in Validators |->
                               missed[v] + (IF v \in Absentees(w, c) THEN 1 ELSE 0)]
               /\ Distributed(w, c) <= w.fee
               /\ paid' = [v \in Validators |-> paid[v] + Payout(w, c, v)]
               /\ burned' = burned + Residue(w, c)
               /\ balance' = balance - (Distributed(w, c) + Residue(w, c))
               /\ settled' = settled \cup {b}
               /\ win' = [ws EXCEPT ![b] = Vacant]
      ELSE /\ win' = ws
           /\ UNCHANGED <<missed, paid, burned, balance, settled>>

(* run_late_finalize_credits on the artifact that credits the voters credits[b] *)
(* of every block b in the window.  A credit needs the escrow of its block, and *)
(* a new participant of a prepared day fails the block.                         *)
LateFinalizeCredits(credits) ==
  /\ phase = "late"
  /\ \A b \in InWindow :
       /\ credits[b] \subseteq committee[b]
       /\ credits[b] # {} => win[b].open
       /\ credits[b] \subseteq win[b].seen \/ win[b].day \notin prepared
  /\ part' = [d \in Days |-> [v \in Validators |-> part[d][v]
                + Cardinality({b \in InWindow : /\ win[b].day = d
                                                /\ v \in credits[b] \ win[b].seen})]]
  /\ CloseMatured([b \in Blocks |->
       IF b \in InWindow /\ credits[b] # {}
       THEN Credited(win[b], credits[b], height - b) ELSE win[b]])
  /\ phase' = "cycle"
  /\ UNCHANGED <<height, clock, summary, accounted, committee, counted, ring, seq,
                 feeSum, close, prepared>>

-----------------------------------------------------------------------------
(* The user transactions leave their fees with the rewards contract, and the  *)
(* next block follows at a timestamp that is not earlier.                      *)
ProduceBlock(fee, t) ==
  /\ phase = "body"
  /\ height < MaxHeight
  /\ t \in clock..MaxClock
  /\ balance' = balance + fee
  /\ summary' = [fee |-> fee, day |-> DayOf(clock)]
  /\ height' = height + 1
  /\ clock' = t
  /\ phase' = "parent"
  /\ UNCHANGED <<accounted, committee, win, counted, settled, ring, seq, part, feeSum,
                 close, prepared, paid, burned, missed>>
=============================================================================
