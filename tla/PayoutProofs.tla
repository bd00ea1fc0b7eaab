-------------------------- MODULE PayoutProofs ------------------------------
(***************************************************************************)
(* What validators are paid: the shares of a closing window, the queue of  *)
(* validator gem batches and the conservation of the validator emission,   *)
(* for every set of validators and every pool, unit and period.            *)
(*                                                                         *)
(* QueueInv adds to QueueSound where the entries of the reverse index      *)
(* point and that no more batches were queued than days prepared, so that  *)
(* the sequence numbers do not run out. A new batch goes behind the others *)
(* in calendar order because prepared days are behind the active one.      *)
(* EmissionInv needs the queue: a day that is settled has no batch yet,    *)
(* and the delivered batch leaves the queue as it is minted.               *)
(***************************************************************************)
EXTENDS ProtocolCycleProofs, SumLaws

(* The blocks of an instance are finitely many.                               *)
LEMMA BlocksFinite == IsFiniteSet(Blocks) /\ Blocks \subseteq Nat
<1>1. MaxHeight \in Nat
  BY ConstantFacts
<1> QED
  BY <1>1, FiniteInterval DEF Blocks

(* So are the days.                                                           *)
LEMMA DaysFinite == IsFiniteSet(Days) /\ Days \subseteq Nat \ {0}
BY DaysInterval, FiniteInterval

(* A committee has a positive number of members.                              *)
LEMMA CommitteeSize ==
  ASSUME NEW c \in SUBSET Validators, c # {}
  PROVE  Cardinality(c) \in Nat \ {0}
BY RewardsAssumption, FiniteSubset, CardPositive

-----------------------------------------------------------------------------
(* Shares.                                                                    *)

(* What the voters have received.                                             *)
PaidTyped == paid \in [Validators -> Nat]

(* A vote below distance K is worth the fee over the size of the committee.   *)
LEMMA TimelyShare ==
  ASSUME NEW w \in Window, NEW c \in SUBSET Validators, c # {}, NEW v \in Validators,
         w.k[v] \in 1..K
  PROVE  Payout(w, c, v) = w.fee \div Cardinality(c)
<1>1. K \in Nat \ {0} /\ WMax \in Nat \ {0} /\ w.fee \in Nat
  BY RewardsAssumption DEF Window
<1>2. Cardinality(c) \in Nat \ {0}
  BY CommitteeSize
<1>3. w.k[v] # 0 /\ DecayWeight(w.k[v] - 1) = WMax
  BY <1>1 DEF DecayWeight
<1>4. Payout(w, c, v) = (w.fee * WMax) \div (Cardinality(c) * WMax)
  BY <1>3 DEF Payout
<1> QED
  BY ZenonT(20), <1>1, <1>2, <1>4, DivScale

(* A vote that comes with the closing block cannot worsen a distance below K. *)
LEMMA TimelyLate ==
  ASSUME Inductive, CommitteeKept, PaidTyped,
         NEW credits \in [InWindow -> Batches], LateFinalizeCredits(credits)
  PROVE  /\ PaidTyped'
         /\ \A b \in Blocks :
              win[b].open /\ ~win'[b].open =>
                \A v \in Validators :
                  win[b].k[v] \in 1..K =>
                    paid'[v] - paid[v] = win[b].fee \div Cardinality(committee[b])
<1> DEFINE ws == After(credits)
           m == height - K
<1>1. ws \in [Blocks -> Window] /\ \A b \in Blocks : ws[b].open = win[b].open /\ ws[b].fee = win[b].fee
  BY AfterWindows
<1>2. K \in Nat \ {0} /\ height \in Nat /\ accounted = height - 1 /\ win \in [Blocks -> Window]
  <2>1. phase # "parent"
    BY DEF LateFinalizeCredits
  <2>2. accounted = height - 1
    BY <2>1 DEF Inductive, InStep
  <2>3. height \in Nat /\ win \in [Blocks -> Window]
    BY ConstantFacts DEF Inductive, Typed
  <2> QED
    BY <2>2, <2>3, ConstantFacts
<1>3. CASE m >= 1
  <2>1. /\ m \in Blocks
        /\ win' = [ws EXCEPT ![m] = Vacant]
        /\ paid' = [v \in Validators |-> paid[v] + Payout(ws[m], committee[m], v)]
    BY <1>3, LateCreditsEffect
  <2>2. committee[m] \in SUBSET Validators /\ committee[m] # {}
    BY <1>2, <2>1 DEF CommitteeKept
  <2>3. ws[m] \in Window
    BY <1>1, <2>1
  <2>4. \A v \in Validators : Payout(ws[m], committee[m], v) \in Nat
    BY ZenonT(20), <2>2, <2>3, PayoutNat, CommitteeSize
  <2>5. PaidTyped'
    <3> HIDE DEF ws, m
    <3> QED
      BY <2>1, <2>4 DEF PaidTyped
  <2>6. ASSUME NEW b \in Blocks, win[b].open, ~win'[b].open
        PROVE  b = m
    <3> HIDE DEF ws, m
    <3>1. b # m => win'[b] = ws[b]
      BY ZenonT(20), <1>1, <2>1
    <3> QED
      BY <1>1, <2>6, <3>1
  <2>7. ASSUME NEW v \in Validators, win[m].k[v] \in 1..K
        PROVE  ws[m].k[v] = win[m].k[v]
    <3>1. CASE m \in InWindow /\ credits[m] # {}
      <4> DEFINE new == [u \in Validators |->
                          IF u \in credits[m] /\ (win[m].k[u] = 0 \/ (height - m) + 1 < win[m].k[u])
                          THEN (height - m) + 1 ELSE win[m].k[u]]
      <4>1. ws[m] = Credited(win[m], credits[m], height - m)
        BY <2>1, <3>1 DEF After
      <4>2. ws[m].k = new
        <5>1. win[m] \in Window
          BY <1>2, <2>1
        <5> HIDE DEF ws, m
        <5> QED
          BY <4>1, <5>1 DEF Credited, Window
      <4>3. height - m = K
        BY <1>2
      <4> HIDE DEF m, ws
      <4>4. new[v] = win[m].k[v]
        BY SMTT(30), Z3T(30), <1>2, <2>7, <4>3
      <4> QED
        BY <4>2, <4>4
    <3>2. CASE ~(m \in InWindow /\ credits[m] # {})
      BY <2>1, <3>2 DEF After
    <3> QED
      BY ZenonT(20), <3>1, <3>2
  <2>8. ASSUME NEW v \in Validators, win[m].k[v] \in 1..K
        PROVE  paid'[v] - paid[v] = win[m].fee \div Cardinality(committee[m])
    <3> DEFINE p == Payout(ws[m], committee[m], v)
    <3>1. ws[m].fee = win[m].fee /\ ws[m].k[v] \in 1..K
      BY ZenonT(20), <1>1, <2>1, <2>7, <2>8
    <3>2. p = ws[m].fee \div Cardinality(committee[m])
      BY ZenonT(20), <2>2, <2>3, <3>1, TimelyShare
    <3>3. p \in Nat
      BY ZenonT(20), <2>4
    <3>4. paid'[v] = paid[v] + p /\ paid[v] \in Nat
      BY <2>1 DEF PaidTyped
    <3> HIDE DEF p, m, ws
    <3>5. paid'[v] - paid[v] = p
      BY <3>3, <3>4
    <3> QED
      BY ZenonT(20), <3>1, <3>2, <3>5
  <2> HIDE DEF m, ws
  <2> QED
    BY <2>5, <2>6, <2>8
<1>4. CASE ~(m >= 1)
  <2>1. win' = ws /\ paid' = paid
    BY ZenonT(20), <1>4, LateCreditsEffect
  <2> HIDE DEF ws
  <2> QED
    BY <1>1, <2>1 DEF PaidTyped
<1> QED
  BY <1>3, <1>4

(* Every step that closes a window pays its timely voters alike.              *)
LEMMA TimelyStep ==
  ASSUME Inductive, CommitteeKept, PaidTyped, [Next]_vars
  PROVE  /\ PaidTyped'
         /\ \A b \in Blocks :
              win[b].open /\ ~win[b]'.open =>
                \A v \in Validators :
                  win[b].k[v] \in 1..K =>
                    paid'[v] - paid[v] = win[b].fee \div Cardinality(committee[b])
<1>1. CASE UNCHANGED <<paid, win>>
  BY <1>1 DEF PaidTyped
<1>2. CASE Quiet
  BY ZenonT(20), <1>1, <1>2 DEF Quiet, accounts
<1>3. CASE RunSettlePrevious \/ Deliver
  BY ZenonT(20), <1>1, <1>3 DEF RunSettlePrevious, Fire, TickDone, Deliver, accounts
<1>4. ASSUME NEW c \in Committees, NEW base \in SUBSET c, AccountParent(c, base)
      PROVE  PaidTyped' /\ \A b \in Blocks : win[b].open => win[b]'.open
  <2>1. /\ paid' = paid
        /\ win' = [win EXCEPT ![height - 1] = Escrowed(summary.day, summary.fee, base)]
    BY <1>4 DEF AccountParent
  <2>2. Escrowed(summary.day, summary.fee, base).open
    BY DEF Escrowed
  <2>3. win \in [Blocks -> Window]
    BY ZenonT(20) DEF Inductive, Typed
  <2> QED
    BY ZenonT(20), <2>1, <2>2, <2>3 DEF PaidTyped
<1>5. CASE \E credits \in [InWindow -> Batches] : LateFinalizeCredits(credits)
  BY ZenonT(20), <1>5, TimelyLate
<1>6. CASE \E fee \in Fees : \E t \in clock..MaxClock : ProduceBlock(fee, t)
  BY <1>1, <1>6 DEF ProduceBlock
<1> QED
  BY ZenonT(20), <1>2, <1>3, <1>4, <1>5, <1>6, QuietSteps DEF Next

(* A settling window pays every member that had voted below distance K before *)
(* the closing block the fee divided by the size of the committee, whoever    *)
(* else voted and however often (fixed_denominator, record_late_credit).      *)
THEOREM TimelyHolds == Spec => TimelyVotersShareEqually
<1>1. CycleInit => PaidTyped
  BY DEF CycleInit, RewardsInit, PaidTyped
<1> QED
  BY <1>1, TimelyStep, CommitteeInit, CommitteeStep, InductiveHolds, PTL
     DEF Spec, TimelyVotersShareEqually

-----------------------------------------------------------------------------
(* The tallies of the days.                                                   *)

(* Participation and fee sums of the days.                                    *)
TallyTyped ==
  /\ part \in [Days -> [Validators -> Nat]]
  /\ feeSum \in [Days -> Nat]

(* No day has participants at the start.                                      *)
LEMMA TallyInit == CycleInit => TallyTyped
BY DEF CycleInit, RewardsInit, TallyTyped

(* record_reward_participation and the late credits only add to the tallies.  *)
LEMMA TallyStep ==
  ASSUME Inductive, TallyTyped, [Next]_vars
  PROVE  TallyTyped'
<1>1. CASE UNCHANGED <<part, feeSum>>
  BY <1>1 DEF TallyTyped, Days
<1>2. CASE Quiet
  BY ZenonT(20), <1>1, <1>2 DEF Quiet, accounts
<1>3. CASE RunSettlePrevious \/ Deliver
  BY ZenonT(20), <1>1, <1>3 DEF RunSettlePrevious, Fire, TickDone, Deliver, accounts
<1>4. ASSUME NEW c \in Committees, NEW base \in SUBSET c, AccountParent(c, base)
      PROVE  TallyTyped'
  <2>1. summary.day \in Days /\ summary.fee \in Nat
    BY ZenonT(20) DEF Inductive, Typed
  <2>2. feeSum' \in [Days -> Nat]
    BY <1>4, <2>1 DEF AccountParent, TallyTyped
  <2> DEFINE row == [v \in Validators |->
                       part[summary.day][v] + (IF v \in base THEN 1 ELSE 0)]
  <2>3. part' = [part EXCEPT ![summary.day] = row]
    BY <1>4 DEF AccountParent
  <2>4. row \in [Validators -> Nat]
    BY <2>1 DEF TallyTyped
  <2>5. part' \in [Days -> [Validators -> Nat]]
    BY ZenonT(20), <2>3, <2>4 DEF TallyTyped
  <2> QED
    BY <2>2, <2>5 DEF TallyTyped, Days
<1>5. ASSUME NEW credits \in [InWindow -> Batches], LateFinalizeCredits(credits)
      PROVE  TallyTyped'
  <2> DEFINE New(d, v) == {b \in InWindow : /\ win[b].day = d
                                            /\ v \in credits[b] \ win[b].seen}
  <2>1. \A d \in Days, v \in Validators : Cardinality(New(d, v)) \in Nat
    <3> TAKE d \in Days, v \in Validators
    <3>1. New(d, v) \in SUBSET Blocks
      BY ZenonT(20) DEF InWindow
    <3> QED
      BY ZenonT(20), <3>1, BlocksFinite, FiniteSubset, CardType
  <2>2. part' = [d \in Days |-> [v \in Validators |-> part[d][v] + Cardinality(New(d, v))]]
    BY <1>5 DEF LateFinalizeCredits
  <2> HIDE DEF New
  <2>3. part' \in [Days -> [Validators -> Nat]]
    BY <2>1, <2>2 DEF TallyTyped
  <2> QED
    BY ZenonT(20), <1>5, <2>3 DEF LateFinalizeCredits, TallyTyped, Days
<1>6. CASE \E fee \in Fees : \E t \in clock..MaxClock : ProduceBlock(fee, t)
  BY ZenonT(20), <1>1, <1>6 DEF ProduceBlock
<1> QED
  BY ZenonT(20), <1>2, <1>3, <1>4, <1>5, <1>6, QuietSteps DEF Next

(* prepare_daily_validator_gem_batch computes a natural load for every        *)
(* validator.                                                                 *)
LEMMA LoadsTyped ==
  ASSUME TallyTyped, NEW d \in Days
  PROVE  Loads(d) \in [Validators -> Nat]
<1> DEFINE total == SumOver(part[d], Validators)
<1>1. part[d] \in [Validators -> Nat] /\ feeSum[d] \in Nat
  BY DEF TallyTyped
<1>2. total \in Nat
  BY ZenonT(20), <1>1, RewardsAssumption, SumNat
<1>3. TopUp(d) \in Nat
  <2>1. Pool \in Nat /\ Unit \in Nat \ {0}
    BY CycleAssumption
  <2>2. Pool * Unit \in Nat
    BY <2>1
  <2>3. CASE part[d] = NoLoad \/ feeSum[d] > Pool * Unit
    BY <2>3 DEF TopUp
  <2>4. CASE ~(part[d] = NoLoad \/ feeSum[d] > Pool * Unit)
    <3> DEFINE n == Pool * Unit - feeSum[d]
    <3>1. n \in Nat
      BY <1>1, <2>2, <2>4
    <3>2. n \div Unit \in Nat
      <4> HIDE DEF n
      <4> QED
        BY <2>1, <3>1, DivMonotone
    <3> QED
      BY <2>4, <3>2 DEF TopUp
  <2> QED
    BY <2>3, <2>4
<1>4. ASSUME NEW v \in Validators, total # 0
      PROVE  (TopUp(d) * part[d][v]) \div total \in Nat
  <2> DEFINE n == TopUp(d) * part[d][v]
  <2>1. n \in Nat
    BY <1>1, <1>3
  <2> HIDE DEF n, total
  <2>2. total \in Nat \ {0}
    BY <1>2, <1>4
  <2>3. n \div total \in Nat
    BY <2>1, <2>2, DivMonotone
  <2> QED
    BY <2>3 DEF n
<1>5. Loads(d) = [v \in Validators |->
                    IF total = 0 THEN 0 ELSE (TopUp(d) * part[d][v]) \div total]
  BY DEF Loads
<1> HIDE DEF total
<1> QED
  BY <1>4, <1>5

(* The types of the queue, and where its reverse index points.                *)
QueueTyped ==
  /\ batch \in [Days -> [Validators -> Nat]]
  /\ head \in Nat
  /\ tail \in Nat
  /\ tail <= Cardinality(prepared)
  /\ dayAt \in [Sequences -> Days \cup {0}]
  /\ seqOf \in [Days -> Nat]
  /\ \A d \in Days : seqOf[d] # 0 => seqOf[d] - 1 \in head..tail - 1

(* The inductive invariant of the queue.                                      *)
QueueInv == QueueTyped /\ QueueSound

(* There are as many sequence numbers as days.                                *)
LEMMA SequencesFacts ==
  /\ Cardinality(Days) \in Nat
  /\ Sequences = 0..Cardinality(Days)
  /\ \A S \in SUBSET Days : IsFiniteSet(S) /\ Cardinality(S) \in Nat /\ Cardinality(S) <= Cardinality(Days)
BY ZenonT(20), DaysFinite, CardType, FiniteSubset, CardSubset DEF Sequences

(* The queue starts empty.                                                    *)
LEMMA QueueInit == CycleInit => QueueInv
<1> SUFFICES ASSUME CycleInit PROVE QueueInv
  OBVIOUS
<1>1. /\ batch = [d \in Days |-> NoLoad] /\ head = 0 /\ tail = 0 /\ pending = 0
      /\ dayAt = [i \in Sequences |-> 0] /\ seqOf = [d \in Days |-> 0]
      /\ prepared = {} /\ topupSettled = {}
  BY DEF CycleInit, RewardsInit
<1>2. NoLoad \in [Validators -> Nat]
  BY DEF NoLoad
<1>3. QueueTyped
  BY <1>1, <1>2, FiniteEmpty, CardEmpty DEF QueueTyped
<1>4. head..tail - 1 = {} /\ \A i \in Sequences : ~(head <= i /\ i < tail)
  BY <1>1, SequencesFacts
<1>5. QueueSound
  BY <1>1, <1>4 DEF QueueSound
<1> QED
  BY <1>3, <1>5 DEF QueueInv

(* A settled day goes to the end of the queue, or is settled at once when     *)
(* nobody can be paid.                                                        *)
LEMMA QueueSettle ==
  ASSUME Inductive, TallyTyped, QueueInv, RunSettlePrevious
  PROVE  QueueInv'
<1> DEFINE d == activeDay
           C == Cardinality(Days)
<1>1. /\ d \in Days /\ d \in Nat \ {0}
      /\ d \notin prepared /\ d \notin topupSettled
      /\ prepared' = prepared \cup {d}
      /\ prepared \subseteq Days
      /\ \A e \in prepared : e < d
  BY DaysFinite DEF Inductive, Typed, CalendarBehind, RunSettlePrevious, SettleDay
<1>2. C \in Nat /\ Sequences = 0..C
  BY SequencesFacts
<1>3. Cardinality(prepared') = Cardinality(prepared) + 1 /\ Cardinality(prepared) \in Nat
      /\ Cardinality(prepared') <= C
  <2>1. IsFiniteSet(prepared) /\ Cardinality(prepared) \in Nat
    BY ZenonT(20), <1>1, SequencesFacts
  <2>2. Cardinality(prepared') = Cardinality(prepared) + 1
    BY ZenonT(20), <1>1, <2>1, CardAdd
  <2>3. prepared' \in SUBSET Days
    BY <1>1
  <2> QED
    BY ZenonT(20), <2>1, <2>2, <2>3, SequencesFacts
<1>4. /\ batch \in [Days -> [Validators -> Nat]]
      /\ head \in Nat /\ tail \in Nat /\ tail <= Cardinality(prepared)
      /\ dayAt \in [Sequences -> Days \cup {0}]
      /\ seqOf \in [Days -> Nat]
      /\ \A e \in Days : seqOf[e] # 0 => seqOf[e] - 1 \in head..tail - 1
  BY DEF QueueInv, QueueTyped
<1>5. CASE NoPayableShares(d)
  <2>1. /\ topupSettled' = topupSettled \cup {d}
        /\ UNCHANGED <<batch, head, tail, pending, dayAt, seqOf>>
    BY <1>5 DEF NoPayableShares
  <2>2. prepared' \ topupSettled' = prepared \ topupSettled
    BY <1>1, <2>1
  <2>3. QueueTyped'
    <3>1. tail' <= Cardinality(prepared')
      BY SMTT(30), Z3T(30), <1>3, <1>4, <2>1
    <3> QED
      BY ZenonT(20), <1>4, <2>1, <3>1 DEF QueueTyped, Days, Sequences
  <2>4. QueueSound'
    BY <2>1, <2>2 DEF QueueInv, QueueSound, Days, Sequences, NoLoad
  <2> QED
    BY <2>3, <2>4 DEF QueueInv
<1>6. CASE Queued(d, Loads(d)) /\ Loads(d) # NoLoad
  <2> DEFINE L == Loads(d)
  <2>1. L \in [Validators -> Nat] /\ L # NoLoad
    BY ZenonT(20), <1>1, <1>6, LoadsTyped
  <2>2. /\ tail - head = pending /\ seqOf[d] = 0
        /\ batch' = [batch EXCEPT ![d] = L]
        /\ dayAt' = [dayAt EXCEPT ![tail] = d]
        /\ seqOf' = [seqOf EXCEPT ![d] = tail + 1]
        /\ tail' = tail + 1 /\ pending' = pending + 1
        /\ head' = head /\ topupSettled' = topupSettled
    BY ZenonT(20), <1>6 DEF Queued
  <2> HIDE DEF L, d
  <2>3. tail \in Sequences /\ head <= tail
    BY <1>2, <1>3, <1>4 DEF QueueInv, QueueSound
  <2>4. \A i \in Sequences : dayAt'[i] = IF i = tail THEN d ELSE dayAt[i]
    BY ZenonT(20), <1>4, <2>2
  <2>5. \A e \in Days : seqOf'[e] = IF e = d THEN tail + 1 ELSE seqOf[e]
    BY ZenonT(20), <1>4, <2>2
  <2>6. \A e \in Days : batch'[e] = IF e = d THEN L ELSE batch[e]
    BY ZenonT(20), <1>4, <2>2
  <2>7. \A i \in head..tail - 1 : i \in Sequences /\ i # tail
    BY <1>2, <1>4, <2>3
  <2>8. head..tail' - 1 = (head..tail - 1) \cup {tail}
    BY <1>4, <2>2, <2>3
  <2>9. \A i \in head..tail - 1 : dayAt[i] \in prepared
    BY ZenonT(20) DEF QueueInv, QueueSound
  <2>10. QueueTyped'
    <3>1. batch' \in [Days -> [Validators -> Nat]] /\ seqOf' \in [Days -> Nat]
      BY <1>1, <1>4, <2>1, <2>2
    <3>2. dayAt' \in [Sequences -> Days \cup {0}]
      BY ZenonT(20), <1>1, <1>4, <2>2
    <3>3. \A e \in Days : seqOf'[e] # 0 => seqOf'[e] - 1 \in head'..tail' - 1
      BY <1>4, <2>2, <2>3, <2>5
    <3>4. tail' <= Cardinality(prepared') /\ tail' \in Nat
      BY <1>3, <1>4, <2>2
    <3> QED
      BY ZenonT(20), <1>4, <2>2, <3>1, <3>2, <3>3, <3>4 DEF QueueTyped, Days, Sequences
  <2>11. QueueSound'
    <3>1. head' <= tail' /\ pending' = tail' - head'
      BY <1>4, <2>2, <2>3
    <3>2. \A i \in Sequences : dayAt'[i] # 0 <=> (head' <= i /\ i < tail')
      <4>1. \A i \in Sequences : dayAt[i] # 0 <=> (head <= i /\ i < tail)
        BY ZenonT(20) DEF QueueInv, QueueSound
      <4>2. \A i \in Sequences : i < tail' <=> (i < tail \/ i = tail)
        BY <1>2, <1>4, <2>2
      <4> QED
        BY ZenonT(20), <1>1, <2>2, <2>3, <2>4, <4>1, <4>2
    <3>3. \A i, j \in head'..tail' - 1 : i < j => dayAt'[i] < dayAt'[j]
      <4> SUFFICES ASSUME NEW i \in head..tail' - 1, NEW j \in head..tail' - 1, i < j
                   PROVE  dayAt'[i] < dayAt'[j]
        BY ZenonT(20), <2>2
      <4>1. i \in head..tail - 1
        BY <1>4, <2>2, <2>3
      <4>2. dayAt'[i] = dayAt[i] /\ dayAt[i] \in prepared
        BY ZenonT(20), <2>4, <2>7, <2>9, <4>1
      <4>3. CASE j = tail
        BY ZenonT(20), <1>1, <2>3, <2>4, <4>2, <4>3
      <4>4. CASE j # tail
        <5>1. j \in head..tail - 1
          BY <2>8, <4>4
        <5>2. dayAt'[j] = dayAt[j]
          BY ZenonT(20), <2>4, <2>7, <5>1
        <5>3. dayAt[i] < dayAt[j]
          BY ZenonT(20), <4>1, <5>1 DEF QueueInv, QueueSound
        <5> QED
          BY ZenonT(20), <4>2, <5>2, <5>3
      <4> QED
        BY ZenonT(20), <4>3, <4>4
    <3>4. {dayAt'[i] : i \in head'..tail' - 1} = prepared' \ topupSettled'
      <4>1. {dayAt[i] : i \in head..tail - 1} = prepared \ topupSettled
        BY DEF QueueInv, QueueSound
      <4>2. {dayAt'[i] : i \in head..tail' - 1} = {dayAt[i] : i \in head..tail - 1} \cup {d}
        BY ZenonT(20), <2>3, <2>4, <2>7, <2>8
      <4> QED
        BY ZenonT(20), <1>1, <2>2, <4>1, <4>2
    <3>5. ASSUME NEW e \in Days
          PROVE  /\ seqOf'[e] # 0 => dayAt'[seqOf'[e] - 1] = e
                 /\ (seqOf'[e] # 0) = (e \in prepared' \ topupSettled')
                 /\ (batch'[e] # NoLoad) = (seqOf'[e] # 0)
      <4>1. CASE e = d
        BY SMTT(30), Z3T(30), <1>1, <1>4, <2>1, <2>2, <2>3, <2>4, <2>5, <2>6, <4>1
      <4>2. CASE e # d
        <5>1. seqOf'[e] = seqOf[e] /\ batch'[e] = batch[e]
          BY ZenonT(20), <2>5, <2>6, <4>2
        <5>2. e \in prepared' \ topupSettled' <=> e \in prepared \ topupSettled
          BY ZenonT(20), <1>1, <2>2, <4>2
        <5>3. seqOf[e] # 0 => dayAt'[seqOf[e] - 1] = dayAt[seqOf[e] - 1]
          BY ZenonT(20), <1>4, <2>4, <2>7
        <5> QED
          BY <5>1, <5>2, <5>3 DEF QueueInv, QueueSound
      <4> QED
        BY ZenonT(20), <4>1, <4>2
    <3> QED
      BY ZenonT(20), <3>1, <3>2, <3>3, <3>4, <3>5 DEF QueueSound, Days, Sequences, NoLoad
  <2> QED
    BY <2>10, <2>11 DEF QueueInv
<1>7. NoPayableShares(d) \/ (Queued(d, Loads(d)) /\ Loads(d) # NoLoad)
  BY DEF RunSettlePrevious, SettleDay
<1> QED
  BY ZenonT(20), <1>5, <1>6, <1>7

(* RewardsGemDelivery takes the whole oldest batch, and its day leaves the    *)
(* reverse index.                                                             *)
LEMMA QueueDeliver ==
  ASSUME Inductive, QueueInv, Deliver
  PROVE  QueueInv'
<1> DEFINE d == dayAt[head]
<1>1. /\ head < tail /\ d # 0
      /\ batch' = [batch EXCEPT ![d] = NoLoad]
      /\ topupSettled' = topupSettled \cup {d}
      /\ dayAt' = [dayAt EXCEPT ![head] = 0]
      /\ seqOf' = [seqOf EXCEPT ![d] = 0]
      /\ head' = head + 1 /\ pending' = pending - 1
      /\ tail' = tail /\ prepared' = prepared
  BY DEF Deliver
<1>2. /\ batch \in [Days -> [Validators -> Nat]]
      /\ head \in Nat /\ tail \in Nat /\ tail <= Cardinality(prepared)
      /\ dayAt \in [Sequences -> Days \cup {0}]
      /\ seqOf \in [Days -> Nat]
      /\ \A e \in Days : seqOf[e] # 0 => seqOf[e] - 1 \in head..tail - 1
  BY DEF QueueInv, QueueTyped
<1>3. /\ Cardinality(Days) \in Nat /\ Sequences = 0..Cardinality(Days)
      /\ tail <= Cardinality(Days)
  <2>1. prepared \in SUBSET Days
    BY DEF Inductive, Typed
  <2> QED
    BY <1>2, <2>1, SequencesFacts
<1>4. head \in Sequences /\ \A i \in head..tail - 1 : i \in Sequences
  BY <1>1, <1>2, <1>3
<1>5. d \in Days
  BY <1>1, <1>2, <1>4
<1>6. NoLoad \in [Validators -> Nat]
  BY ZenonT(20) DEF NoLoad
<1>7. \A i \in head + 1..tail - 1 : i \in head..tail - 1 /\ i # head /\ head < i
  BY <1>2
<1>8. head \in head..tail - 1
  BY <1>1, <1>2
<1>9. \A i \in head + 1..tail - 1 : dayAt[head] < dayAt[i] /\ dayAt[i] \in Days
  <2>1. \A i, j \in head..tail - 1 : i < j => dayAt[i] < dayAt[j]
    BY ZenonT(20) DEF QueueInv, QueueSound
  <2>2. \A i \in Sequences : dayAt[i] # 0 <=> (head <= i /\ i < tail)
    BY DEF QueueInv, QueueSound
  <2> QED
    BY <1>2, <1>4, <1>7, <1>8, <2>1, <2>2
<1>10. \A i \in head + 1..tail - 1 : dayAt[i] # d
  <2> TAKE i \in head + 1..tail - 1
  <2>1. dayAt[i] \in Nat /\ d \in Nat /\ d < dayAt[i]
    BY ZenonT(20), <1>5, <1>9, DaysFinite
  <2> QED
    BY <2>1
<1>11. \A i \in Sequences : dayAt'[i] = IF i = head THEN 0 ELSE dayAt[i]
  BY ZenonT(20), <1>1, <1>2
<1> HIDE DEF d
<1>12. \A e \in Days : seqOf'[e] = IF e = d THEN 0 ELSE seqOf[e]
  BY ZenonT(20), <1>1, <1>2
<1>13. \A e \in Days : batch'[e] = IF e = d THEN NoLoad ELSE batch[e]
  BY <1>1, <1>2
<1>14. \A e \in Days : e # d /\ seqOf[e] # 0 => seqOf[e] - 1 \in head + 1..tail - 1
  <2>1. \A e \in Days : seqOf[e] # 0 => dayAt[seqOf[e] - 1] = e
    BY DEF QueueInv, QueueSound
  <2>2. \A i \in head..tail - 1 : i # head => i \in head + 1..tail - 1
    BY <1>2
  <2>3. \A e \in Days : e # d /\ seqOf[e] # 0 => seqOf[e] - 1 # head
    BY ZenonT(20), <2>1 DEF d
  <2> QED
    BY ZenonT(20), <1>2, <2>2, <2>3
<1>15. QueueTyped'
  <2>1. batch' \in [Days -> [Validators -> Nat]] /\ seqOf' \in [Days -> Nat]
    BY ZenonT(20), <1>1, <1>2, <1>5, <1>6
  <2>2. dayAt' \in [Sequences -> Days \cup {0}]
    BY ZenonT(20), <1>1, <1>2
  <2>3. \A e \in Days : seqOf'[e] # 0 => seqOf'[e] - 1 \in head'..tail' - 1
    BY ZenonT(20), <1>1, <1>12, <1>14
  <2> QED
    BY <1>1, <1>2, <2>1, <2>2, <2>3 DEF QueueTyped, Days, Sequences
<1>16. QueueSound'
  <2>1. head' <= tail' /\ pending' = tail' - head'
    BY <1>1, <1>2 DEF QueueInv, QueueSound
  <2>2. \A i \in Sequences : dayAt'[i] # 0 <=> (head' <= i /\ i < tail')
    <3>1. \A i \in Sequences : dayAt[i] # 0 <=> (head <= i /\ i < tail)
      BY DEF QueueInv, QueueSound
    <3>2. \A i \in Sequences : head' <= i <=> (head <= i /\ i # head)
      BY <1>1, <1>2, <1>3
    <3> QED
      BY ZenonT(20), <1>1, <1>11, <3>1, <3>2
  <2>3. \A i, j \in head'..tail' - 1 : i < j => dayAt'[i] < dayAt'[j]
    <3>1. \A i, j \in head..tail - 1 : i < j => dayAt[i] < dayAt[j]
      BY DEF QueueInv, QueueSound
    <3> QED
      BY SMTT(30), Z3T(30), <1>1, <1>4, <1>7, <1>11, <3>1
  <2>4. {dayAt'[i] : i \in head'..tail' - 1} = prepared' \ topupSettled'
    <3>1. {dayAt[i] : i \in head..tail - 1} = prepared \ topupSettled
      BY ZenonT(20) DEF QueueInv, QueueSound
    <3>2. {dayAt'[i] : i \in head + 1..tail - 1} = {dayAt[i] : i \in head + 1..tail - 1}
      BY ZenonT(20), <1>4, <1>7, <1>11
    <3>3. head..tail - 1 = (head + 1..tail - 1) \cup {head}
      <4>1. \A i \in Int : i \in head..tail - 1 <=> (i \in head + 1..tail - 1 \/ i = head)
        BY <1>1, <1>2
      <4>2. head..tail - 1 \subseteq Int /\ head + 1..tail - 1 \subseteq Int /\ head \in Int
        BY <1>2
      <4> QED
        BY <4>1, <4>2, Zenon
    <3>4. {dayAt[i] : i \in head + 1..tail - 1} = {dayAt[i] : i \in head..tail - 1} \ {d}
      BY ZenonT(20), <1>10, <3>3 DEF d
    <3> QED
      BY ZenonT(20), <1>1, <3>1, <3>2, <3>4
  <2>5. ASSUME NEW e \in Days
        PROVE  /\ seqOf'[e] # 0 => dayAt'[seqOf'[e] - 1] = e
               /\ (seqOf'[e] # 0) = (e \in prepared' \ topupSettled')
               /\ (batch'[e] # NoLoad) = (seqOf'[e] # 0)
    <3>1. CASE e = d
      BY SMTT(30), Z3T(30), <1>1, <1>12, <1>13, <3>1
    <3>2. CASE e # d
      <4>1. seqOf'[e] = seqOf[e] /\ batch'[e] = batch[e]
        BY ZenonT(20), <1>12, <1>13, <3>2
      <4>2. e \in prepared' \ topupSettled' <=> e \in prepared \ topupSettled
        BY ZenonT(20), <1>1, <3>2
      <4>3. seqOf[e] # 0 => dayAt'[seqOf[e] - 1] = dayAt[seqOf[e] - 1]
        BY ZenonT(20), <1>4, <1>7, <1>11, <1>14, <3>2
      <4> QED
        BY <4>1, <4>2, <4>3 DEF QueueInv, QueueSound
    <3> QED
      BY ZenonT(20), <3>1, <3>2
  <2> QED
    BY ZenonT(20), <2>1, <2>2, <2>3, <2>4, <2>5 DEF QueueSound, Days, Sequences, NoLoad
<1> QED
  BY ZenonT(20), <1>15, <1>16 DEF QueueInv

(* Accounting, late credits and the body of a block prepare no day.           *)
LEMMA PreparedKept ==
  ASSUME \/ \E c \in Committees : \E base \in SUBSET c : AccountParent(c, base)
         \/ \E credits \in [InWindow -> Batches] : LateFinalizeCredits(credits)
         \/ \E fee \in Fees : \E t \in clock..MaxClock : ProduceBlock(fee, t)
  PROVE  UNCHANGED prepared
BY ZenonT(20) DEF AccountParent, LateFinalizeCredits, ProduceBlock

(* Every step keeps the queue.                                                *)
LEMMA QueueStep ==
  ASSUME Inductive, TallyTyped, QueueInv, [Next]_vars
  PROVE  QueueInv'
<1>1. CASE UNCHANGED <<prepared, gemVars>>
  BY <1>1 DEF QueueInv, QueueTyped, QueueSound, gemVars, Days, Sequences, NoLoad
<1>2. CASE Quiet
  BY <1>1, <1>2 DEF Quiet
<1>3. CASE RunSettlePrevious
  BY <1>3, QueueSettle
<1>4. CASE Deliver
  BY <1>4, QueueDeliver
<1>5. CASE UNCHANGED <<prepared, cycleVars>>
  BY <1>1, <1>5 DEF cycleVars
<1> QED
  BY ZenonT(20), <1>2, <1>3, <1>4, <1>5, PreparedKept, QuietSteps DEF Next

(* The FIFO holds exactly the prepared days that are not settled, each once   *)
(* and in calendar order, with matching reverse index and count, so that      *)
(* neither preparation nor delivery meets an inconsistency that it would      *)
(* reject.                                                                    *)
THEOREM QueueSoundHolds == Spec => []QueueSound
<1>1. QueueInv => QueueSound
  BY DEF QueueInv
<1> QED
  BY <1>1, TallyInit, TallyStep, QueueInit, QueueStep, InductiveHolds, PTL DEF Spec

-----------------------------------------------------------------------------
(* The emission.                                                              *)

(* What is queued of every day.                                               *)
Queues == [d \in Days |-> LoadSum(batch[d])]

(* The inductive invariant of the emission.                                   *)
EmissionInv ==
  /\ minted \in [Validators -> Nat]
  /\ headroom \in Int
  /\ daySettled \subseteq Days
  /\ EmissionConserved

(* The property in terms of that function.                                    *)
LEMMA EmissionAsSums ==
  EmissionConserved <=>
    LoadSum(minted) + SumOver(Queues, Days) + headroom = Pool * Cardinality(daySettled)
BY ZenonT(20) DEF EmissionConserved, Queues

(* A batch adds up to a natural number, an empty one to 0.                    *)
LEMMA LoadSumFacts ==
  /\ \A f \in [Validators -> Nat] : LoadSum(f) \in Nat
  /\ LoadSum(NoLoad) = 0
<1>1. IsFiniteSet(Validators)
  BY RewardsAssumption
<1>2. \A f \in [Validators -> Nat] : LoadSum(f) \in Nat
  BY ZenonT(20), <1>1, SumNat DEF LoadSum
<1>3. \A v \in Validators : NoLoad[v] = 0
  BY DEF NoLoad
<1> QED
  BY ZenonT(20), <1>1, <1>2, <1>3, SumZero DEF LoadSum

(* Nothing is emitted at the start.                                           *)
LEMMA EmissionInit == CycleInit => EmissionInv
<1> SUFFICES ASSUME CycleInit PROVE EmissionInv
  OBVIOUS
<1>1. /\ minted = NoLoad /\ headroom = 0 /\ daySettled = {}
      /\ batch = [d \in Days |-> NoLoad]
  BY DEF CycleInit
<1>2. \A d \in Days : Queues[d] = 0
  BY <1>1, LoadSumFacts DEF Queues
<1>3. SumOver(Queues, Days) = 0
  BY ZenonT(20), <1>2, DaysFinite, SumZero
<1>4. Pool * Cardinality(daySettled) = 0
  BY <1>1, FiniteEmpty, CardEmpty, CycleAssumption
<1>5. EmissionConserved
  BY <1>1, <1>3, <1>4, LoadSumFacts, EmissionAsSums
<1> QED
  BY <1>1, <1>5 DEF EmissionInv, NoLoad

(* Writing the batch of one day changes what is queued by the difference.     *)
LEMMA QueuesUpdate ==
  ASSUME batch \in [Days -> [Validators -> Nat]], NEW d \in Days,
         NEW L \in [Validators -> Nat], batch' = [batch EXCEPT ![d] = L]
  PROVE  /\ SumOver(Queues, Days) \in Int
         /\ SumOver(Queues', Days) = SumOver(Queues, Days) - LoadSum(batch[d]) + LoadSum(L)
<1> DEFINE q == Queues
           r == Queues'
<1>1. \A e \in Days : q[e] = LoadSum(batch[e]) /\ q[e] \in Int
  BY LoadSumFacts DEF Queues
<1>2. \A e \in Days : r[e] = LoadSum(IF e = d THEN L ELSE batch[e]) /\ r[e] \in Int
  <2>1. r = [e \in Days |-> LoadSum(batch'[e])]
    BY DEF Queues, Days, LoadSum
  <2>2. \A e \in Days : batch'[e] = IF e = d THEN L ELSE batch[e]
    OBVIOUS
  <2>3. \A e \in Days : batch'[e] \in [Validators -> Nat]
    BY ZenonT(20), <2>2
  <2> HIDE DEF r
  <2> QED
    BY <2>1, <2>2, <2>3, LoadSumFacts
<1> HIDE DEF q, r
<1>3. DifferAt(q, r, Days, d)
  BY ZenonT(20), <1>1, <1>2 DEF DifferAt
<1>4. SumOver(r, Days) = SumOver(q, Days) - q[d] + r[d]
  BY <1>3, DaysFinite, SumUpdate
<1>5. SumOver(q, Days) \in Int
  BY ZenonT(20), <1>1, DaysFinite, SumType
<1> QED
  BY ZenonT(20), <1>1, <1>2, <1>4, <1>5 DEF q, r

(* settle_emission_day queues the loads of the day and forwards the rest of   *)
(* the pool.                                                                  *)
LEMMA EmissionSettle ==
  ASSUME Inductive, TallyTyped, QueueInv, EmissionInv, RunSettlePrevious
  PROVE  EmissionInv'
<1> DEFINE d == activeDay
           L == Loads(d)
           n == Cardinality(daySettled)
<1>1. /\ d \in Days /\ d \notin daySettled /\ d \notin prepared
      /\ daySettled' = daySettled \cup {d}
      /\ headroom' = headroom + (Pool - LoadSum(L))
      /\ minted' = minted
  BY DEF Inductive, Typed, CalendarBehind, RunSettlePrevious, SettleDay, Excess, Fire, TickDone
<1>2. /\ minted \in [Validators -> Nat] /\ headroom \in Int /\ daySettled \subseteq Days
      /\ LoadSum(minted) + SumOver(Queues, Days) + headroom = Pool * n
  BY ZenonT(20), EmissionAsSums DEF EmissionInv
<1>3. n \in Nat /\ Cardinality(daySettled') = n + 1
  <2>1. IsFiniteSet(daySettled)
    BY ZenonT(20), <1>2, DaysFinite, FiniteSubset
  <2> QED
    BY ZenonT(20), <1>1, <2>1, CardAdd, CardType
<1>4. L \in [Validators -> Nat]
  BY ZenonT(20), <1>1, LoadsTyped
<1>5. batch \in [Days -> [Validators -> Nat]] /\ batch[d] = NoLoad
  BY <1>1 DEF QueueInv, QueueTyped, QueueSound
<1>6. batch' = [batch EXCEPT ![d] = L]
  <2>1. CASE L = NoLoad
    BY ZenonT(20), <1>5, <2>1 DEF RunSettlePrevious, SettleDay, NoPayableShares
  <2>2. CASE L # NoLoad
    BY <2>2 DEF RunSettlePrevious, SettleDay, Queued
  <2> QED
    BY ZenonT(20), <2>1, <2>2
<1> HIDE DEF L, n, d
<1>7. /\ SumOver(Queues, Days) \in Int
      /\ SumOver(Queues', Days) = SumOver(Queues, Days) - LoadSum(NoLoad) + LoadSum(L)
  BY ZenonT(20), <1>1, <1>4, <1>5, <1>6, QueuesUpdate
<1>8. LoadSum(L) \in Nat /\ LoadSum(NoLoad) = 0 /\ LoadSum(minted) \in Nat /\ Pool \in Nat
  BY ZenonT(20), <1>2, <1>4, LoadSumFacts, CycleAssumption
<1>9. Pool * (n + 1) = Pool * n + Pool /\ Pool * n \in Nat
  BY <1>3, <1>8
<1>10. LoadSum(minted) + SumOver(Queues', Days) + headroom' = Pool * (n + 1)
  <2> DEFINE p == Pool * n
  <2>1. p \in Nat /\ Pool * (n + 1) = p + Pool /\ LoadSum(minted) + SumOver(Queues, Days) + headroom = p
    BY <1>2, <1>9
  <2> HIDE DEF p
  <2> QED
    BY SMTT(30), Z3T(30), <1>1, <1>2, <1>7, <1>8, <2>1
<1>11. EmissionConserved'
  BY ZenonT(20), <1>1, <1>3, <1>10 DEF EmissionConserved, Queues, Days, LoadSum
<1> QED
  BY SMTT(30), Z3T(30), <1>1, <1>2, <1>8, <1>11 DEF EmissionInv, Days

(* A delivered batch is minted and no longer queued.                          *)
LEMMA EmissionDeliver ==
  ASSUME Inductive, QueueInv, EmissionInv, Deliver
  PROVE  EmissionInv'
<1> DEFINE d == dayAt[head]
           L == batch[d]
<1>1. /\ minted' = [v \in Validators |-> minted[v] + L[v]]
      /\ batch' = [batch EXCEPT ![d] = NoLoad]
      /\ d \in prepared /\ UNCHANGED <<headroom, daySettled>>
  BY DEF Deliver
<1>2. /\ minted \in [Validators -> Nat] /\ headroom \in Int /\ daySettled \subseteq Days
      /\ LoadSum(minted) + SumOver(Queues, Days) + headroom = Pool * Cardinality(daySettled)
  BY ZenonT(20), EmissionAsSums DEF EmissionInv
<1>3. d \in Days
  BY ZenonT(20), <1>1 DEF Inductive, Typed
<1>4. batch \in [Days -> [Validators -> Nat]] /\ L \in [Validators -> Nat]
  BY <1>3 DEF QueueInv, QueueTyped
<1>5. NoLoad \in [Validators -> Nat]
  BY DEF NoLoad
<1> HIDE DEF d
<1>6. /\ SumOver(Queues, Days) \in Int
      /\ SumOver(Queues', Days) = SumOver(Queues, Days) - LoadSum(L) + LoadSum(NoLoad)
  BY ZenonT(20), <1>1, <1>3, <1>4, <1>5, QueuesUpdate
<1> HIDE DEF L
<1>7. minted' \in [Validators -> Nat]
  BY <1>1, <1>2, <1>4
<1>8. LoadSum(minted') = LoadSum(minted) + LoadSum(L)
  <2>1. \A v \in Validators : minted[v] \in Int /\ L[v] \in Int /\ minted'[v] = minted[v] + L[v]
    BY <1>1, <1>2, <1>4
  <2> QED
    BY ZenonT(20), <2>1, RewardsAssumption, SumPlus DEF LoadSum
<1>9. LoadSum(L) \in Nat /\ LoadSum(NoLoad) = 0 /\ LoadSum(minted) \in Nat
  BY ZenonT(20), <1>2, <1>4, LoadSumFacts
<1>10. LoadSum(minted') + SumOver(Queues', Days) + headroom = Pool * Cardinality(daySettled)
  <2> DEFINE p == Pool * Cardinality(daySettled)
  <2> HIDE DEF p
  <2>1. LoadSum(minted) + SumOver(Queues, Days) + headroom = p
    BY ZenonT(20), <1>2 DEF p
  <2>2. LoadSum(minted') + SumOver(Queues', Days) + headroom = p
    BY SMTT(30), Z3T(30), <1>2, <1>6, <1>8, <1>9, <2>1
  <2> QED
    BY <2>2 DEF p
<1>11. EmissionConserved'
  BY <1>1, <1>10 DEF EmissionConserved, Queues, Days, LoadSum
<1> QED
  BY ZenonT(20), <1>1, <1>2, <1>7, <1>11 DEF EmissionInv, Days

(* Every step conserves the emission.                                         *)
LEMMA EmissionStep ==
  ASSUME Inductive, TallyTyped, QueueInv, EmissionInv, [Next]_vars
  PROVE  EmissionInv'
<1>1. CASE UNCHANGED <<minted, headroom, daySettled, batch>>
  BY ZenonT(20), <1>1 DEF EmissionInv, EmissionConserved, Days, LoadSum
<1>2. CASE Quiet
  BY <1>1, <1>2 DEF Quiet, gemVars
<1>3. CASE RunSettlePrevious
  BY <1>3, EmissionSettle
<1>4. CASE Deliver
  BY ZenonT(20), <1>4, EmissionDeliver
<1>5. CASE UNCHANGED cycleVars
  BY <1>1, <1>5 DEF cycleVars, gemVars
<1> QED
  BY ZenonT(20), <1>2, <1>3, <1>4, <1>5, QuietSteps DEF Next

(* The validator emission of every settled day is minted, queued or forwarded *)
(* to Metadosis: nothing is minted twice and nothing lost, across skipped     *)
(* days, late ticks and failed deliveries.                                    *)
THEOREM EmissionHolds == Spec => []EmissionConserved
<1>1. EmissionInv => EmissionConserved
  BY DEF EmissionInv
<1> QED
  BY <1>1, TallyInit, TallyStep, QueueInit, QueueStep, EmissionInit, EmissionStep,
     InductiveHolds, PTL DEF Spec

=============================================================================
