-------------------------- MODULE SettlementProofs --------------------------
(***************************************************************************)
(* The settlement of blocks: escrow and attendance, for every set of       *)
(* validators, committees, window length, fees and bounds.                 *)
(*                                                                         *)
(* Each result has an inductive invariant of its own, on top of Inductive  *)
(* and CommitteeKept of ProtocolCycleProofs. EscrowInv adds that closed    *)
(* windows hold nothing. AttendInv adds that an open window remembers as   *)
(* seen exactly the members with a recorded distance, so that a repeated   *)
(* late vote is not counted again.                                         *)
(***************************************************************************)
EXTENDS ProtocolCycleProofs, SumLaws

(* The blocks of an instance are finitely many.                               *)
LEMMA BlocksFinite == IsFiniteSet(Blocks) /\ Blocks \subseteq Nat
<1>1. MaxHeight \in Nat
  BY ConstantFacts
<1> QED
  BY <1>1, FiniteInterval DEF Blocks

(* So are the days.                                                           *)
LEMMA DaysFinite == IsFiniteSet(Days) /\ Days \subseteq Nat \ {0}
BY DaysInterval, FiniteInterval

(* A committee has a positive number of members.                              *)
LEMMA CommitteeSize ==
  ASSUME NEW c \in SUBSET Validators, c # {}
  PROVE  Cardinality(c) \in Nat \ {0}
BY RewardsAssumption, FiniteSubset, CardPositive

-----------------------------------------------------------------------------
(* The escrow balance.                                                        *)

(* A window that is not open holds no fee.                                    *)
ClosedAreEmpty == \A b \in Blocks : ~win[b].open => win[b].fee = 0

(* The inductive invariant of the escrow.                                     *)
EscrowInv == ClosedAreEmpty /\ Solvent

(* What every window holds.                                                   *)
Escrows == [b \in Blocks |-> win[b].fee]

(* The property in terms of that function.                                    *)
LEMMA SolventAsSum ==
  Solvent <=> balance = SumOver(Escrows, Blocks) + (IF phase = "parent" THEN summary.fee ELSE 0)
BY DEF Solvent, Escrows

(* The contract starts empty.                                                 *)
LEMMA EscrowInit == CycleInit => EscrowInv
<1> SUFFICES ASSUME CycleInit PROVE EscrowInv
  OBVIOUS
<1>1. MaxHeight \in Nat
  BY ConstantFacts
<1>2. \A b \in Blocks : ~(b <= 0) /\ win[b].fee = 0
  BY <1>1 DEF Blocks, CycleInit, RewardsInit, Vacant
<1>4. SumOver(Escrows, Blocks) = 0
  BY ZenonT(20), <1>2, BlocksFinite, SumZero DEF Escrows
<1>5. Solvent
  BY <1>4, SolventAsSum DEF CycleInit, RewardsInit
<1> QED
  BY <1>2, <1>5 DEF EscrowInv, ClosedAreEmpty

(* escrow_block_fee moves the fees of the parent into its window, and the     *)
(* contract holds them already.                                               *)
LEMMA EscrowAccount ==
  ASSUME Inductive, EscrowInv, NEW c \in Committees, NEW base \in SUBSET c,
         AccountParent(c, base)
  PROVE  EscrowInv'
<1> DEFINE b0 == height - 1
           e0 == Escrowed(summary.day, summary.fee, base)
<1>1. /\ K \in Nat \ {0} /\ MaxHeight \in Nat \ {0}
      /\ height \in 1..MaxHeight /\ height >= 2 /\ accounted = height - 2
      /\ summary.day \in Days /\ summary.fee \in Nat
      /\ win \in [Blocks -> Window]
  BY ConstantFacts DEF Inductive, Typed, InStep, AccountParent
<1>2. b0 \in Blocks /\ b0 \in Nat
  BY <1>1 DEF Blocks
<1>3. e0 \in Window /\ e0.open /\ e0.fee = summary.fee
  <2>1. base \in SUBSET Validators
    BY RewardsAssumption
  <2>2. e0 \in Window /\ e0.open
    BY <1>1, <2>1, EscrowedWindow
  <2> QED
    BY <2>2 DEF Escrowed
<1>4. /\ win' = [win EXCEPT ![b0] = e0]
      /\ accounted' = b0 /\ phase = "parent" /\ phase' = "late"
      /\ summary' = summary /\ balance' = balance
  BY DEF AccountParent
<1> HIDE DEF b0, e0
<1>5. \A b \in Blocks : win'[b] = IF b = b0 THEN e0 ELSE win[b]
  BY <1>1, <1>2, <1>4
<1>6. ~win[b0].open
  <2>1. win[b0].open <=> (height - K <= b0 /\ b0 <= accounted)
    BY <1>2, <1>4 DEF Inductive, OpenWindowsAreLastK
  <2> QED
    BY <1>1, <2>1 DEF b0
<1>8. ClosedAreEmpty'
  BY <1>3, <1>5 DEF EscrowInv, ClosedAreEmpty, Blocks
<1>9. SumOver(Escrows', Blocks) = SumOver(Escrows, Blocks) + summary.fee
  <2>1. \A b \in Blocks : Escrows[b] \in Int /\ Escrows'[b] \in Int
    <3>1. \A b \in Blocks : win[b].fee \in Nat /\ win'[b].fee \in Nat
      BY ZenonT(20), <1>1, <1>3, <1>5 DEF Window
    <3> QED
      BY <3>1 DEF Escrows, Blocks
  <2>2. \A b \in Blocks : b # b0 => Escrows'[b] = Escrows[b]
    BY <1>5 DEF Escrows, Blocks
  <2>3. Escrows[b0] = 0 /\ Escrows'[b0] = summary.fee
    <3>1. win[b0].fee = 0 /\ win'[b0].fee = summary.fee
      BY ZenonT(20), <1>2, <1>3, <1>5, <1>6 DEF EscrowInv, ClosedAreEmpty
    <3>2. Escrows[b0] = win[b0].fee
      BY <1>2 DEF Escrows
    <3>3. Escrows'[b0] = win'[b0].fee
      BY <1>2 DEF Escrows, Blocks
    <3> QED
      BY <3>1, <3>2, <3>3
  <2>4. SumOver(Escrows', Blocks) = SumOver(Escrows, Blocks) - Escrows[b0] + Escrows'[b0]
    <3>1. DifferAt(Escrows, Escrows', Blocks, b0)
      BY <1>2, <2>1, <2>2 DEF DifferAt
    <3> QED
      BY <3>1, BlocksFinite, SumUpdate
  <2>5. SumOver(Escrows, Blocks) \in Int
    BY ZenonT(20), <2>1, BlocksFinite, SumType
  <2> QED
    BY <1>1, <2>3, <2>4, <2>5
<1>10. Solvent'
  <2>1. balance = SumOver(Escrows, Blocks) + summary.fee
    BY <1>4, SolventAsSum DEF EscrowInv
  <2>2. balance' = SumOver(Escrows', Blocks)
    BY <1>4, <1>9, <2>1
  <2>3. SumOver(Escrows', Blocks) \in Int
    <3>1. \A b \in Blocks : Escrows'[b] \in Int
      <4>1. \A b \in Blocks : win'[b].fee \in Nat
        BY <1>1, <1>3, <1>5 DEF Window
      <4> QED
        BY <4>1 DEF Escrows, Blocks
    <3> QED
      BY ZenonT(20), <3>1, BlocksFinite, SumType
  <2> QED
    BY <1>4, <2>2, <2>3 DEF Solvent, Escrows, Blocks
<1> QED
  BY ZenonT(20), <1>8, <1>10 DEF EscrowInv

(* settle_window takes exactly the escrow of the window out of the balance:   *)
(* what is not distributed is burned.                                         *)
LEMMA EscrowLate ==
  ASSUME Inductive, CommitteeKept, EscrowInv, NEW credits \in [InWindow -> Batches],
         LateFinalizeCredits(credits)
  PROVE  EscrowInv'
<1> DEFINE m == height - K
           ws == After(credits)
           w == ws[m]
           c == committee[m]
<1>1. /\ K \in Nat \ {0} /\ MaxHeight \in Nat \ {0}
      /\ height \in 1..MaxHeight /\ accounted = height - 1
      /\ win \in [Blocks -> Window]
      /\ phase = "late" /\ phase' = "cycle"
  BY ZenonT(20), ConstantFacts DEF Inductive, Typed, InStep, LateFinalizeCredits
<1>2. ws \in [Blocks -> Window] /\ \A b \in Blocks : ws[b].open = win[b].open /\ ws[b].fee = win[b].fee
  BY ZenonT(20), AfterWindows
<1>4. balance = SumOver(Escrows, Blocks)
  <2>1. \A b \in Blocks : Escrows[b] \in Int
    <3>1. \A b \in Blocks : win[b].fee \in Nat
      BY <1>1 DEF Window
    <3> QED
      BY <3>1 DEF Escrows
  <2>2. SumOver(Escrows, Blocks) \in Int
    BY ZenonT(20), <2>1, BlocksFinite, SumType
  <2> QED
    BY <1>1, <2>2, SolventAsSum DEF EscrowInv
<1>5. CASE m >= 1
  <2>1. /\ m \in Blocks
        /\ win' = [ws EXCEPT ![m] = Vacant]
        /\ balance' = balance - (Distributed(w, c) + Residue(w, c))
    BY ZenonT(20), <1>5, LateCreditsEffect
  <2>2. w \in Window /\ w.fee = win[m].fee /\ w.fee \in Nat
    BY <1>2, <2>1 DEF Window
  <2>3. c \in SUBSET Validators /\ c # {}
    BY <1>1, <2>1 DEF CommitteeKept
  <2> HIDE DEF ws, w, c
  <2>4. Distributed(w, c) \in Int
    <3> DEFINE f == [v \in Validators |-> Payout(w, c, v)]
    <3>1. \A v \in Validators : f[v] \in Int
      BY <2>2, <2>3, PayoutNat, CommitteeSize
    <3> HIDE DEF f
    <3>2. SumOver(f, Validators) \in Int
      BY ZenonT(20), <3>1, RewardsAssumption, SumType
    <3> QED
      BY <3>2 DEF Distributed, f
  <2>5. Distributed(w, c) + Residue(w, c) = w.fee
    BY <2>2, <2>4 DEF Residue
  <2>6. \A b \in Blocks : win'[b] = IF b = m THEN Vacant ELSE ws[b]
    BY <1>2, <2>1
  <2>7. Vacant.fee = 0 /\ ~Vacant.open
    BY DEF Vacant
  <2>8. ClosedAreEmpty'
    BY <1>2, <2>6, <2>7 DEF EscrowInv, ClosedAreEmpty, Blocks
  <2>9. /\ \A b \in Blocks : Escrows[b] = win[b].fee
        /\ \A b \in Blocks : Escrows'[b] = win'[b].fee
    BY DEF Escrows, Blocks
  <2>10. \A b \in Blocks : Escrows[b] \in Int /\ Escrows'[b] \in Int
    <3>1. \A b \in Blocks : win[b].fee \in Nat
      BY <1>1 DEF Window
    <3>2. \A b \in Blocks : ws[b].fee \in Nat
      BY ZenonT(20), <1>2, <3>1
    <3> QED
      BY <3>1, <3>2, <2>6, <2>7, <2>9
  <2>11. \A b \in Blocks : b # m => Escrows'[b] = Escrows[b]
    BY <1>2, <2>6, <2>9
  <2>12. Escrows[m] = w.fee /\ Escrows'[m] = 0
    BY ZenonT(20), <2>1, <2>2, <2>6, <2>7, <2>9
  <2>13. SumOver(Escrows', Blocks) = SumOver(Escrows, Blocks) - Escrows[m] + Escrows'[m]
    <3>1. DifferAt(Escrows, Escrows', Blocks, m)
      BY <2>1, <2>10, <2>11 DEF DifferAt
    <3> QED
      BY <3>1, BlocksFinite, SumUpdate
  <2>14. SumOver(Escrows, Blocks) \in Int
    BY ZenonT(20), <2>10, BlocksFinite, SumType
  <2>15. balance' = SumOver(Escrows', Blocks) + 0
    BY <1>4, <2>1, <2>2, <2>5, <2>12, <2>13, <2>14
  <2>16. Solvent'
    BY ZenonT(20), <1>1, <2>15 DEF Solvent, Escrows, Blocks
  <2> QED
    BY ZenonT(20), <2>8, <2>16 DEF EscrowInv
<1>6. CASE ~(m >= 1)
  <2>1. win' = ws /\ balance' = balance
    BY <1>6, LateCreditsEffect
  <2> HIDE DEF ws
  <2>2. ClosedAreEmpty'
    BY <1>2, <2>1 DEF EscrowInv, ClosedAreEmpty, Blocks
  <2>3. Escrows' = Escrows
    BY <1>2, <2>1 DEF Escrows, Blocks
  <2>4. \A b \in Blocks : Escrows[b] \in Int
    <3>1. \A b \in Blocks : win[b].fee \in Nat
      BY <1>1 DEF Window
    <3> QED
      BY <3>1 DEF Escrows
  <2>5. SumOver(Escrows, Blocks) \in Int
    BY <2>4, BlocksFinite, SumType
  <2>6. balance' = SumOver(Escrows', Blocks) + 0
    BY <1>4, <2>1, <2>3, <2>5
  <2>7. Solvent'
    BY <1>1, <2>6 DEF Solvent, Escrows, Blocks
  <2> QED
    BY <2>2, <2>7 DEF EscrowInv
<1> QED
  BY ZenonT(20), <1>5, <1>6

(* Every step keeps the escrow.                                               *)
LEMMA EscrowStep ==
  ASSUME Inductive, CommitteeKept, EscrowInv, [Next]_vars
  PROVE  EscrowInv'
<1> DEFINE Same == UNCHANGED win
<1>1. CASE /\ Same /\ UNCHANGED <<balance, summary>>
           /\ (phase = "parent") = (phase' = "parent")
  BY <1>1 DEF EscrowInv, ClosedAreEmpty, Solvent, Blocks
<1>2. CASE Quiet
  BY ZenonT(20), <1>1, <1>2 DEF Quiet, accounts
<1>3. CASE RunSettlePrevious \/ Deliver
  BY <1>1, <1>3 DEF RunSettlePrevious, Fire, TickDone, Deliver, accounts
<1>4. CASE \E c \in Committees : \E base \in SUBSET c : AccountParent(c, base)
  BY <1>4, EscrowAccount
<1>5. CASE \E credits \in [InWindow -> Batches] : LateFinalizeCredits(credits)
  BY <1>5, EscrowLate
<1>6. ASSUME NEW fee \in Fees, NEW t \in clock..MaxClock, ProduceBlock(fee, t)
      PROVE  EscrowInv'
  <2>1. /\ Same /\ phase = "body" /\ phase' = "parent"
        /\ balance' = balance + fee /\ summary' = [fee |-> fee, day |-> DayOf(clock)]
    BY <1>6 DEF ProduceBlock
  <2>2. summary'.fee = fee /\ fee \in Nat
    BY ZenonT(20), <2>1, ConstantFacts
  <2>3. ClosedAreEmpty'
    BY <2>1 DEF EscrowInv, ClosedAreEmpty, Blocks
  <2>4. \A b \in Blocks : Escrows[b] \in Int
    <3>1. \A b \in Blocks : win[b].fee \in Nat
      BY DEF Inductive, Typed, Window
    <3> QED
      BY <3>1 DEF Escrows
  <2>5. SumOver(Escrows, Blocks) \in Int
    BY ZenonT(20), <2>4, BlocksFinite, SumType
  <2>6. balance' = SumOver(Escrows, Blocks) + summary'.fee
    <3>1. balance = SumOver(Escrows, Blocks)
      BY <2>1, <2>5, SolventAsSum DEF EscrowInv
    <3> QED
      BY ZenonT(20), <2>1, <2>2, <2>5, <3>1
  <2>7. Escrows' = Escrows
    BY <2>1 DEF Escrows, Blocks
  <2>8. Solvent'
    BY <2>1, <2>6, <2>7 DEF Solvent, Escrows, Blocks
  <2> QED
    BY <2>3, <2>8 DEF EscrowInv
<1> QED
  BY <1>2, <1>3, <1>4, <1>5, <1>6, QuietSteps DEF Next

(* The balance of the rewards contract is what the open windows hold, and the *)
(* fees of a parent not yet accounted: no settlement ever fails for lack of   *)
(* funds and no fee is stranded.                                              *)
THEOREM SolventHolds == Spec => []Solvent
<1>1. EscrowInv => Solvent
  BY ZenonT(20) DEF EscrowInv
<1> QED
  BY <1>1, CommitteeInit, CommitteeStep, EscrowInit, EscrowStep, InductiveHolds, PTL DEF Spec

-----------------------------------------------------------------------------
(* Attendance.                                                                *)

(* The accounted blocks that have v in their committee.                       *)
Seats(v) == {b \in Blocks : v \in committee[b]}

(* The open windows that still wait for the vote of v.                        *)
WaitsIn(ws, v) == {b \in Blocks : ws[b].open /\ v \in Absentees(ws[b], committee[b])}

(* The same in the current state. *)
Waits(v) == WaitsIn(win, v)

(* The participation of v, by day.                                            *)
Attended(v) == [d \in Days |-> part[d][v]]

(* The inductive invariant of attendance.                                     *)
AttendInv ==
  /\ missed \in [Validators -> Nat]
  /\ part \in [Days -> [Validators -> Int]]
  /\ \A b \in Blocks : win[b].open => win[b].seen = Voters(win[b])
  /\ AttendanceExact

(* The property in terms of these.                                            *)
LEMMA AttendanceAsSums ==
  AttendanceExact <=>
    \A v \in Validators :
      SumOver(Attended(v), Days) + missed[v] + Cardinality(Waits(v)) = Cardinality(Seats(v))
BY DEF AttendanceExact, Attended, Waits, WaitsIn, Seats

(* No seat is taken at the start.                                             *)
LEMMA AttendInit == CycleInit => AttendInv
<1> SUFFICES ASSUME CycleInit PROVE AttendInv
  OBVIOUS
<1>1. /\ missed = [v \in Validators |-> 0] /\ win = [b \in Blocks |-> Vacant]
      /\ committee = [b \in Blocks |-> {}] /\ part = [d \in Days |-> [v \in Validators |-> 0]]
  BY DEF CycleInit, RewardsInit
<1>2. \A b \in Blocks : ~win[b].open
  BY <1>1, VacantWindow
<1>3. ASSUME NEW v \in Validators
      PROVE  SumOver(Attended(v), Days) + missed[v] + Cardinality(Waits(v)) = Cardinality(Seats(v))
  <2>1. Waits(v) = {} /\ Seats(v) = {}
    BY <1>1, <1>2 DEF Waits, WaitsIn, Seats
  <2>2. \A d \in Days : Attended(v)[d] = 0
    BY <1>1 DEF Attended
  <2>3. SumOver(Attended(v), Days) = 0
    BY ZenonT(20), <2>2, DaysFinite, SumZero
  <2> QED
    BY SMTT(30), Z3T(30), <1>1, <2>1, <2>3, FiniteEmpty, CardEmpty
<1>4. AttendanceExact
  BY ZenonT(20), <1>3, AttendanceAsSums
<1> QED
  BY <1>1, <1>2, <1>4 DEF AttendInv

(* The numbers of the balance of a validator.                                 *)
LEMMA AttendTypes ==
  ASSUME AttendInv, NEW v \in Validators
  PROVE  /\ \A d \in Days : Attended(v)[d] = part[d][v] /\ Attended(v)[d] \in Int
         /\ SumOver(Attended(v), Days) \in Int
         /\ missed[v] \in Nat
         /\ IsFiniteSet(Waits(v)) /\ Cardinality(Waits(v)) \in Nat
         /\ IsFiniteSet(Seats(v)) /\ Cardinality(Seats(v)) \in Nat
         /\ SumOver(Attended(v), Days) + missed[v] + Cardinality(Waits(v)) = Cardinality(Seats(v))
<1>1. \A d \in Days : Attended(v)[d] = part[d][v] /\ Attended(v)[d] \in Int
  BY DEF Attended, AttendInv
<1>2. SumOver(Attended(v), Days) \in Int
  BY ZenonT(20), <1>1, DaysFinite, SumType
<1>3. Waits(v) \in SUBSET Blocks /\ Seats(v) \in SUBSET Blocks
  BY DEF Waits, WaitsIn, Seats
<1>4. /\ IsFiniteSet(Waits(v)) /\ Cardinality(Waits(v)) \in Nat
      /\ IsFiniteSet(Seats(v)) /\ Cardinality(Seats(v)) \in Nat
  BY ZenonT(20), <1>3, BlocksFinite, FiniteSubset, CardType
<1> QED
  BY ZenonT(20), <1>1, <1>2, <1>4, AttendanceAsSums DEF AttendInv

(* A signer of the certificate is credited at once, and another member of the *)
(* committee waits in the window.                                             *)
LEMMA AttendAccount ==
  ASSUME Inductive, CommitteeKept, AttendInv,
         NEW c \in Committees, NEW base \in SUBSET c, AccountParent(c, base)
  PROVE  AttendInv'
<1> DEFINE b == height - 1
           d == summary.day
           e == Escrowed(d, summary.fee, base)
<1>1. /\ b \in Blocks /\ b > accounted /\ d \in Days /\ accounted \in Nat
      /\ c \subseteq Validators /\ base \subseteq Validators
  BY SMTT(30), Z3T(30), ConstantFacts, RewardsAssumption DEF Inductive, Typed, InStep, AccountParent, Blocks
<1>2. /\ committee' = [committee EXCEPT ![b] = c]
      /\ win' = [win EXCEPT ![b] = e]
      /\ part' = [part EXCEPT ![d] = [v \in Validators |-> part[d][v] + (IF v \in base THEN 1 ELSE 0)]]
      /\ missed' = missed
  BY DEF AccountParent
<1>3. ~win[b].open
  <2>1. b \in Blocks /\ ~(b <= accounted)
    BY <1>1 DEF Blocks
  <2> QED
    BY <2>1 DEF Inductive, OpenWindowsAreLastK
<1>4. committee \in [Blocks -> SUBSET Validators] /\ committee[b] = {}
  <2>1. b \in Blocks /\ ~(b <= accounted)
    BY <1>1 DEF Blocks
  <2> QED
    BY ZenonT(20), <2>1 DEF CommitteeKept
<1>5. e.open /\ e.seen = base /\ Voters(e) = base
  BY <1>1 DEF Escrowed, Voters
<1>6. win \in [Blocks -> Window]
  BY ZenonT(20) DEF Inductive, Typed
<1> HIDE DEF e, b, d
<1>7. \A a \in Blocks : /\ win'[a] = IF a = b THEN e ELSE win[a]
                        /\ committee'[a] = IF a = b THEN c ELSE committee[a]
  BY ZenonT(20), <1>2, <1>4, <1>6
<1>8. \A a \in Blocks : win'[a].open => win'[a].seen = Voters(win'[a])
  <2> TAKE a \in Blocks
  <2>1. CASE a = b
    BY ZenonT(20), <1>5, <1>7, <2>1
  <2>2. CASE a # b
    BY <1>7, <2>2 DEF AttendInv
  <2> QED
    BY <2>1, <2>2
<1>9. ASSUME NEW v \in Validators
      PROVE  SumOver(Attended(v)', Days) + missed[v] + Cardinality(Waits(v)') = Cardinality(Seats(v)')
  <2> DEFINE f == Attended(v)
             g == Attended(v)'
             one(B) == IF B THEN 1 ELSE 0
  <2>1. \A x \in Days : f[x] = part[x][v] /\ f[x] \in Int
    BY AttendTypes
  <2>2. g = [x \in Days |-> part'[x][v]]
    BY ZenonT(20) DEF Attended, Days
  <2>3. \A x \in Days : g[x] = IF x = d THEN f[x] + one(v \in base) ELSE f[x]
    BY ZenonT(20), <1>1, <1>2, <2>1, <2>2 DEF AttendInv
  <2> HIDE DEF f, g
  <2>4. DifferAt(f, g, Days, d)
    BY <1>1, <2>1, <2>3 DEF DifferAt
  <2>5. SumOver(g, Days) = SumOver(f, Days) - f[d] + g[d]
    BY <2>4, DaysFinite, SumUpdate
  <2>6. Seats(v)' = IF v \in c THEN Seats(v) \cup {b} ELSE Seats(v)
    <3>1. Seats(v)' = {a \in Blocks : v \in committee'[a]}
      BY ZenonT(20) DEF Seats, Blocks
    <3>2. \A a \in Blocks : v \in committee'[a] <=> v \in committee[a] \/ (a = b /\ v \in c)
      BY ZenonT(20), <1>4, <1>7
    <3> QED
      BY <1>1, <3>1, <3>2 DEF Seats
  <2>7. Waits(v)' = IF v \in c \ base THEN Waits(v) \cup {b} ELSE Waits(v)
    <3>1. Waits(v)' = {a \in Blocks : win'[a].open /\ v \in committee'[a] \ Voters(win'[a])}
      BY DEF Waits, WaitsIn, Blocks, Absentees, Voters
    <3>2. Waits(v) = {a \in Blocks : win[a].open /\ v \in committee[a] \ Voters(win[a])}
      BY ZenonT(20) DEF Waits, WaitsIn, Absentees
    <3>3. win'[b] = e /\ committee'[b] = c
      BY ZenonT(20), <1>1, <1>7
    <3>4. \A a \in Blocks : a # b => win'[a] = win[a] /\ committee'[a] = committee[a]
      BY <1>7
    <3> QED
      BY ZenonT(20), <1>1, <1>3, <1>5, <3>1, <3>2, <3>3, <3>4
  <2>8. b \notin Seats(v) /\ b \notin Waits(v)
    BY ZenonT(20), <1>3, <1>4 DEF Seats, Waits, WaitsIn
  <2>9. /\ IsFiniteSet(Waits(v)) /\ Cardinality(Waits(v)) \in Nat
        /\ IsFiniteSet(Seats(v)) /\ Cardinality(Seats(v)) \in Nat
        /\ SumOver(f, Days) \in Int /\ missed[v] \in Nat
        /\ SumOver(f, Days) + missed[v] + Cardinality(Waits(v)) = Cardinality(Seats(v))
    BY AttendTypes DEF f
  <2>10. Cardinality(Seats(v)') = Cardinality(Seats(v)) + one(v \in c)
    <3>1. Cardinality(Seats(v) \cup {b}) = Cardinality(Seats(v)) + 1
      BY <2>8, <2>9, CardAdd
    <3>2. CASE v \in c
      BY ZenonT(20), <2>6, <3>1, <3>2
    <3>3. CASE v \notin c
      BY <2>6, <2>9, <3>3
    <3> QED
      BY ZenonT(20), <3>2, <3>3
  <2>11. Cardinality(Waits(v)') = Cardinality(Waits(v)) + one(v \in c \ base)
    <3>1. Cardinality(Waits(v) \cup {b}) = Cardinality(Waits(v)) + 1
      BY ZenonT(20), <2>8, <2>9, CardAdd
    <3>2. CASE v \in c \ base
      BY ZenonT(20), <2>7, <3>1, <3>2
    <3>3. CASE v \notin c \ base
      BY <2>7, <2>9, <3>3
    <3> QED
      BY ZenonT(20), <3>2, <3>3
  <2>12. one(v \in c) = one(v \in base) + one(v \in c \ base)
    OBVIOUS
  <2>13. one(v \in c) \in Nat /\ one(v \in base) \in Nat /\ one(v \in c \ base) \in Nat
    OBVIOUS
  <2>14. g[d] = f[d] + one(v \in base) /\ f[d] \in Int
    BY ZenonT(20), <1>1, <2>1, <2>3
  <2> HIDE DEF one
  <2>15. SumOver(g, Days) + missed[v] + Cardinality(Waits(v)') = Cardinality(Seats(v)')
    <3> DEFINE i == one(v \in base)
               j == one(v \in c \ base)
               s == SumOver(f, Days)
               w == Cardinality(Waits(v))
    <3>1. /\ i \in Nat /\ j \in Nat /\ s \in Int /\ w \in Nat /\ missed[v] \in Nat /\ f[d] \in Int
          /\ SumOver(g, Days) = s - f[d] + (f[d] + i)
          /\ Cardinality(Waits(v)') = w + j
          /\ Cardinality(Seats(v)') = (s + missed[v] + w) + (i + j)
      BY ZenonT(20), <2>5, <2>9, <2>10, <2>11, <2>12, <2>13, <2>14
    <3> HIDE DEF i, j, s, w
    <3> QED
      BY <3>1
  <2> QED
    BY ZenonT(20), <2>15 DEF g
<1>10. AttendanceExact'
  BY <1>2, <1>9 DEF AttendanceExact, Attended, Waits, WaitsIn, Seats, Days, Blocks, Absentees, Voters
<1>11. part' \in [Days -> [Validators -> Int]]
  <2> DEFINE row == [v \in Validators |-> part[d][v] + (IF v \in base THEN 1 ELSE 0)]
  <2>1. row \in [Validators -> Int] /\ part' = [part EXCEPT ![d] = row]
    BY SMTT(30), Z3T(30), <1>1, <1>2 DEF AttendInv
  <2> HIDE DEF row
  <2> QED
    BY ZenonT(20), <2>1 DEF AttendInv
<1> QED
  BY ZenonT(20), <1>2, <1>8, <1>10, <1>11 DEF AttendInv, Blocks, Days, Voters

(* A late vote moves its voter from waiting to credited, once, on the day of  *)
(* the block it votes for.                                                    *)
LEMMA AttendLateWaits ==
  ASSUME Inductive, CommitteeKept, AttendInv,
         NEW credits \in [InWindow -> Batches], LateFinalizeCredits(credits),
         NEW v \in Validators
  PROVE  /\ IsFiniteSet(WaitsIn(After(credits), v)) /\ Cardinality(WaitsIn(After(credits), v)) \in Nat
         /\ \A d \in Days : part'[d][v] \in Int
         /\ SumOver(Attended(v)', Days) \in Int
         /\ SumOver(Attended(v)', Days) + missed[v] + Cardinality(WaitsIn(After(credits), v))
              = Cardinality(Seats(v))
<1> DEFINE ws == After(credits)
           left == WaitsIn(ws, v)
           New == {b \in InWindow : v \in credits[b] \ win[b].seen}
           class == [b \in Blocks |-> win[b].day]
           f == Attended(v)
           g == Attended(v)'
           h == [d \in Days |-> Cardinality({b \in New : class[b] = d})]
<1>1. /\ InWindow \subseteq Blocks
      /\ \A b \in InWindow : credits[b] \subseteq committee[b] /\ (credits[b] # {} => win[b].open)
  BY ZenonT(20) DEF InWindow, LateFinalizeCredits
<1>2. \A b \in New : b \in Blocks /\ win[b].open /\ v \in committee[b] /\ v \notin win[b].seen
  BY <1>1
<1>3. \A b \in New : class[b] \in Days
  BY ZenonT(20), <1>2 DEF Inductive, CloseCovers
<1>4. IsFiniteSet(New) /\ Cardinality(New) \in Nat
  <2>1. New \in SUBSET Blocks
    BY <1>2
  <2> QED
    BY ZenonT(20), <2>1, BlocksFinite, FiniteSubset, CardType
<1>5. SumOver(h, Days) = Cardinality(New)
  <2> HIDE DEF New, class
  <2> QED
    BY ZenonT(20), <1>3, <1>4, DaysFinite, CountByClass
<1>6. \A d \in Days : {b \in InWindow : win[b].day = d /\ v \in credits[b] \ win[b].seen}
                        = {b \in New : class[b] = d}
  BY ZenonT(20), <1>1
<1>7. g = [d \in Days |-> part[d][v] + h[d]]
  <2>1. g = [d \in Days |-> part'[d][v]]
    BY ZenonT(20) DEF Attended, Days
  <2>2. part' = [d \in Days |-> [u \in Validators |-> part[d][u]
                  + Cardinality({b \in InWindow : /\ win[b].day = d
                                                  /\ u \in credits[b] \ win[b].seen})]]
    BY ZenonT(20) DEF LateFinalizeCredits
  <2>3. \A d \in Days : part'[d][v] = part[d][v]
                  + Cardinality({b \in InWindow : /\ win[b].day = d
                                                  /\ v \in credits[b] \ win[b].seen})
    BY <2>2
  <2>4. \A d \in Days : part'[d][v] = part[d][v] + h[d]
    BY ZenonT(20), <1>6, <2>3
  <2> HIDE DEF g, h
  <2> QED
    BY <2>1, <2>4
<1>8. \A d \in Days : h[d] \in Int
  <2> SUFFICES ASSUME NEW d \in Days PROVE Cardinality({b \in New : class[b] = d}) \in Int
    BY ZenonT(20)
  <2> DEFINE c == {b \in New : class[b] = d}
  <2>1. c \in SUBSET New
    OBVIOUS
  <2> HIDE DEF c, New
  <2>2. Cardinality(c) \in Nat
    BY ZenonT(20), <1>4, <2>1, FiniteSubset, CardType
  <2> QED
    BY <2>2 DEF c
<1>9. /\ \A d \in Days : f[d] = part[d][v] /\ f[d] \in Int
      /\ SumOver(f, Days) \in Int /\ missed[v] \in Nat
      /\ IsFiniteSet(Waits(v)) /\ Cardinality(Waits(v)) \in Nat
      /\ Cardinality(Seats(v)) \in Nat
      /\ SumOver(f, Days) + missed[v] + Cardinality(Waits(v)) = Cardinality(Seats(v))
  BY AttendTypes
<1> HIDE DEF f, g, h
<1>10. SumOver(g, Days) = SumOver(f, Days) + SumOver(h, Days)
  <2>1. \A d \in Days : f[d] \in Int /\ h[d] \in Int /\ g[d] = f[d] + h[d]
    BY ZenonT(20), <1>7, <1>8, <1>9
  <2> QED
    BY ZenonT(20), <2>1, DaysFinite, SumPlus
<1>11. New \subseteq Waits(v)
  BY ZenonT(20), <1>2 DEF Waits, WaitsIn, Absentees, AttendInv
<1>12. left = Waits(v) \ New
  <2>1. \A b \in Blocks : ws[b].open = win[b].open
    BY ZenonT(20), AfterWindows
  <2>2. ASSUME NEW b \in Blocks, win[b].open
        PROVE  v \in Voters(ws[b]) <=> (v \in Voters(win[b]) \/ b \in New)
    <3>1. win[b].seen = Voters(win[b])
      BY ZenonT(20), <2>2 DEF AttendInv
    <3>2. CASE b \in InWindow
      <4>1. Voters(ws[b]) = Voters(win[b]) \cup credits[b]
        BY ZenonT(20), <3>1, <3>2, AfterVoters
      <4> HIDE DEF ws
      <4> QED
        BY ZenonT(20), <3>1, <3>2, <4>1
    <3>3. CASE b \notin InWindow
      <4>1. Voters(ws[b]) = Voters(win[b])
        BY ZenonT(20), <3>1, <3>3, AfterVoters
      <4> HIDE DEF ws
      <4> QED
        BY ZenonT(20), <3>3, <4>1
    <3> QED
      BY <3>2, <3>3
  <2>3. Waits(v) = {b \in Blocks : win[b].open /\ v \in committee[b] \ Voters(win[b])}
    BY ZenonT(20) DEF Waits, WaitsIn, Absentees
  <2>4. left = {b \in Blocks : ws[b].open /\ v \in committee[b] \ Voters(ws[b])}
    BY DEF WaitsIn, Absentees
  <2> HIDE DEF ws, New, left
  <2> QED
    BY ZenonT(20), <2>1, <2>2, <2>3, <2>4
<1> HIDE DEF New, left
<1>13. Cardinality(left) = Cardinality(Waits(v)) - Cardinality(New) /\ IsFiniteSet(left)
  <2>1. Waits(v) \cap New = New
    BY ZenonT(20), <1>11
  <2>2. IsFiniteSet(Waits(v) \ New) /\ Cardinality(Waits(v) \ New) \in Nat
    BY <1>9, FiniteSubset, CardType
  <2>3. Cardinality(Waits(v)) = Cardinality(Waits(v) \cap New) + Cardinality(Waits(v) \ New)
    BY ZenonT(20), <1>9, CardSplit
  <2>4. Cardinality(Waits(v)) = Cardinality(New) + Cardinality(Waits(v) \ New)
    BY ZenonT(20), <2>1, <2>3
  <2>5. Cardinality(Waits(v) \ New) = Cardinality(Waits(v)) - Cardinality(New)
    BY <1>4, <2>2, <2>4
  <2> QED
    BY ZenonT(20), <1>12, <2>2, <2>5
<1>14. Cardinality(left) \in Nat
  BY ZenonT(20), <1>13, CardType
<1>15. /\ IsFiniteSet(left) /\ Cardinality(left) \in Nat
       /\ SumOver(g, Days) \in Int
       /\ SumOver(g, Days) + missed[v] + Cardinality(left) = Cardinality(Seats(v))
  BY SMTT(30), Z3T(30), <1>4, <1>5, <1>9, <1>10, <1>13, <1>14
<1>16. \A d \in Days : part'[d][v] \in Int
  <2>1. \A d \in Days : g[d] = part'[d][v]
    BY ZenonT(20) DEF g, Attended, Days
  <2> QED
    BY <1>7, <1>8, <1>9, <2>1
<1> QED
  BY ZenonT(20), <1>15, <1>16 DEF g, left

(* The members that still wait when the window closes are its absentees       *)
(* (record_window_close_absentees).                                           *)
LEMMA AttendLate ==
  ASSUME Inductive, CommitteeKept, AttendInv,
         NEW credits \in [InWindow -> Batches], LateFinalizeCredits(credits)
  PROVE  AttendInv'
<1> DEFINE ws == After(credits)
           m == height - K
           Left(v) == WaitsIn(ws, v)
<1>1. committee' = committee /\ missed \in [Validators -> Nat]
  BY ZenonT(20) DEF LateFinalizeCredits, AttendInv
<1>2. \A b \in Blocks : ws[b].open => ws[b].seen = Voters(ws[b])
  BY ZenonT(20), AfterWindows, AfterVoters DEF AttendInv
<1>3. ws \in [Blocks -> Window] /\ \A b \in Blocks : ws[b].open = win[b].open
  BY ZenonT(20), AfterWindows
<1>4. \A v \in Validators :
        /\ IsFiniteSet(Left(v)) /\ Cardinality(Left(v)) \in Nat
        /\ \A d \in Days : part'[d][v] \in Int
        /\ SumOver(Attended(v)', Days) \in Int
        /\ SumOver(Attended(v)', Days) + missed[v] + Cardinality(Left(v)) = Cardinality(Seats(v))
  BY ZenonT(20), AttendLateWaits
<1>5. \A v \in Validators : Seats(v)' = Seats(v)
  BY ZenonT(20), <1>1 DEF Seats, Blocks
<1>6. \A v \in Validators :
        Waits(v)' = {b \in Blocks : win'[b].open /\ v \in Absentees(win'[b], committee[b])}
  BY <1>1 DEF Waits, WaitsIn, Blocks, Absentees, Voters
<1>7. SUFFICES
        /\ missed' \in [Validators -> Nat]
        /\ \A b \in Blocks : win'[b].open => win'[b].seen = Voters(win'[b])
        /\ \A v \in Validators :
             missed'[v] + Cardinality(Waits(v)') = missed[v] + Cardinality(Left(v))
             /\ Cardinality(Waits(v)') \in Nat
  <2>1. ASSUME NEW v \in Validators,
               missed' \in [Validators -> Nat],
               missed'[v] + Cardinality(Waits(v)') = missed[v] + Cardinality(Left(v)),
               Cardinality(Waits(v)') \in Nat
        PROVE  SumOver(Attended(v)', Days) + missed'[v] + Cardinality(Waits(v)') = Cardinality(Seats(v)')
    <3>1. missed[v] \in Nat /\ missed'[v] \in Nat
      BY ZenonT(20), <1>1, <2>1
    <3>2. Cardinality(Seats(v)') = Cardinality(Seats(v))
      BY ZenonT(20), <1>5
    <3> DEFINE s == SumOver(Attended(v)', Days)
               l == Cardinality(Left(v))
               w == Cardinality(Waits(v)')
               t == Cardinality(Seats(v)')
               m0 == missed[v]
               m1 == missed'[v]
    <3>3. s \in Int /\ l \in Nat /\ s + m0 + l = t
      BY ZenonT(20), <1>4, <3>2
    <3>4. w \in Nat /\ m1 + w = m0 + l /\ m0 \in Nat /\ m1 \in Nat
      BY ZenonT(20), <2>1, <3>1
    <3> HIDE DEF s, l, w, t, m0, m1
    <3>5. s + m1 + w = t
      BY SMTT(30), Z3T(30), <3>3, <3>4
    <3> QED
      BY ZenonT(20), <3>5 DEF s, w, t, m1
  <2>2. ASSUME \A v \in Validators :
          SumOver(Attended(v)', Days) + missed'[v] + Cardinality(Waits(v)') = Cardinality(Seats(v)')
        PROVE AttendanceExact'
    BY ZenonT(20), <2>2 DEF AttendanceExact, Attended, Waits, WaitsIn, Seats, Days, Blocks, Absentees, Voters
  <2>3. part' \in [Days -> [Validators -> Int]]
    <3>1. \A d \in Days : part'[d] \in [Validators -> Int]
      <4> HIDE DEF Left
      <4>1. \A d \in Days : \A v \in Validators : part'[d][v] \in Int
        BY ZenonT(20), <1>4
      <4>2. \A d \in Days : part'[d] = [v \in Validators |-> part'[d][v]]
        BY ZenonT(20) DEF LateFinalizeCredits
      <4> QED
        BY ZenonT(20), <4>1, <4>2
    <3>2. part' = [d \in Days |-> part'[d]]
      BY ZenonT(20) DEF LateFinalizeCredits
    <3> QED
      BY <3>1, <3>2
  <2> HIDE DEF Left
  <2> QED
    BY ZenonT(20), <2>1, <2>2, <2>3 DEF AttendInv, Blocks, Days, Voters
<1>8. CASE m >= 1
  <2>1. /\ m \in Blocks /\ ws[m].open
        /\ win' = [ws EXCEPT ![m] = Vacant]
        /\ missed' = [v \in Validators |->
                        missed[v] + (IF v \in Absentees(ws[m], committee[m]) THEN 1 ELSE 0)]
    BY ZenonT(20), <1>3, <1>8, LateCreditsEffect
  <2> HIDE DEF ws, m
  <2>2. \A b \in Blocks : win'[b] = IF b = m THEN Vacant ELSE ws[b]
    BY ZenonT(20), <1>3, <2>1
  <2>3. missed' \in [Validators -> Nat]
    BY <1>1, <2>1
  <2>4. ASSUME NEW b \in Blocks, win'[b].open
        PROVE  win'[b].seen = Voters(win'[b])
    <3>1. b # m
      BY ZenonT(20), <2>2, <2>4, VacantWindow
    <3>2. win'[b] = ws[b]
      BY ZenonT(20), <2>2, <3>1
    <3> QED
      BY ZenonT(20), <1>2, <2>4, <3>2
  <2>5. ASSUME NEW v \in Validators
        PROVE  missed'[v] + Cardinality(Waits(v)') = missed[v] + Cardinality(Left(v))
               /\ Cardinality(Waits(v)') \in Nat
    <3>1. Waits(v)' = Left(v) \ {m}
      <4>1. ~win'[m].open
        BY ZenonT(20), <2>1, <2>2, VacantWindow
      <4>2. \A b \in Blocks : b # m => win'[b] = ws[b]
        BY ZenonT(20), <2>2
      <4> QED
        BY ZenonT(20), <1>6, <4>1, <4>2 DEF WaitsIn
    <3>2. m \in Left(v) <=> v \in Absentees(ws[m], committee[m])
      BY <2>1 DEF WaitsIn
    <3>3. IsFiniteSet(Left(v)) /\ Cardinality(Left(v)) \in Nat /\ missed[v] \in Nat
      BY ZenonT(20), <1>1, <1>4
    <3> HIDE DEF Left
    <3>4. CASE m \in Left(v)
      <4>1. missed'[v] = missed[v] + 1
        BY ZenonT(20), <2>1, <3>2, <3>4
      <4>2. Cardinality(Left(v) \ {m}) = Cardinality(Left(v)) - 1 /\ IsFiniteSet(Left(v) \ {m})
        BY ZenonT(20), <3>3, <3>4, CardRemove, FiniteSubset
      <4>3. Cardinality(Left(v) \ {m}) \in Nat
        BY ZenonT(20), <4>2, CardType
      <4> QED
        BY <3>1, <3>3, <4>1, <4>2, <4>3
    <3>5. CASE m \notin Left(v)
      <4>1. missed'[v] = missed[v] /\ Left(v) \ {m} = Left(v)
        BY SMTT(30), Z3T(30), <1>1, <2>1, <3>2, <3>5
      <4> QED
        BY ZenonT(20), <3>1, <3>3, <4>1
    <3> QED
      BY ZenonT(20), <3>4, <3>5
  <2> QED
    BY ZenonT(20), <2>3, <2>4, <2>5
<1>9. CASE ~(m >= 1)
  <2>1. win' = ws /\ missed' = missed
    BY ZenonT(20), <1>9, LateCreditsEffect
  <2> HIDE DEF ws
  <2>2. \A v \in Validators : Waits(v)' = Left(v)
    BY <1>6, <2>1 DEF WaitsIn
  <2> QED
    BY ZenonT(20), <1>1, <1>2, <1>4, <2>1, <2>2
<1> QED
  BY ZenonT(20), <1>8, <1>9

(* Every step keeps attendance.                                               *)
LEMMA AttendStep ==
  ASSUME Inductive, CommitteeKept, AttendInv, [Next]_vars
  PROVE  AttendInv'
<1>1. CASE UNCHANGED <<missed, win, committee, part>>
  BY ZenonT(20), <1>1 DEF AttendInv, AttendanceExact, Days, Blocks, Absentees, Voters
<1>2. CASE Quiet
  BY ZenonT(20), <1>1, <1>2 DEF Quiet, accounts
<1>3. CASE RunSettlePrevious \/ Deliver
  BY ZenonT(20), <1>1, <1>3 DEF RunSettlePrevious, Fire, TickDone, Deliver, accounts
<1>4. CASE \E c \in Committees : \E base \in SUBSET c : AccountParent(c, base)
  BY ZenonT(20), <1>4, AttendAccount
<1>5. CASE \E credits \in [InWindow -> Batches] : LateFinalizeCredits(credits)
  BY <1>5, AttendLate
<1>6. CASE \E fee \in Fees : \E t \in clock..MaxClock : ProduceBlock(fee, t)
  BY ZenonT(20), <1>1, <1>6 DEF ProduceBlock
<1> QED
  BY ZenonT(20), <1>2, <1>3, <1>4, <1>5, <1>6, QuietSteps DEF Next

(* Every seat of every accounted block is credited to its day, missed, or     *)
(* still waiting, exactly one of them, under any order of certificates, late  *)
(* votes and repeated votes.                                                  *)
THEOREM AttendanceHolds == Spec => []AttendanceExact
<1>1. AttendInv => AttendanceExact
  BY DEF AttendInv
<1> QED
  BY <1>1, CommitteeInit, CommitteeStep, AttendInit, AttendStep,
     InductiveHolds, PTL DEF Spec

=============================================================================
