------------------------- MODULE ProtocolCycleProofs -------------------------
(***************************************************************************)
(* The windows of late votes, the settlement of days and the replay        *)
(* guards, for every committee, window length, retention, calendar and     *)
(* chain length.                                                           *)
(*                                                                         *)
(* Inductive says that the open windows are those of the last K accounted  *)
(* blocks, that the close height of a day covers its open windows, and     *)
(* that prepared days are behind the calendar: a day is prepared only      *)
(* after its last window has closed. GuardInv adds what the ring of guards *)
(* holds in every slot, so that the slot a block overwrites is that of the *)
(* block that leaves the horizon. The lemmas on division, late votes and   *)
(* committees are used by the settlement and payout proofs too.            *)
(***************************************************************************)
EXTENDS ProtocolCycle, TLAPS

(* Integer division by a positive number is monotone and stays natural. *)
LEMMA DivMonotone ==
  ASSUME NEW D \in Nat \ {0}, NEW a \in Nat, NEW b \in Nat, a <= b
  PROVE  /\ a \div D \in Nat
         /\ a \div D <= b \div D
<1> DEFINE p == a \div D
           q == b \div D
<1>1. /\ p \in Nat /\ q \in Nat
      /\ a = D * p + (a % D) /\ a % D \in 0..(D - 1)
      /\ b = D * q + (b % D) /\ b % D \in 0..(D - 1)
  OBVIOUS
<1> HIDE DEF p, q
<1>2. CASE p > q
  <2>1. PICK r \in Nat : p = q + 1 + r
    <3>1. p - q - 1 \in Nat
      BY <1>1, <1>2
    <3> QED
      BY <3>1, <1>1
  <2>2. D * p = D * q + D + D * r
    BY <2>1, <1>1
  <2>3. D * r \in Nat
    BY <2>1
  <2>4. D * q \in Nat
    BY <1>1
  <2> QED
    BY <2>2, <2>3, <2>4, <1>1
<1> QED
  BY <1>1, <1>2 DEF p, q

(* timestamp_to_date_key maps the timestamps of an instance to its days and *)
(* never decreases.                                                         *)
LEMMA DayOfClock ==
  ASSUME NEW s \in 0..MaxClock, NEW t \in s..MaxClock
  PROVE  /\ DayOf(s) \in Days
         /\ DayOf(t) \in Days
         /\ DayOf(s) <= DayOf(t)
<1>1. DayLength \in Nat \ {0} /\ MaxClock \in Nat /\ s \in Nat /\ t \in Nat
  BY RewardsAssumption
<1>2. s \div DayLength \in Nat /\ s \div DayLength <= t \div DayLength
  BY <1>1, DivMonotone
<1>3. t \div DayLength \in Nat /\ t \div DayLength <= MaxClock \div DayLength
  BY <1>1, DivMonotone
<1>4. MaxClock \div DayLength \in Nat
  BY <1>1, DivMonotone
<1> QED
  BY <1>2, <1>3, <1>4 DEF DayOf, Days

-----------------------------------------------------------------------------
(* The inductive invariant. *)

(* The types of the counters, windows and days. *)
Typed ==
  /\ height \in 1..MaxHeight
  /\ clock \in 0..MaxClock
  /\ phase \in Phases
  /\ summary \in [fee : Nat, day : Days]
  /\ accounted \in Nat
  /\ win \in [Blocks -> Window]
  /\ close \in [Days -> Nat]
  /\ prepared \subseteq Days
  /\ activeDay \in Days

(* Parent accounting is never skipped: after it the parent is accounted. *)
InStep ==
  /\ phase = "parent" => height >= 2 /\ accounted = height - 2
  /\ phase # "parent" => accounted = height - 1

(* The day of an open window is known to close no earlier than the window. *)
CloseCovers ==
  \A b \in Blocks : win[b].open => win[b].day \in Days /\ close[win[b].day] >= b + K

(* Prepared days are behind the calendar, which is never ahead of the clock. *)
CalendarBehind ==
  /\ activeDay <= DayOf(clock)
  /\ \A d \in prepared : d < activeDay

(* Together. *)
Inductive ==
  /\ Typed
  /\ InStep
  /\ OpenWindowsAreLastK
  /\ CloseCovers
  /\ CalendarBehind
  /\ PreparedDaysFinal

(* The constants as the provers need them. *)
LEMMA ConstantFacts ==
  /\ K \in Nat \ {0}
  /\ MaxHeight \in Nat \ {0}
  /\ MaxClock \in Nat \ {0}
  /\ Fees \subseteq Nat
BY RewardsAssumption

(* Cleared window storage is a window that is not open. *)
LEMMA VacantWindow == Vacant \in Window /\ ~Vacant.open
<1>1. K \in Nat
  BY ConstantFacts
<1>2. [v \in Validators |-> 0] \in [Validators -> 0..K + 1]
  BY <1>1
<1> QED
  BY <1>2 DEF Vacant, Window

(* escrow_block_fee opens a window on the day of the block. *)
LEMMA EscrowedWindow ==
  ASSUME NEW d \in Days, NEW fee \in Nat, NEW base \in SUBSET Validators
  PROVE  /\ Escrowed(d, fee, base) \in Window
         /\ Escrowed(d, fee, base).open
         /\ Escrowed(d, fee, base).day = d
<1>1. K \in Nat
  BY ConstantFacts
<1>2. [v \in Validators |-> IF v \in base THEN 1 ELSE 0] \in [Validators -> 0..K + 1]
  BY SMTT(30), Z3T(30), <1>1
<1> QED
  BY <1>2 DEF Escrowed, Window

(* record_late_credit neither opens nor closes a window nor moves it to *)
(* another day.                                                         *)
LEMMA CreditedWindow ==
  ASSUME NEW w \in Window, NEW voters \in SUBSET Validators, NEW k \in 0..K
  PROVE  /\ Credited(w, voters, k) \in Window
         /\ Credited(w, voters, k).open = w.open
         /\ Credited(w, voters, k).day = w.day
<1>1. K \in Nat
  BY ConstantFacts
<1>2. w.k \in [Validators -> 0..K + 1] /\ w.seen \in SUBSET Validators
  BY DEF Window
<1>3. [v \in Validators |-> IF v \in voters /\ (w.k[v] = 0 \/ k + 1 < w.k[v])
                            THEN k + 1 ELSE w.k[v]] \in [Validators -> 0..K + 1]
  BY <1>1, <1>2
<1>4. w.seen \cup voters \in SUBSET Validators
  BY <1>2
<1> QED
  BY ZenonT(20), <1>3, <1>4 DEF Credited, Window

-----------------------------------------------------------------------------
(* Every transition keeps the inductive invariant. *)

(* The genesis block starts in the invariant. *)
LEMMA InitHolds == CycleInit => Inductive
<1> SUFFICES ASSUME CycleInit
             PROVE  Inductive
  OBVIOUS
<1> USE DEF CycleInit, RewardsInit
<1>1. K \in Nat \ {0} /\ MaxHeight \in Nat \ {0} /\ MaxClock \in Nat \ {0}
  BY ConstantFacts
<1>2. DayOf(1) \in Days
  BY <1>1, DayOfClock
<1>3. Typed
  BY <1>1, <1>2, VacantWindow DEF Typed, Phases, Blocks
<1>4. \A b \in Blocks : ~win[b].open
  BY VacantWindow
<1>5. InStep
  BY DEF InStep
<1>6. OpenWindowsAreLastK
  <2>1. \A b \in Blocks : ~(b <= accounted)
    BY <1>1 DEF Blocks
  <2> QED
    BY <1>4, <2>1 DEF OpenWindowsAreLastK
<1>7. CloseCovers
  BY <1>4 DEF CloseCovers
<1>8. CalendarBehind
  BY <1>2 DEF CalendarBehind, Days
<1>9. PreparedDaysFinal
  BY DEF PreparedDaysFinal
<1> QED
  BY <1>3, <1>5, <1>6, <1>7, <1>8, <1>9 DEF Inductive

(* CertifiedParentAccounting opens the window of the parent, which was the *)
(* only one missing, and moves the close height of its day with it.        *)
LEMMA AccountParentKeeps ==
  ASSUME Inductive, NEW c \in Committees, NEW base \in SUBSET c,
         AccountParent(c, base), UNCHANGED cycleVars
  PROVE  Inductive'
<1>1. K \in Nat \ {0} /\ MaxHeight \in Nat \ {0}
  BY ConstantFacts
<1>2. base \in SUBSET Validators
  BY RewardsAssumption
<1> DEFINE b0 == height - 1
           d0 == summary.day
           e0 == Escrowed(d0, summary.fee, base)
<1>3. /\ height \in 1..MaxHeight
      /\ height >= 2
      /\ accounted = height - 2
      /\ d0 \in Days
      /\ summary.fee \in Nat
      /\ win \in [Blocks -> Window]
      /\ close \in [Days -> Nat]
  BY DEF Inductive, Typed, InStep, AccountParent
<1>4. b0 \in Blocks /\ b0 \in Nat
  BY <1>1, <1>3 DEF Blocks
<1>5. e0 \in Window /\ e0.open /\ e0.day = d0
  BY <1>2, <1>3, EscrowedWindow
<1>6. /\ win' = [win EXCEPT ![b0] = e0]
      /\ close' = [close EXCEPT ![d0] = IF @ > b0 + K THEN @ ELSE b0 + K]
      /\ accounted' = b0
      /\ phase = "parent" /\ phase' = "late"
      /\ d0 \notin prepared
      /\ height' = height /\ clock' = clock /\ summary' = summary
      /\ prepared' = prepared
  BY DEF AccountParent, ClosesAt
<1>7. activeDay' = activeDay
  BY DEF cycleVars
<1> HIDE DEF b0, d0, e0
<1>8. \A d \in Days : close'[d] \in Nat /\ close'[d] >= close[d]
  BY <1>1, <1>3, <1>4, <1>6
<1>9. close'[d0] >= b0 + K
  BY <1>1, <1>3, <1>4, <1>6
<1>10. Typed'
  <2>1. win' \in [Blocks -> Window]
    BY ZenonT(20), <1>3, <1>5, <1>6
  <2>2. close' \in [Days -> Nat]
    BY <1>1, <1>3, <1>4, <1>6
  <2> QED
    BY <1>4, <1>6, <1>7, <2>1, <2>2 DEF Inductive, Typed, Phases
<1>11. InStep'
  BY <1>3, <1>6 DEF InStep, b0
<1>12. \A b \in Blocks : win'[b].open <=> (win[b].open \/ b = b0)
  BY <1>3, <1>4, <1>5, <1>6
<1>13. OpenWindowsAreLastK'
  <2>1. \A b \in Blocks : win[b].open <=> (height - K <= b /\ b <= accounted)
    BY <1>6 DEF Inductive, OpenWindowsAreLastK
  <2>2. \A b \in Blocks : (height - K <= b /\ b <= accounted') <=>
                           ((height - K <= b /\ b <= accounted) \/ b = b0)
    BY <1>1, <1>3, <1>6 DEF b0, Blocks
  <2>3. \A b \in Blocks : win'[b].open <=> (height - K <= b /\ b <= accounted')
    BY <1>12, <2>1, <2>2
  <2> QED
    BY <1>6, <2>3 DEF OpenWindowsAreLastK, Blocks
<1>14. CloseCovers'
  <2> SUFFICES ASSUME NEW b \in Blocks, win'[b].open
               PROVE  win'[b].day \in Days /\ close'[win'[b].day] >= b + K
    BY DEF CloseCovers, Blocks, Days
  <2>1. CASE b = b0
    <3>1. win'[b].day = d0
      BY <2>1, <1>3, <1>4, <1>5, <1>6
    <3> QED
      BY ZenonT(20), <2>1, <3>1, <1>3, <1>9
  <2>2. CASE b # b0
    <3>1. win'[b] = win[b]
      BY <2>2, <1>3, <1>4, <1>6
    <3>2. win[b].day \in Days /\ close[win[b].day] >= b + K
      BY <3>1 DEF Inductive, CloseCovers
    <3>3. b + K \in Nat /\ close[win[b].day] \in Nat
      BY <1>1, <1>3, <3>2 DEF Blocks
    <3> QED
      BY <3>1, <3>2, <3>3, <1>8
  <2> QED
    BY <2>1, <2>2
<1>15. CalendarBehind'
  BY <1>6, <1>7 DEF Inductive, CalendarBehind, DayOf
<1>16. PreparedDaysFinal'
  <2>1. \A d \in prepared : \A b \in Blocks : win'[b].open => win'[b].day # d
    <3> TAKE d \in prepared
    <3> TAKE b \in Blocks
    <3>1. CASE b = b0
      BY <3>1, <1>3, <1>4, <1>5, <1>6
    <3>2. CASE b # b0
      BY <3>2, <1>3, <1>4, <1>6 DEF Inductive, PreparedDaysFinal
    <3> QED
      BY <3>1, <3>2
  <2> QED
    BY <2>1, <1>6 DEF Inductive, PreparedDaysFinal, DayOf, Blocks
<1> QED
  BY <1>10, <1>11, <1>13, <1>14, <1>15, <1>16 DEF Inductive

(* LateFinalizeCredits closes the window of height - K, which is open, and no *)
(* other.                                                                     *)
LEMMA LateCreditsKeep ==
  ASSUME Inductive, NEW credits \in [InWindow -> Batches],
         LateFinalizeCredits(credits), UNCHANGED cycleVars
  PROVE  Inductive'
<1> DEFINE ws == [b \in Blocks |->
                   IF b \in InWindow /\ credits[b] # {}
                   THEN Credited(win[b], credits[b], height - b) ELSE win[b]]
           m == height - K
<1>1. K \in Nat \ {0} /\ MaxHeight \in Nat \ {0}
  BY ZenonT(20), ConstantFacts
<1>2. /\ height \in 1..MaxHeight
      /\ accounted = height - 1
      /\ win \in [Blocks -> Window]
      /\ close \in [Days -> Nat]
      /\ phase = "late" /\ phase' = "cycle"
      /\ height' = height /\ clock' = clock /\ summary' = summary
      /\ accounted' = accounted /\ close' = close /\ prepared' = prepared
  BY DEF Inductive, Typed, InStep, LateFinalizeCredits
<1>3. activeDay' = activeDay
  BY ZenonT(20) DEF cycleVars
<1>4. \A b \in Blocks : /\ ws[b] \in Window
                        /\ ws[b].open = win[b].open
                        /\ ws[b].day = win[b].day
  <2> TAKE b \in Blocks
  <2>1. win[b] \in Window
    BY <1>2
  <2>2. CASE b \in InWindow /\ credits[b] # {}
    <3>1. credits[b] \in SUBSET Validators
      BY <2>2 DEF Batches
    <3>2. height - b \in 0..K
      BY <2>2, <1>1, <1>2 DEF InWindow
    <3> QED
      BY <2>1, <2>2, <3>1, <3>2, CreditedWindow
  <2>3. CASE ~(b \in InWindow /\ credits[b] # {})
    BY <2>1, <2>3
  <2> QED
    BY <2>2, <2>3
<1>5. /\ m >= 1 /\ ws[m].open => win' = [ws EXCEPT ![m] = Vacant]
      /\ ~(m >= 1 /\ ws[m].open) => win' = ws
  BY ZenonT(20) DEF LateFinalizeCredits, CloseMatured, Matured
<1>6. ws = [b \in Blocks |-> ws[b]]
  OBVIOUS
<1> HIDE DEF ws
<1>7. \A b \in Blocks : win[b].open <=> (m <= b /\ b <= accounted)
  BY <1>2 DEF Inductive, OpenWindowsAreLastK
<1>8. m >= 1 => m \in Blocks /\ ws[m].open
  <2>1. m >= 1 => m \in Blocks /\ m <= accounted /\ m <= m
    BY <1>1, <1>2 DEF Blocks
  <2> QED
    BY <2>1, <1>4, <1>7
<1>9. \A b \in Blocks : b = m => m >= 1
  BY DEF Blocks
<1>10. \A b \in Blocks : /\ win'[b] \in Window
                         /\ win'[b].open <=> (win[b].open /\ b # m)
                         /\ win'[b].open => win'[b].day = win[b].day
  <2>1. CASE m >= 1
    <3>1. win' = [ws EXCEPT ![m] = Vacant]
      BY <2>1, <1>5, <1>8
    <3>2. \A b \in Blocks : win'[b] = IF b = m THEN Vacant ELSE ws[b]
      BY <3>1, <1>6
    <3> QED
      BY <3>2, <1>4, VacantWindow
  <2>2. CASE ~(m >= 1)
    <3>1. win' = ws
      BY <2>2, <1>5
    <3> QED
      BY <3>1, <2>2, <1>4, <1>9
  <2> QED
    BY <2>1, <2>2
<1>11. win' \in [Blocks -> Window]
  <2>1. win' = [b \in Blocks |-> win'[b]]
    <3>1. CASE m >= 1
      BY <3>1, <1>5, <1>6, <1>8
    <3>2. CASE ~(m >= 1)
      BY <3>2, <1>5, <1>6
    <3> QED
      BY <3>1, <3>2
  <2> QED
    BY <2>1, <1>10
<1>12. Typed'
  BY <1>2, <1>3, <1>11 DEF Inductive, Typed, Phases
<1>13. InStep'
  BY <1>2 DEF InStep
<1>14. OpenWindowsAreLastK'
  <2>1. \A b \in Blocks : (height - K + 1 <= b /\ b <= accounted) <=>
                           (m <= b /\ b <= accounted /\ b # m)
    BY <1>1, <1>2 DEF Blocks
  <2>2. \A b \in Blocks : win'[b].open <=> (height - K + 1 <= b /\ b <= accounted)
    BY ZenonT(20), <2>1, <1>7, <1>10
  <2> QED
    BY <2>2, <1>2 DEF OpenWindowsAreLastK, Blocks
<1>15. CloseCovers'
  BY <1>2, <1>10 DEF Inductive, CloseCovers, Blocks, Days
<1>16. CalendarBehind'
  BY <1>2, <1>3 DEF Inductive, CalendarBehind, DayOf
<1>17. PreparedDaysFinal'
  BY <1>2, <1>10 DEF Inductive, PreparedDaysFinal, DayOf, Blocks
<1> QED
  BY <1>12, <1>13, <1>14, <1>15, <1>16, <1>17 DEF Inductive

(* A new block belongs to a day that is not prepared. *)
LEMMA ProduceBlockKeeps ==
  ASSUME Inductive, NEW fee \in Fees, NEW t \in clock..MaxClock,
         ProduceBlock(fee, t), UNCHANGED cycleVars
  PROVE  Inductive'
<1>1. K \in Nat \ {0} /\ MaxHeight \in Nat \ {0} /\ MaxClock \in Nat /\ fee \in Nat
  BY ConstantFacts
<1>2. /\ height \in 1..MaxHeight /\ height < MaxHeight
      /\ clock \in 0..MaxClock
      /\ accounted = height - 1
      /\ phase = "body" /\ phase' = "parent"
      /\ summary' = [fee |-> fee, day |-> DayOf(clock)]
      /\ height' = height + 1
      /\ clock' = t
      /\ win' = win /\ accounted' = accounted /\ close' = close /\ prepared' = prepared
  BY DEF Inductive, Typed, InStep, ProduceBlock
<1>3. activeDay' = activeDay
  BY DEF cycleVars
<1>4. DayOf(clock) \in Days /\ DayOf(t) \in Days /\ DayOf(clock) <= DayOf(t)
  BY <1>2, DayOfClock
<1>5. t \in 0..MaxClock
  BY <1>1, <1>2
<1>6. Typed'
  BY <1>1, <1>2, <1>3, <1>4, <1>5 DEF Inductive, Typed, Phases
<1>7. InStep'
  BY <1>1, <1>2 DEF InStep
<1>8. OpenWindowsAreLastK'
  <2>1. height' - K = height - K + 1
    BY <1>1, <1>2
  <2> QED
    BY <2>1, <1>2 DEF Inductive, OpenWindowsAreLastK, Blocks
<1>9. CloseCovers'
  BY <1>2 DEF Inductive, CloseCovers, Blocks, Days
<1>10. \A d \in prepared : d \in Int /\ d < activeDay
  BY DEF Inductive, CalendarBehind, Typed, Days
<1>11. activeDay \in Int /\ activeDay <= DayOf(clock) /\ DayOf(clock) \in Int /\ DayOf(t) \in Int
  BY <1>4 DEF Inductive, CalendarBehind, Typed, Days
<1>12. DayOf(clock)' = DayOf(t)
  BY <1>2 DEF DayOf
<1>13. CalendarBehind'
  BY <1>2, <1>3, <1>4, <1>10, <1>11, <1>12 DEF CalendarBehind
<1>14. PreparedDaysFinal'
  <2>1. \A d \in prepared : d # DayOf(clock) /\ d # DayOf(t)
    BY <1>4, <1>10, <1>11
  <2>2. \A d \in prepared : \A b \in Blocks : win[b].open => win[b].day # d
    BY DEF Inductive, PreparedDaysFinal
  <2>3. summary'.day = DayOf(clock)
    BY ZenonT(20), <1>2
  <2> QED
    BY <1>2, <1>12, <2>1, <2>2, <2>3 DEF PreparedDaysFinal, Blocks
<1> QED
  BY <1>6, <1>7, <1>8, <1>9, <1>13, <1>14 DEF Inductive

(* What the cycle tick and the gem delivery have in common. *)
LEMMA LaterPhaseKeeps ==
  ASSUME Inductive,
         UNCHANGED <<height, clock, summary, accounted, win, close>>,
         phase \in {"cycle", "gems"}, phase' \in {"gems", "body"},
         activeDay' \in Days, activeDay' <= DayOf(clock),
         prepared' \subseteq Days,
         \A d \in prepared' :
           d < activeDay' /\ \A b \in Blocks : win[b].open => win[b].day # d
  PROVE  Inductive'
<1>1. Typed'
  BY DEF Inductive, Typed, Phases
<1>2. InStep'
  BY DEF Inductive, InStep
<1>3. OpenWindowsAreLastK'
  BY DEF Inductive, OpenWindowsAreLastK, Blocks
<1>4. CloseCovers'
  BY DEF Inductive, CloseCovers, Blocks, Days
<1>5. CalendarBehind'
  BY DEF CalendarBehind, DayOf
<1>6. clock \in 0..MaxClock
  BY DEF Inductive, Typed
<1>7. DayOf(clock) \in Days
  <2>1. clock \in clock..MaxClock
    BY <1>6, ConstantFacts
  <2> QED
    BY <2>1, <1>6, DayOfClock
<1>8. \A d \in prepared' : d # DayOf(clock)
  BY <1>7 DEF Days
<1>9. PreparedDaysFinal'
  BY <1>8 DEF PreparedDaysFinal, DayOf, Blocks
<1> QED
  BY <1>1, <1>2, <1>3, <1>4, <1>5, <1>9 DEF Inductive

(* A step that prepares no day and leaves the calendar alone. *)
LEMMA CalendarKept ==
  ASSUME Inductive,
         UNCHANGED <<height, clock, summary, accounted, win, close, prepared, activeDay>>,
         phase \in {"cycle", "gems"}, phase' \in {"gems", "body"}
  PROVE  Inductive'
<1>1. activeDay' \in Days /\ activeDay' <= DayOf(clock) /\ prepared' \subseteq Days
  BY DEF Inductive, Typed, CalendarBehind
<1>2. \A d \in prepared' :
        d < activeDay' /\ \A b \in Blocks : win[b].open => win[b].day # d
  BY ZenonT(20) DEF Inductive, CalendarBehind, PreparedDaysFinal
<1> QED
  BY <1>1, <1>2, LaterPhaseKeeps

(* The day ProtocolCycle settles is behind the last window that could add a    *)
(* vote: day_participation_complete compares the height with the largest close *)
(* height of the day, and the open windows are the last K.                     *)
LEMMA SettlePreviousKeeps ==
  ASSUME Inductive, RunSettlePrevious
  PROVE  Inductive'
<1>1. K \in Nat \ {0} /\ MaxHeight \in Nat \ {0}
  BY ConstantFacts
<1>2. /\ UNCHANGED <<height, clock, summary, accounted, win, close>>
      /\ phase = "cycle" /\ phase' = "gems"
      /\ activeDay' = DayOf(clock)
      /\ DayOf(clock) = activeDay + 1
      /\ prepared' = prepared \cup {activeDay}
      /\ close[activeDay] = 0 \/ height > close[activeDay]
  BY DEF RunSettlePrevious, Fire, Fires, TickDone, accounts, SettlesPrevious, SettleDay,
         DayComplete
<1>3. /\ height \in 1..MaxHeight
      /\ clock \in 0..MaxClock
      /\ activeDay \in Days
      /\ prepared \subseteq Days
      /\ close \in [Days -> Nat]
  BY DEF Inductive, Typed
<1>4. DayOf(clock) \in Days
  <2>1. clock \in clock..MaxClock
    BY <1>3, ConstantFacts
  <2> QED
    BY <2>1, <1>3, DayOfClock
<1>5. \A b \in Blocks : win[b].open => height - K + 1 <= b
  BY <1>2 DEF Inductive, OpenWindowsAreLastK
<1>6. \A b \in Blocks : win[b].open => win[b].day # activeDay
  <2> SUFFICES ASSUME NEW b \in Blocks, win[b].open, win[b].day = activeDay
               PROVE  FALSE
    OBVIOUS
  <2>1. close[activeDay] >= b + K
    BY DEF Inductive, CloseCovers
  <2>2. height - K + 1 <= b
    BY <1>5
  <2>3. close[activeDay] \in Nat /\ b \in Nat /\ b >= 1
    BY <1>3 DEF Blocks
  <2> QED
    BY <2>1, <2>2, <2>3, <1>1, <1>2, <1>3
<1>7. \A d \in prepared : d < activeDay + 1
  BY <1>3 DEF Inductive, CalendarBehind, Days
<1>8. \A d \in prepared' :
        d < activeDay' /\ \A b \in Blocks : win[b].open => win[b].day # d
  <2>1. activeDay < activeDay + 1
    BY <1>3 DEF Days
  <2>2. \A d \in prepared' : d < activeDay'
    BY ZenonT(20), <2>1, <1>2, <1>7
  <2>3. \A d \in prepared' : \A b \in Blocks : win[b].open => win[b].day # d
    BY <1>2, <1>6 DEF Inductive, PreparedDaysFinal
  <2> QED
    BY <2>2, <2>3
<1>9. prepared' \subseteq Days /\ activeDay' \in Days /\ activeDay' <= DayOf(clock)
  BY <1>2, <1>3, <1>4 DEF Days
<1> QED
  BY <1>2, <1>8, <1>9, LaterPhaseKeeps

(* Forfeiting the days of a gap prepares none of them. *)
LEMMA SkipMissedKeeps ==
  ASSUME Inductive, RunSkipMissed
  PROVE  Inductive'
<1>1. /\ UNCHANGED <<height, clock, summary, accounted, win, close, prepared>>
      /\ phase = "cycle" /\ phase' = "gems"
      /\ activeDay' = DayOf(clock)
      /\ DayOf(clock) > activeDay + 1
  BY DEF RunSkipMissed, Fire, TickDone, accounts, SkipsMissed
<1>2. clock \in 0..MaxClock /\ activeDay \in Days /\ prepared \subseteq Days
  BY DEF Inductive, Typed
<1>3. DayOf(clock) \in Days
  <2>1. clock \in clock..MaxClock
    BY <1>2, ConstantFacts
  <2> QED
    BY <2>1, <1>2, DayOfClock
<1>4. \A d \in prepared' : d < activeDay'
  BY <1>1, <1>2, <1>3 DEF Inductive, CalendarBehind, Days
<1>5. \A d \in prepared' : \A b \in Blocks : win[b].open => win[b].day # d
  BY <1>1 DEF Inductive, PreparedDaysFinal
<1>6. prepared' \subseteq Days /\ activeDay' \in Days /\ activeDay' <= DayOf(clock)
  BY <1>1, <1>2, <1>3 DEF Days
<1> QED
  BY <1>1, <1>4, <1>5, <1>6, LaterPhaseKeeps

(* One case per system transaction. *)
LEMMA NextKeeps ==
  ASSUME Inductive, [Next]_vars
  PROVE  Inductive'
<1>1. CASE UNCHANGED cycleVars /\ \E c \in Committees : \E base \in SUBSET c : AccountParent(c, base)
  BY <1>1, AccountParentKeeps
<1>2. CASE UNCHANGED cycleVars /\ \E credits \in [InWindow -> Batches] : LateFinalizeCredits(credits)
  BY <1>2, LateCreditsKeep
<1>3. CASE UNCHANGED cycleVars /\ \E fee \in Fees : \E t \in clock..MaxClock : ProduceBlock(fee, t)
  BY <1>3, ProduceBlockKeeps
<1>4. CASE Idle
  BY <1>4, CalendarKept DEF Idle, TickDone, accounts
<1>5. CASE RunSameDay
  BY <1>5, CalendarKept DEF RunSameDay, Fire, TickDone, accounts
<1>6. CASE RunSettlePrevious
  BY <1>6, SettlePreviousKeeps
<1>7. CASE RunSkipMissed
  BY <1>7, SkipMissedKeeps
<1>8. CASE KeepBatch
  BY ZenonT(20), <1>8, CalendarKept DEF KeepBatch, accounts
<1>9. CASE Deliver
  BY ZenonT(20), <1>9, CalendarKept DEF Deliver, accounts
<1>10. CASE UNCHANGED vars
  BY <1>10 DEF vars, rewardVars, accounts, Inductive, Typed, InStep, OpenWindowsAreLastK,
               CloseCovers, CalendarBehind, PreparedDaysFinal, DayOf, Blocks, Days
<1>11. CASE AtBound
  BY <1>10, <1>11 DEF AtBound
<1> QED
  BY <1>1, <1>2, <1>3, <1>4, <1>5, <1>6, <1>7, <1>8, <1>9, <1>10, <1>11 DEF Next

-----------------------------------------------------------------------------
(* The strengthened invariant holds in every block. *)
THEOREM InductiveHolds == Spec => []Inductive
BY InitHolds, NextKeeps, PTL DEF Spec

(* For every committee structure, window length and calendar: between two system *)
(* transactions the escrowed windows are exactly those of the last K accounted   *)
(* blocks, so an admissible late credit finds its escrow                         *)
(* (authenticate_late_credit) and no escrow outlives its close (settle_matured). *)
THEOREM OpenWindowsHold == Spec => []OpenWindowsAreLastK
<1>1. Inductive => OpenWindowsAreLastK
  BY DEF Inductive
<1> QED
  BY <1>1, InductiveHolds, PTL

(* For every committee structure, window length and calendar: no vote for a day can *)
(* arrive once its gem batch is prepared, so record_reward_participation never      *)
(* fails a block.                                                                   *)
THEOREM PreparedDaysHold == Spec => []PreparedDaysFinal
<1>1. Inductive => PreparedDaysFinal
  BY DEF Inductive
<1> QED
  BY <1>1, InductiveHolds, PTL

-----------------------------------------------------------------------------
(* Division.                                                                  *)

(* q and r are the quotient and the remainder of x by R.                      *)
Divides(x, R, q, r) == q \in Int /\ r \in 0..R - 1 /\ x = R * q + r

(* Quotient and remainder are unique.                                         *)
LEMMA DivisionUnique ==
  ASSUME NEW R \in Nat \ {0}, NEW x, NEW p, NEW q, NEW r, NEW s,
         Divides(x, R, p, r), Divides(x, R, q, s)
  PROVE  p = q /\ r = s
<1>1. ASSUME NEW i \in Int, NEW j \in Int, NEW t \in 0..R - 1, NEW u \in 0..R - 1,
             R * i + t = R * j + u, i > j
      PROVE  FALSE
  <2>1. PICK n \in Nat : i = j + 1 + n
    <3>1. i - j - 1 \in Nat
      BY <1>1
    <3> QED
      BY <3>1, <1>1
  <2>2. R * i = R * j + R + R * n
    BY <2>1, <1>1
  <2>3. R * n \in Nat /\ R * j \in Int
    BY <2>1, <1>1
  <2> QED
    BY <2>2, <2>3, <1>1
<1>2. p \in Int /\ q \in Int /\ r \in 0..R - 1 /\ s \in 0..R - 1
  BY DEF Divides
<1>3. R * p + r = R * q + s
  BY DEF Divides
<1>4. ~(p > q) /\ ~(q > p)
  BY <1>1, <1>2, <1>3
<1>5. p = q
  BY <1>2, <1>4
<1>6. R * p \in Int /\ R * p = R * q
  BY <1>2, <1>5
<1> QED
  BY <1>2, <1>3, <1>5, <1>6

(* The operators of the language are that quotient and remainder.             *)
LEMMA ModOf ==
  ASSUME NEW R \in Nat \ {0}, NEW x \in Nat
  PROVE  Divides(x, R, x \div R, x % R)
BY DEF Divides

(* A number below the modulus is its own remainder: the cursor of the guard   *)
(* ring in the first round.                                                   *)
LEMMA ModSmall ==
  ASSUME NEW R \in Nat \ {0}, NEW a \in 0..R - 1
  PROVE  a % R = a
<1>1. a \in Nat
  OBVIOUS
<1>2. Divides(a, R, a \div R, a % R)
  BY ZenonT(20), <1>1, ModOf
<1>3. Divides(a, R, 0, a)
  BY <1>1 DEF Divides
<1> QED
  BY <1>2, <1>3, DivisionUnique

(* Going back one whole round leads to the same slot of the ring.             *)
LEMMA ModShift ==
  ASSUME NEW R \in Nat \ {0}, NEW a \in Nat, a >= R
  PROVE  (a - R) % R = a % R
<1>1. Divides(a, R, a \div R, a % R)
  BY ZenonT(20), ModOf
<1>2. a - R \in Nat
  OBVIOUS
<1>3. Divides(a - R, R, (a - R) \div R, (a - R) % R)
  BY ZenonT(20), <1>2, ModOf
<1> DEFINE p == (a - R) \div R
<1>4. Divides(a, R, p + 1, (a - R) % R)
  <2>1. p \in Int /\ a - R = R * p + ((a - R) % R) /\ (a - R) % R \in 0..R - 1
    BY <1>3 DEF Divides
  <2> HIDE DEF p
  <2>2. R * (p + 1) = R * p + R /\ R * p \in Int
    BY <2>1
  <2> QED
    BY <2>1, <2>2 DEF Divides
<1> QED
  BY <1>1, <1>4, DivisionUnique

(* Two sequence numbers less than a round apart have different slots:         *)
(* prune_block_guards never evicts a block of the horizon.                    *)
LEMMA ModApart ==
  ASSUME NEW R \in Nat \ {0}, NEW a \in Nat, NEW b \in Nat, b < a, a - b < R
  PROVE  a % R # b % R
<1> SUFFICES ASSUME a % R = b % R PROVE FALSE
  OBVIOUS
<1> DEFINE q == a \div R
           p == b \div R
<1>1. q \in Int /\ a % R \in 0..R - 1 /\ a = R * q + (a % R)
  BY ModOf DEF Divides
<1>2. p \in Int /\ b % R \in 0..R - 1 /\ b = R * p + (b % R)
  BY ModOf DEF Divides
<1> HIDE DEF p, q
<1>3. R * q \in Int /\ R * p \in Int /\ R * q = R * p + (a - b)
  BY <1>1, <1>2
<1>4. Divides(R * q, R, q, 0) /\ Divides(R * q, R, p, a - b)
  BY <1>1, <1>2, <1>3 DEF Divides
<1>5. 0 = a - b
  BY <1>4, DivisionUnique
<1> QED
  BY <1>5

(* A common factor of amount and denominator cancels, remainder and all:      *)
(* w_max in the shares of settle_window.                                      *)
LEMMA DivScale ==
  ASSUME NEW a \in Nat, NEW c \in Nat \ {0}, NEW w \in Nat \ {0}
  PROVE  (a * w) \div (c * w) = a \div c
<1> DEFINE q == a \div c
           r == a % c
           R == c * w
           x == a * w
<1>1. q \in Int /\ r \in 0..c - 1 /\ a = c * q + r
  BY ModOf DEF Divides
<1>2. R \in Nat \ {0} /\ x \in Nat
  OBVIOUS
<1> HIDE DEF q, r
<1>3. x = R * q + r * w
  BY <1>1
<1>4. r * w \in 0..R - 1
  <2>1. PICK n \in Nat : c = r + 1 + n
    <3>1. c - r - 1 \in Nat
      BY <1>1
    <3> QED
      BY <3>1, <1>1
  <2>2. c * w = r * w + w + n * w
    BY <1>1, <2>1
  <2>3. r * w \in Nat /\ n * w \in Nat
    BY <1>1, <2>1
  <2> QED
    BY <2>2, <2>3
<1> HIDE DEF R, x
<1>5. Divides(x, R, q, r * w)
  BY <1>1, <1>3, <1>4 DEF Divides
<1>6. Divides(x, R, x \div R, x % R)
  BY ZenonT(20), <1>2, ModOf
<1>7. x \div R = q
  BY ZenonT(20), <1>2, <1>5, <1>6, DivisionUnique
<1> QED
  BY <1>7 DEF x, R, q

-----------------------------------------------------------------------------
(* What run_late_finalize_credits does to the windows.                        *)

(* The windows after the late votes of a block, before one of them closes.    *)
After(credits) ==
  [b \in Blocks |-> IF b \in InWindow /\ credits[b] # {}
                    THEN Credited(win[b], credits[b], height - b) ELSE win[b]]

(* Late votes change the votes of a window and neither its escrow nor its day *)
(* nor whether it is open (record_late_credit).                               *)
LEMMA AfterWindows ==
  ASSUME Inductive, NEW credits \in [InWindow -> Batches]
  PROVE  /\ After(credits) \in [Blocks -> Window]
         /\ \A b \in Blocks : /\ After(credits)[b].open = win[b].open
                              /\ After(credits)[b].day = win[b].day
                              /\ After(credits)[b].fee = win[b].fee
<1>1. K \in Nat \ {0} /\ height \in 1..MaxHeight /\ MaxHeight \in Nat /\ win \in [Blocks -> Window]
  BY ZenonT(20), ConstantFacts DEF Inductive, Typed
<1>2. ASSUME NEW b \in Blocks
      PROVE  /\ After(credits)[b] \in Window
             /\ After(credits)[b].open = win[b].open
             /\ After(credits)[b].day = win[b].day
             /\ After(credits)[b].fee = win[b].fee
  <2>1. win[b] \in Window
    BY ZenonT(20), <1>1
  <2>2. CASE b \in InWindow /\ credits[b] # {}
    <3>1. credits[b] \in SUBSET Validators
      BY <2>2 DEF Batches
    <3>2. height - b \in 0..K
      BY <2>2, <1>1 DEF InWindow
    <3> DEFINE c == Credited(win[b], credits[b], height - b)
    <3>3. c \in Window /\ c.open = win[b].open /\ c.day = win[b].day
      BY <2>1, <3>1, <3>2, CreditedWindow
    <3>4. c.fee = win[b].fee
      BY <2>1 DEF Credited, Window
    <3>5. After(credits)[b] = c
      BY ZenonT(20), <2>2 DEF After
    <3> HIDE DEF c
    <3> QED
      BY <3>3, <3>4, <3>5
  <2>3. CASE ~(b \in InWindow /\ credits[b] # {})
    <3>1. After(credits)[b] = win[b]
      BY <2>3 DEF After
    <3> QED
      BY <2>1, <3>1
  <2> QED
    BY <2>2, <2>3
<1>3. After(credits) \in [Blocks -> Window]
  BY ZenonT(20), <1>2 DEF After
<1> QED
  BY <1>2, <1>3

(* The window that closes in a block is open whenever its block exists, so    *)
(* settle_matured and record_window_close_absentees always do their work on   *)
(* it.                                                                        *)
LEMMA LateCreditsEffect ==
  ASSUME Inductive, NEW credits \in [InWindow -> Batches], LateFinalizeCredits(credits)
  PROVE  LET ws == After(credits)
             m == height - K
             w == ws[m]
             c == committee[m]
         IN  /\ m >= 1 =>
                  /\ m \in Blocks
                  /\ win[m].open
                  /\ win' = [ws EXCEPT ![m] = Vacant]
                  /\ settled' = settled \cup {m}
                  /\ missed' = [v \in Validators |->
                                  missed[v] + (IF v \in Absentees(w, c) THEN 1 ELSE 0)]
                  /\ paid' = [v \in Validators |-> paid[v] + Payout(w, c, v)]
                  /\ balance' = balance - (Distributed(w, c) + Residue(w, c))
             /\ ~(m >= 1) => win' = ws /\ UNCHANGED <<missed, paid, burned, balance, settled>>
<1> DEFINE ws == After(credits)
           m == height - K
<1>1. /\ K \in Nat \ {0} /\ MaxHeight \in Nat \ {0}
      /\ height \in 1..MaxHeight /\ accounted = height - 1
      /\ phase = "late"
  BY ZenonT(20), ConstantFacts DEF Inductive, Typed, InStep, LateFinalizeCredits
<1>2. CloseMatured(ws)
  BY ZenonT(20) DEF LateFinalizeCredits, After
<1>3. m >= 1 => m \in Blocks /\ win[m].open
  <2>1. \A b \in Blocks : win[b].open <=> (m <= b /\ b <= accounted)
    BY <1>1 DEF Inductive, OpenWindowsAreLastK
  <2>2. m >= 1 => m \in Blocks /\ m <= accounted /\ m <= m
    BY <1>1 DEF Blocks
  <2> QED
    BY <2>1, <2>2
<1>4. m >= 1 => ws[m].open
  BY ZenonT(20), <1>3, AfterWindows
<1> HIDE DEF ws
<1>5. CASE m >= 1
  <2>1. Matured >= 1 /\ ws[Matured].open
    BY ZenonT(20), <1>4, <1>5 DEF Matured
  <2> QED
    BY ZenonT(20), <1>2, <1>3, <1>5, <2>1 DEF CloseMatured, Matured, ws
<1>6. CASE ~(m >= 1)
  <2>1. ~(Matured >= 1 /\ ws[Matured].open)
    BY ZenonT(20), <1>6 DEF Matured
  <2> QED
    BY <1>2, <1>6, <2>1 DEF CloseMatured, Matured, ws
<1> QED
  BY ZenonT(20), <1>5, <1>6

(* record_late_credit keeps the seen members and the recorded distances of a  *)
(* window in step.                                                            *)
LEMMA AfterVoters ==
  ASSUME Inductive, NEW credits \in [InWindow -> Batches], NEW b \in Blocks,
         win[b].seen = Voters(win[b])
  PROVE  /\ After(credits)[b].seen = Voters(After(credits)[b])
         /\ b \in InWindow => Voters(After(credits)[b]) = Voters(win[b]) \cup credits[b]
         /\ b \notin InWindow => Voters(After(credits)[b]) = Voters(win[b])
<1>1. K \in Nat \ {0} /\ win[b] \in Window /\ height \in Nat
  BY SMTT(30), Z3T(30), ConstantFacts DEF Inductive, Typed
<1>2. CASE b \in InWindow /\ credits[b] # {}
  <2>1. credits[b] \in SUBSET Validators
    BY <1>2 DEF Batches
  <2>2. height - b \in 1..K
    BY ZenonT(20), <1>2 DEF InWindow
  <2>3. win[b].k \in [Validators -> 0..K + 1] /\ win[b].seen \in SUBSET Validators
    BY <1>1 DEF Window
  <2> DEFINE n == height - b
             c == Credited(win[b], credits[b], n)
             new == [v \in Validators |->
                      IF v \in credits[b] /\ (win[b].k[v] = 0 \/ n + 1 < win[b].k[v]) THEN n + 1
                      ELSE win[b].k[v]]
  <2>4. c.seen = win[b].seen \cup credits[b] /\ c.k = new
    BY ZenonT(20), <1>1 DEF Credited, Window
  <2>5. \A v \in Validators : new[v] > 0 <=> (win[b].k[v] > 0 \/ v \in credits[b])
    BY <2>2, <2>3, <1>1
  <2> HIDE DEF n, new
  <2>6. Voters(c) = Voters(win[b]) \cup credits[b]
    BY ZenonT(20), <2>1, <2>4, <2>5 DEF Voters
  <2>7. After(credits)[b] = c
    BY ZenonT(20), <1>2 DEF After, n
  <2> HIDE DEF c
  <2> QED
    BY ZenonT(20), <1>2, <2>4, <2>6, <2>7
<1>3. CASE ~(b \in InWindow /\ credits[b] # {})
  BY ZenonT(20), <1>3 DEF After
<1> QED
  BY ZenonT(20), <1>2, <1>3

(* A share is a natural number: the denominator of settle_window is never 0.  *)
LEMMA PayoutNat ==
  ASSUME NEW w \in Window, NEW c \in SUBSET Validators, Cardinality(c) \in Nat \ {0},
         NEW v \in Validators
  PROVE  Payout(w, c, v) \in Nat
<1> DEFINE n == w.fee * DecayWeight(w.k[v] - 1)
           d == Cardinality(c) * WMax
<1>1. /\ K \in Nat \ {0} /\ WMax \in Nat \ {0}
      /\ w.fee \in Nat /\ w.k[v] \in 0..K + 1
  BY RewardsAssumption DEF Window
<1>2. DecayWeight(w.k[v] - 1) \in Nat
  BY ZenonT(20), <1>1 DEF DecayWeight
<1>3. n \in Nat /\ d \in Nat \ {0}
  BY <1>1, <1>2
<1>4. n \div d \in Nat
  <2> HIDE DEF n, d
  <2> QED
    BY <1>3, DivMonotone
<1> QED
  BY <1>4 DEF Payout

(* The days of an instance are an interval.                                   *)
LEMMA DaysInterval == \E n \in Nat : Days = 1..n
<1>1. DayLength \in Nat \ {0} /\ MaxClock \in Nat /\ MaxClock <= MaxClock
  BY RewardsAssumption
<1>2. MaxClock \div DayLength \in Nat
  BY <1>1, DivMonotone
<1>3. MaxClock \div DayLength + 1 \in Nat
  BY SMTT(30), Z3T(30), <1>2
<1> QED
  BY <1>3 DEF Days

(* The steps that leave the accounts, the calendar of days and the gem queue  *)
(* alone.                                                                     *)
Quiet ==
  /\ UNCHANGED <<accounted, accounts, summary, prepared, daySettled, gemVars, minted, headroom>>
  /\ (phase = "parent") = (phase' = "parent")

(* An idle tick, a tick on the same day, a skipped gap and a delivery that    *)
(* does nothing are such steps.                                               *)
LEMMA QuietSteps ==
  ASSUME \/ Idle \/ RunSameDay \/ RunSkipMissed \/ KeepBatch \/ AtBound \/ UNCHANGED vars
  PROVE  Quiet
BY DEF Idle, RunSameDay, RunSkipMissed, KeepBatch, AtBound, vars, rewardVars, Fire, TickDone,
       Quiet

-----------------------------------------------------------------------------
(* The replay guards.                                                         *)

(* The ring holds each block of the horizon in the slot of its sequence       *)
(* number, and nothing else in the first round.                               *)
RingKept ==
  /\ seq = accounted
  /\ ring \in [0..Retain - 1 -> Blocks \cup {0}]
  /\ \A i \in 0..Retain - 1 : i >= accounted => ring[i] = 0
  /\ \A b \in Blocks : accounted - Retain < b /\ b <= accounted => ring[(b - 1) % Retain] = b

(* The inductive invariant of the guards.                                     *)
GuardInv == RingKept /\ GuardsCoverHorizon

(* Before the first block no guard is held.                                   *)
LEMMA GuardInit == CycleInit => GuardInv
<1> SUFFICES ASSUME CycleInit PROVE GuardInv
  OBVIOUS
<1>1. Retain \in Nat /\ MaxHeight \in Nat
  BY RewardsAssumption
<1>2. \A b \in Blocks : ~(b <= 0)
  BY <1>1 DEF Blocks
<1>3. RingKept
  BY ZenonT(20), <1>1, <1>2 DEF CycleInit, RewardsInit, RingKept
<1>4. GuardsCoverHorizon
  BY <1>2 DEF CycleInit, RewardsInit, GuardsCoverHorizon
<1> QED
  BY ZenonT(20), <1>3, <1>4 DEF GuardInv

(* on_finalized_metadata with prune_block_guards: the parent enters the       *)
(* horizon and the block Retain before it leaves.                             *)
LEMMA GuardAccount ==
  ASSUME Inductive, GuardInv, NEW c \in Committees, NEW base \in SUBSET c,
         AccountParent(c, base)
  PROVE  GuardInv'
<1> DEFINE a == accounted
           R == Retain
<1>1. /\ R \in Nat \ {0} /\ K \in Nat \ {0} /\ R > K /\ MaxHeight \in Nat
      /\ a \in Nat /\ a = height - 2 /\ height \in 1..MaxHeight
  BY RewardsAssumption DEF Inductive, Typed, InStep, AccountParent
<1>2. /\ accounted' = a + 1
      /\ seq = a /\ seq' = a + 1
      /\ ring' = [ring EXCEPT ![a % R] = a + 1]
      /\ counted' = (counted \ {ring[a % R]}) \cup {a + 1}
      /\ settled' = settled \ {ring[a % R]}
      /\ phase = "parent" /\ a + 1 \notin counted
      /\ win' = [win EXCEPT ![a + 1] = Escrowed(summary.day, summary.fee, base)]
  <2>1. height - 1 = a + 1
    BY <1>1
  <2> QED
    BY ZenonT(20), <1>1, <2>1 DEF AccountParent, GuardInv, RingKept, Evicted
<1>3. a + 1 \in Blocks
  BY <1>1 DEF Blocks
<1>4. a % R \in 0..R - 1
  BY <1>1
<1>5. ring[a % R] = IF a < R THEN 0 ELSE a - R + 1
  <2>1. CASE a < R
    <3>1. a % R = a
      BY <1>1, <2>1, ModSmall
    <3> QED
      BY <1>1, <1>4, <2>1, <3>1 DEF GuardInv, RingKept
  <2>2. CASE ~(a < R)
    <3>1. (a - R) % R = a % R
      <4>1. a >= R
        BY <1>1, <2>2
      <4> QED
        BY ZenonT(20), <1>1, <4>1, ModShift
    <3> DEFINE b == a - R + 1
    <3>2. b \in Blocks /\ a - R < b /\ b <= a /\ b - 1 = a - R
      BY <1>1, <2>2 DEF Blocks
    <3>3. ring[(b - 1) % R] = b
      BY <3>2 DEF GuardInv, RingKept
    <3> QED
      BY <2>2, <3>1, <3>2, <3>3
  <2> QED
    BY ZenonT(20), <2>1, <2>2
<1>6. RingKept'
  <2>1. ring' \in [0..R - 1 -> Blocks \cup {0}]
    BY ZenonT(20), <1>2, <1>3, <1>4 DEF GuardInv, RingKept
  <2>2. ASSUME NEW i \in 0..R - 1, i >= a + 1 PROVE ring'[i] = 0
    <3>1. a \in 0..R - 1
      BY <1>1, <2>2
    <3>2. a % R = a
      BY <1>1, <3>1, ModSmall
    <3>3. i # a % R /\ i >= a
      BY <1>1, <2>2, <3>2
    <3> QED
      BY <1>2, <3>3 DEF GuardInv, RingKept
  <2>3. ASSUME NEW b \in Blocks, a + 1 - R < b, b <= a + 1 PROVE ring'[(b - 1) % R] = b
    <3>1. CASE b = a + 1
      <4>1. b - 1 = a
        BY <1>1, <3>1
      <4>2. ring'[a % R] = a + 1
        BY ZenonT(20), <1>2, <1>4 DEF GuardInv, RingKept
      <4> QED
        BY <3>1, <4>1, <4>2
    <3>2. CASE b # a + 1
      <4>1. b - 1 \in Nat /\ b - 1 < a /\ a - (b - 1) < R
        BY <1>1, <2>3, <3>2 DEF Blocks
      <4>2. a % R # (b - 1) % R
        BY ZenonT(20), <1>1, <4>1, ModApart
      <4>3. (b - 1) % R \in 0..R - 1
        BY <1>1, <4>1
      <4>4. ring[(b - 1) % R] = b
        <5>1. a - R < b /\ b <= a
          BY <1>1, <2>3, <3>2 DEF Blocks
        <5> QED
          BY <5>1 DEF GuardInv, RingKept
      <4> QED
        BY <1>2, <4>2, <4>3, <4>4 DEF GuardInv, RingKept
    <3> QED
      BY <3>1, <3>2
  <2>4. \A i \in 0..Retain - 1 : i >= accounted' => ring'[i] = 0
    BY <1>2, <2>2
  <2>5. \A b \in Blocks :
          accounted' - Retain < b /\ b <= accounted' => ring'[(b - 1) % Retain] = b
    <3> SUFFICES ASSUME NEW b \in Blocks, accounted' - Retain < b, b <= accounted'
                 PROVE  ring'[(b - 1) % Retain] = b
      BY ZenonT(20)
    <3>1. a + 1 - R < b /\ b <= a + 1
      BY <1>1, <1>2 DEF Blocks
    <3> QED
      BY <2>3, <3>1
  <2>6. seq' = accounted'
    BY ZenonT(20), <1>2
  <2> QED
    BY ZenonT(20), <2>1, <2>4, <2>5, <2>6 DEF RingKept, Blocks
<1>7. \A b \in Blocks : win[b].open <=> (height - K <= b /\ b <= a)
  BY ZenonT(20), <1>2 DEF Inductive, OpenWindowsAreLastK
<1>8. \A b \in Blocks : win'[b].open <=> (win[b].open \/ b = a + 1)
  <2>1. summary.day \in Days /\ summary.fee \in Nat /\ base \in SUBSET Validators
    BY ZenonT(20), RewardsAssumption DEF Inductive, Typed
  <2>2. Escrowed(summary.day, summary.fee, base).open
    BY <2>1, EscrowedWindow
  <2> QED
    BY <1>2, <1>3, <2>2 DEF Inductive, Typed
<1>9. counted = {b \in Blocks : a - R < b /\ b <= a} /\ settled = {b \in counted : ~win[b].open}
  BY ZenonT(20) DEF GuardInv, GuardsCoverHorizon
<1>10. counted' = {b \in Blocks : a + 1 - R < b /\ b <= a + 1}
  BY <1>1, <1>2, <1>3, <1>5, <1>9 DEF Blocks
<1>11. settled' = {b \in counted' : ~win'[b].open}
  <2>1. \A b \in Blocks : b \in settled' <=> b \in counted' /\ ~win'[b].open
    <3> TAKE b \in Blocks
    <3>1. b \in settled <=> (a - R < b /\ b <= a /\ ~win[b].open)
      BY <1>9
    <3>2. b \in counted' <=> (a + 1 - R < b /\ b <= a + 1)
      BY ZenonT(20), <1>10
    <3>3. b \in settled' <=> (b \in settled /\ b # ring[a % R])
      BY ZenonT(20), <1>2
    <3>4. b # a + 1 => (b \in settled' <=> (a + 1 - R < b /\ b <= a + 1 /\ ~win[b].open))
      BY <1>1, <1>5, <3>1, <3>3 DEF Blocks
    <3>5. b = a + 1 => b \notin settled'
      BY <1>1, <3>1, <3>3
    <3> QED
      BY ZenonT(20), <3>2, <3>4, <3>5, <1>8
  <2>2. settled' \subseteq Blocks /\ counted' \subseteq Blocks
    BY <1>2, <1>9, <1>10
  <2> QED
    BY ZenonT(20), <2>1, <2>2
<1>12. GuardsCoverHorizon'
  <2>1. counted' = {b \in Blocks : accounted' - Retain < b /\ b <= accounted'}
    <3>1. accounted' = a + 1
      BY <1>2
    <3> QED
      BY <1>1, <1>10, <3>1 DEF Blocks
  <2> QED
    BY <1>11, <2>1 DEF GuardsCoverHorizon, Blocks
<1> QED
  BY ZenonT(20), <1>6, <1>12 DEF GuardInv

(* settle_window marks exactly the block whose window it closes.              *)
LEMMA GuardLate ==
  ASSUME Inductive, GuardInv, NEW credits \in [InWindow -> Batches],
         LateFinalizeCredits(credits)
  PROVE  GuardInv'
<1> DEFINE m == height - K
           ws == After(credits)
<1>1. /\ Retain \in Nat /\ K \in Nat \ {0} /\ Retain > K /\ MaxHeight \in Nat
      /\ height \in 1..MaxHeight /\ accounted = height - 1
      /\ UNCHANGED <<accounted, counted, ring, seq>>
  BY ZenonT(20), RewardsAssumption DEF Inductive, Typed, InStep, LateFinalizeCredits
<1>2. ws \in [Blocks -> Window] /\ \A b \in Blocks : ws[b].open = win[b].open
  BY ZenonT(20), AfterWindows
<1>3. counted = {b \in Blocks : accounted - Retain < b /\ b <= accounted}
  BY DEF GuardInv, GuardsCoverHorizon
<1>4. settled = {b \in counted : ~win[b].open}
  BY DEF GuardInv, GuardsCoverHorizon
<1>5. settled' = {b \in counted : ~win'[b].open}
  <2>1. CASE m >= 1
    <3>1. /\ m \in Blocks
          /\ win' = [ws EXCEPT ![m] = Vacant]
          /\ settled' = settled \cup {m}
      BY ZenonT(20), <2>1, LateCreditsEffect
    <3> HIDE DEF ws
    <3>2. m \in counted
      BY <1>1, <1>3, <3>1
    <3>3. \A b \in counted : win'[b].open <=> (win[b].open /\ b # m)
      BY ZenonT(20), <1>2, <1>3, <3>1, VacantWindow
    <3> QED
      BY ZenonT(20), <1>4, <3>1, <3>2, <3>3
  <2>2. CASE ~(m >= 1)
    <3>1. win' = ws /\ settled' = settled
      BY ZenonT(20), <2>2, LateCreditsEffect
    <3> QED
      BY ZenonT(20), <1>2, <1>3, <1>4, <3>1
  <2> QED
    BY <2>1, <2>2
<1>6. RingKept'
  BY <1>1 DEF GuardInv, RingKept, Blocks
<1> QED
  BY ZenonT(20), <1>1, <1>3, <1>5, <1>6 DEF GuardInv, GuardsCoverHorizon, Blocks

(* Every step keeps the guards.                                               *)
LEMMA GuardStep ==
  ASSUME Inductive, GuardInv, [Next]_vars
  PROVE  GuardInv'
<1> DEFINE Same == UNCHANGED <<accounted, seq, ring, counted, settled, win>>
<1>1. CASE Same
  BY <1>1 DEF GuardInv, RingKept, GuardsCoverHorizon, Blocks
<1>2. CASE Quiet
  BY ZenonT(20), <1>1, <1>2 DEF Quiet, accounts
<1>3. CASE RunSettlePrevious \/ Deliver
  BY ZenonT(20), <1>1, <1>3 DEF RunSettlePrevious, Fire, TickDone, Deliver, accounts
<1>4. CASE \E c \in Committees : \E base \in SUBSET c : AccountParent(c, base)
  BY <1>4, GuardAccount
<1>5. CASE \E credits \in [InWindow -> Batches] : LateFinalizeCredits(credits)
  BY ZenonT(20), <1>5, GuardLate
<1>6. CASE \E fee \in Fees : \E t \in clock..MaxClock : ProduceBlock(fee, t)
  BY <1>1, <1>6 DEF ProduceBlock
<1> QED
  BY ZenonT(20), <1>2, <1>3, <1>4, <1>5, <1>6, QuietSteps DEF Next

(* The guards of the last Retain accounted blocks are held and no others, and *)
(* fee_settled for those of them whose window has closed:                     *)
(* block_metadata_counted, fee_settled and block_guard_ring agree for ever,   *)
(* at any height.                                                             *)
THEOREM GuardsHold == Spec => []GuardsCoverHorizon
<1>1. GuardInv => GuardsCoverHorizon
  BY ZenonT(20) DEF GuardInv
<1> QED
  BY <1>1, GuardInit, GuardStep, InductiveHolds, PTL DEF Spec

-----------------------------------------------------------------------------
(* Committees.                                                                *)

(* A block has a committee snapshot exactly when it is accounted.             *)
CommitteeKept ==
  /\ committee \in [Blocks -> SUBSET Validators]
  /\ \A b \in Blocks : committee[b] # {} <=> b <= accounted

(* No block has a committee at the start.                                     *)
LEMMA CommitteeInit == CycleInit => CommitteeKept
<1>1. MaxHeight \in Nat
  BY ConstantFacts
<1>2. \A b \in Blocks : ~(b <= 0)
  BY <1>1 DEF Blocks
<1> QED
  BY <1>2 DEF CycleInit, RewardsInit, CommitteeKept

(* Accounting for the parent stores the snapshot of its committee, and no     *)
(* other step touches one.                                                    *)
LEMMA CommitteeStep ==
  ASSUME Inductive, CommitteeKept, [Next]_vars
  PROVE  CommitteeKept'
<1>1. CASE UNCHANGED <<accounted, committee>>
  BY <1>1 DEF CommitteeKept, Blocks
<1>2. CASE Quiet
  BY ZenonT(20), <1>1, <1>2 DEF Quiet, accounts
<1>3. CASE RunSettlePrevious \/ Deliver
  BY <1>1, <1>3 DEF RunSettlePrevious, Fire, TickDone, Deliver, accounts
<1>4. ASSUME NEW c \in Committees, NEW base \in SUBSET c, AccountParent(c, base)
      PROVE  CommitteeKept'
  <2> DEFINE b0 == height - 1
  <2>1. /\ MaxHeight \in Nat /\ height \in 1..MaxHeight /\ height >= 2
        /\ accounted = height - 2
        /\ committee' = [committee EXCEPT ![b0] = c] /\ accounted' = b0
    BY ZenonT(20), <1>4, ConstantFacts DEF Inductive, Typed, InStep, AccountParent
  <2>2. b0 \in Blocks /\ \A b \in Blocks : b <= accounted' <=> (b <= accounted \/ b = b0)
    BY <2>1 DEF Blocks
  <2> HIDE DEF b0
  <2>3. c \in SUBSET Validators /\ c # {}
    BY ZenonT(20), RewardsAssumption
  <2>4. committee' \in [Blocks -> SUBSET Validators]
    BY ZenonT(20), <2>1, <2>2, <2>3 DEF CommitteeKept
  <2>5. \A b \in Blocks : committee'[b] = IF b = b0 THEN c ELSE committee[b]
    BY <2>1, <2>2 DEF CommitteeKept
  <2>6. \A b \in Blocks : committee'[b] # {} <=> b <= accounted'
    BY ZenonT(20), <2>2, <2>3, <2>5 DEF CommitteeKept
  <2> QED
    BY ZenonT(20), <2>4, <2>6 DEF CommitteeKept, Blocks
<1>5. CASE \E credits \in [InWindow -> Batches] : LateFinalizeCredits(credits)
  BY ZenonT(20), <1>1, <1>5 DEF LateFinalizeCredits
<1>6. CASE \E fee \in Fees : \E t \in clock..MaxClock : ProduceBlock(fee, t)
  BY <1>1, <1>6 DEF ProduceBlock
<1> QED
  BY <1>2, <1>3, <1>4, <1>5, <1>6, QuietSteps DEF Next
=============================================================================
