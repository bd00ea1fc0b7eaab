---------------------------- MODULE WorldwideDays ----------------------------
(***************************************************************************)
(* The worldwide days of Metadosis (crates/core/metadosis: reducer.rs,       *)
(* lifecycle.rs, settlement.rs, commit.rs, terminal.rs) as operators on its   *)
(* storage.                                                                  *)
(*                                                                         *)
(* A worldwide day starts UtcOffset hours before its UTC date, is formed,     *)
(* waits, takes tributes, waits again, and is then ready to be processed:     *)
(* either locally at once, or by a job the validators compute off chain       *)
(* (OcompJobs).  The emission of the day is its limit; what nobody takes of    *)
(* it returns to the carry-over of the Promis limit contract.                *)
(*                                                                         *)
(* The storage is a record.                                                  *)
(*   day      worldwide_days with the formation receipt: status, type, limit, *)
(*            formed                                                         *)
(*   active, closed   active_wwd and closed_wwd                              *)
(*   tribute  the tribute partition of a day: sealed, and the nominal sum     *)
(*   carry    total_unallocated                                              *)
(*   fsm, ready, live, job, resp   the OCOMP state, see OcompJobs            *)
(*   issued, spent   history: all limits formed, and all amounts that left    *)
(*            for nods and auctions                                          *)
(*   fault    a handler has reported storage corruption                      *)
(***************************************************************************)
EXTENDS Integers, FiniteSetsExt, SequencesExt

CONSTANTS
  HoursPerDay,      \* an hour is the unit of time
  UtcOffset,        \* UTC_PLUS_14_OFFSET
  FormingPeriod, LookbackDelay, OfferingPeriod, WaitingPeriod,
  MaxRetained,      \* MAX_RETAINED_WWDS
  MaxRecordsKept    \* MAX_RECORDS_KEPT

ASSUME WorldwideDaysAssumption ==
  /\ HoursPerDay \in Nat \ {0}
  /\ UtcOffset \in 0..HoursPerDay
  /\ {FormingPeriod, LookbackDelay, OfferingPeriod, WaitingPeriod} \subseteq Nat
  /\ MaxRetained \in Nat \ {0}
  /\ MaxRecordsKept \in Nat \ {0}

(* MAX_PIPELINE_WWDS and MAX_ACTIVE_WWDS *)
PipelineHours == FormingPeriod + LookbackDelay + OfferingPeriod + WaitingPeriod
MaxPipeline == (PipelineHours + HoursPerDay - 1) \div HoursPerDay + 1
MaxActive == MaxPipeline + MaxRetained

(* SYMBOLIC_RATE in percent, RED_DAY_REDUCTION_COEF *)
SymbolicRate == 32
RedDayReduction == 8

Pipeline == {"forming", "lookback", "offering", "waiting"}
RetainedStatus == {"ready", "pending"}
TerminalStatus == {"completed", "failed"}

WorldwideDayOf(t) == (t + UtcOffset) \div HoursPerDay

Corrupt(s) == [s EXCEPT !.fault = TRUE]

In(s, statuses) == {d \in s.active : s.day[d].status \in statuses}

-----------------------------------------------------------------------------
(* The phases of a day.  Stage i lasts until End(d, i). *)

Stages == <<"forming", "lookback", "offering", "waiting", "ready">>

StageOf(status) == CHOOSE i \in DOMAIN Stages : Stages[i] = status

FormingStart(d) == d * HoursPerDay - UtcOffset

End(d, i) ==
  FormingStart(d) + FoldLeft(LAMBDA a, b : a + b, 0,
    SubSeq(<<FormingPeriod, LookbackDelay, OfferingPeriod, WaitingPeriod>>, 1, i))

(* The stage the time is in. *)
Reached(d, t) == 1 + Max({i \in 0..4 : i = 0 \/ End(d, i) <= t})

-----------------------------------------------------------------------------
(* commit_new_wwd_inner and create_worldwide_day_for_date *)

EmptyDay == [status |-> "forming", type |-> "unknown", limit |-> 0, formed |-> FALSE]

Create(s, d) ==
  IF d \in DOMAIN s.day
  THEN IF d \in s.active \cup ToSet(s.closed) THEN s ELSE Corrupt(s)
  ELSE IF Cardinality(s.active) >= MaxActive THEN Corrupt(s)
  ELSE [s EXCEPT !.day = d :> EmptyDay @@ @,
                 !.active = @ \cup {d},
                 !.tribute = d :> [sealed |-> TRUE, nominal |-> 0] @@ @]

(* apply_ocomp_day_limit, commit_day_limit_formation: the limit is the emission  *)
(* of the day itself, nothing is taken from the carry-over.                      *)
FormLimit(s, d, base) ==
  LET c == Create(s, d)
  IN  IF c.day[d].formed THEN c
      ELSE [c EXCEPT !.day[d].limit = base, !.day[d].formed = TRUE, !.issued = @ + base]

-----------------------------------------------------------------------------
(* The end of a day. *)

(* Mutant: the oldest record is evicted from the queue and never deleted. *)
RetireLeaving(s, d, status) ==
  LET q == Append(s.closed, d)
  IN  [s EXCEPT !.day[d].status = status,
                !.active = @ \ {d},
                !.closed = IF Len(q) > MaxRecordsKept + 1 THEN Tail(q) ELSE q]

(* commit_status and commit_retire_terminal_wwd *)
Retire(s, d, status) ==
  LET q     == Append(s.closed, d)
      full  == Len(q) > MaxRecordsKept
      moved == [s EXCEPT !.day[d].status = status,
                         !.active = @ \ {d},
                         !.closed = IF full THEN Tail(q) ELSE q]
  IN  IF full THEN [moved EXCEPT !.day = Restrict(@, DOMAIN @ \ {Head(q)})] ELSE moved

Credit(s, amount) == [s EXCEPT !.carry = @ + amount]

DropPartition(s, d) == [s EXCEPT !.tribute = Restrict(@, DOMAIN @ \ {d})]

(* forfeit_sealed_partition *)
Forfeit(s, d) ==
  IF d \in DOMAIN s.tribute /\ s.tribute[d].sealed THEN DropPartition(s, d) ELSE Corrupt(s)

(* apply_missed_offering: the offering was never opened. *)
MissOffering(s, d) ==
  IF /\ d \in DOMAIN s.tribute
     /\ s.tribute[d] = [sealed |-> TRUE, nominal |-> 0]
     /\ s.day[d].formed \/ s.day[d].limit = 0
  THEN Retire(DropPartition(Credit(s, s.day[d].limit), d), d, "failed")
  ELSE Corrupt(s)

(* apply_capacity_forfeiture and validate_capacity_victim; before is the storage *)
(* when the pass began.                                                          *)
ForfeitCapacity(s, before, d) ==
  IF /\ d \notin DOMAIN s.fsm
     /\ s.day[d].formed \/ s.day[d].limit = 0
     /\ \A r \in In(before, RetainedStatus) : r < d
  THEN Retire(Forfeit(Credit(s, s.day[d].limit), d), d, "failed")
  ELSE Corrupt(s)

-----------------------------------------------------------------------------
(* plan_wwd_advance and reduce_outer_wwd for AdvanceDue. *)

(* The edges up to a stage: the rate is resolved on leaving the first, tributes   *)
(* are taken in the third.                                                        *)
MoveTo(s, d, stage, green) ==
  [s EXCEPT !.day[d].status = Stages[stage],
            !.day[d].type = IF s.day[d].status = "forming" /\ stage > 1
                            THEN IF green THEN "green" ELSE "red" ELSE @,
            !.tribute[d].sealed = Stages[stage] # "offering"]

Missed(s, d, stage) == StageOf(s.day[d].status) <= 2 /\ stage >= 4

(* One record of advance_active_worldwide_days.  A pass admits one day, and fails *)
(* it if the retained population is full.  Time behind the stage is corruption.   *)
Advance(acc, before, d, t, greens) ==
  LET s     == acc.s
      from  == StageOf(s.day[d].status)
      stage == Reached(d, t)
      full  == Cardinality(In(before, RetainedStatus)) = MaxRetained
  IN  IF t < FormingStart(d) THEN [acc EXCEPT !.s = Corrupt(s)]
      ELSE IF s.day[d].status \in RetainedStatus
           THEN IF stage < 5 THEN [acc EXCEPT !.s = Corrupt(s)] ELSE acc
      ELSE IF stage < from THEN [acc EXCEPT !.s = Corrupt(s)]
      ELSE IF stage = from THEN acc
      ELSE IF Missed(s, d, stage) THEN [acc EXCEPT !.s = MissOffering(s, d)]
      ELSE IF stage < 5 \/ acc.admitted
           THEN [acc EXCEPT !.s = MoveTo(s, d, Min({stage, 4}), d \in greens)]
      ELSE IF full
           THEN [s |-> ForfeitCapacity(MoveTo(s, d, 4, d \in greens), before, d),
                 admitted |-> TRUE]
      ELSE [s |-> MoveTo(s, d, 5, d \in greens), admitted |-> TRUE]

(* build_active_order: by scheduled time and day, which is by day. *)
InOrder(days) == SetToSortSeq(days, LAMBDA a, b : a < b)

AdvanceAll(s, t, greens) ==
  FoldLeft(LAMBDA acc, d : Advance(acc, s, d, t, greens),
           [s |-> s, admitted |-> FALSE], InOrder(s.active)).s

(* The days whose rate the next pass resolves. *)
Resolving(s, t) ==
  {d \in In(s, {"forming"}) : Reached(d, t) > 1}

-----------------------------------------------------------------------------
(* settlement.rs *)

(* calculate_metadosis: gratis_allocation *)
Allocation(type, nominal, limit) ==
  LET demand == (nominal * SymbolicRate) \div 100
      part   == IF type = "red" THEN RedDayReduction ELSE 1
  IN  Min({demand \div part, limit \div part})

(* calculate_metadosis: auction_base *)
AuctionBase(type, nominal, limit) ==
  Min({nominal, limit}) - Allocation(type, nominal, limit)

Spend(s, amount) == [s EXCEPT !.spent = @ + amount]

(* process_ocomp_ready_candidate: the local outcomes, or the start of a job.      *)
(* Enqueue is enqueue_ocomp_ready.  The auction of a green day may refuse its     *)
(* supply, which is then carried over.                                            *)
Process(s, d, height, refused) ==
  LET r    == s.day[d]
      n    == s.tribute[d].nominal
      base == AuctionBase(r.type, n, r.limit)
      sold == IF r.type = "green" /\ ~refused THEN base ELSE 0
  IN  IF r.limit = 0 THEN Retire(s, d, "failed")
      ELSE IF r.type = "unknown" THEN Credit(Retire(s, d, "failed"), r.limit)
      ELSE IF n = 0 THEN Credit(DropPartition(Retire(s, d, "completed"), d), r.limit)
      ELSE IF Allocation(r.type, n, r.limit) = 0
           THEN Retire(Credit(Spend(s, sold), r.limit - sold), d, "completed")
      ELSE [s EXCEPT !.fsm = d :> [phase |-> "ready", height |-> height] @@ @,
                     !.ready = @ \cup {<<height, d>>}]

(* start_metadosis: the day of the time, the pass over the active days, and the   *)
(* first ready day that has no job yet.                                           *)
StartMetadosis(s, t, height, greens, refused) ==
  LET p        == AdvanceAll(Create(s, WorldwideDayOf(t)), t, greens)
      waiting  == In(p, {"ready"}) \ DOMAIN p.fsm
  IN  IF waiting = {} THEN p ELSE Process(p, Min(waiting), height, refused)

(* Offers of tributes, as far as Metadosis reads them: the sum of a day, while    *)
(* the day is not sealed.                                                         *)
Offers(s, d) == d \in DOMAIN s.tribute /\ ~s.tribute[d].sealed

Offer(s, d, amount) == [s EXCEPT !.tribute[d].nominal = @ + amount]

=============================================================================
