---------------------------- MODULE OraclePrices ----------------------------
(***************************************************************************)
(* The price history of the oracle (state.rs, runtime.rs, scurve.rs and the   *)
(* daily part of lifecycle.rs): the snapshots with their retention, the        *)
(* running sums per UTC day and per edge of a worldwide day, the averages      *)
(* that are stored once a day is over, and the S-curve of its peaks.           *)
(*                                                                         *)
(* A block starts with BeginBlock, a hook that must not fail, for whatever      *)
(* rates the round has published; ResolveForming is the call with which        *)
(* Metadosis asks for the average of a worldwide day.  Every registered pair is  *)
(* a vote target: only tests switch one off.  Time counts in ticks; a worldwide  *)
(* day begins SuffixStart ticks into a UTC day and ends PrefixEnd ticks into the *)
(* second UTC day after it.                                                     *)
(***************************************************************************)
EXTENDS OracleTally, SequencesExt

CONSTANTS
  Iso,           \* the pairs with checked sums (is_coen_iso_market)
  ZeroWeight,    \* zero_volume_weight of a pair
  DayTicks,      \* a UTC day
  SuffixStart,   \* WWD_SUFFIX_START_SECONDS
  PrefixEnd,     \* WWD_PREFIX_END_SECONDS
  Retention,     \* MAX_SNAPSHOT_RETENTION_SECONDS
  MaxBackfill,   \* MAX_UTC_DAY_VWAP_BACKFILL_DAYS
  Coefficients,  \* the S-curve over one period, as a sequence
  CurveUnit,     \* the scale of the coefficients
  MaxClock       \* bound on time

ASSUME PricesAssumption ==
  /\ Iso \subseteq PairSet
  /\ ZeroWeight \in [PairSet -> Nat \ {0}]
  /\ DayTicks \in Nat \ {0}
  /\ SuffixStart \in 0..(DayTicks - 1) /\ PrefixEnd \in 1..DayTicks
  /\ Retention \in Nat /\ MaxBackfill \in Nat \ {0} /\ MaxClock \in Nat
  /\ Coefficients # <<>> /\ CurveUnit \in Nat \ {0}

VARIABLES
  clock,        \* the timestamp of the block
  snaps,        \* every snapshot ever written, each [at, entries]
  oldest,       \* snapshot_oldest_idx
  sums,         \* the daily, suffix and prefix sums of pv and volume
  watermark,    \* utc_day_vwap_last_finalized
  dayVwap,      \* utc_day_vwap_value
  wwdVwap,      \* worldwide_day_vwap_value, of the days that were resolved
  curve,        \* the S-curve chain of a pair, day = 0 for none
  curveDay,     \* scurve_last_processed_day
  fault         \* what could not be executed

priceVars == <<clock, snaps, oldest, sums, watermark, dayVwap, wwdVwap,
               curve, curveDay, fault>>

DayOf(t) == t \div DayTicks
TickOf(t) == t % DayTicks
Days == 0..DayOf(MaxClock)

Kinds == {"daily", "suffix", "prefix"}
Empty == [pv |-> 0, volume |-> 0]

(* Days are numbered so that the one before genesis is the first. *)
GenesisDay == 2

PricesTypeOK ==
  /\ clock \in Nat /\ oldest \in 0..Len(snaps)
  /\ sums \in [PairSet \X Kinds \X Days -> [pv : 0..Word, volume : 0..Word]]
  /\ watermark \in Days \cup {0} /\ curveDay \in Days \cup {0}
  /\ DOMAIN wwdVwap \subseteq Days
  /\ fault \in {"none", "hook", "cycle"}

PricesInit ==
  /\ clock = GenesisDay * DayTicks
  /\ snaps = <<>>
  /\ oldest = 0
  /\ sums = [b \in PairSet \X Kinds \X Days |-> Empty]
  /\ watermark = 0
  /\ dayVwap = [b \in PairSet \X Days |-> 0]
  /\ wwdVwap = <<>>
  /\ curve = [p \in PairSet |-> [day |-> 0, price |-> 0]]
  /\ curveDay = 0
  /\ fault = "none"

-----------------------------------------------------------------------------
(* Snapshots and sums. *)

(* The sums an observation at time t goes into. *)
KindsAt(t) ==
  {"daily"} \cup (IF TickOf(t) >= SuffixStart THEN {"suffix"} ELSE {})
            \cup (IF TickOf(t) < PrefixEnd THEN {"prefix"} ELSE {})

SumsAt(pair, t) == {<<pair, k, DayOf(t)>> : k \in KindsAt(t)}

(* An entry is a pair with a rate and a volume. *)
Weight(e) == IF e.volume = 0 THEN ZeroWeight[e.pair] ELSE e.volume

ValueOf(e) == e.rate * Weight(e)

(* snapshot_volume_capacity *)
Capacity(t, pair, rate) ==
  Min({Word \div rate}
      \cup {(Word - sums[b].pv) \div rate : b \in SumsAt(pair, t)}
      \cup {Word - sums[b].volume : b \in SumsAt(pair, t)})

(* Mutant: an observation without volume is always taken. *)
CanAcceptUnweighted(t, e) == e.volume <= Capacity(t, e.pair, e.rate)

(* snapshot_can_accept *)
CanAccept(t, e) == Weight(e) <= Capacity(t, e.pair, e.rate)

(* add_vwap_aggregate: checked for the pairs of Iso,   *)
(* saturating for the others.                                                   *)
Added(s, pv, volume) ==
  [pv |-> Min({Word, s.pv + pv}), volume |-> Min({Word, s.volume + volume})]

Overflows(pair, s, pv, volume) ==
  pair \in Iso /\ (s.pv + pv > Word \/ s.volume + volume > Word)

(* evict_old_snapshots *)
Evicted(list, from, t) ==
  LET cutoff == t - Retention
  IN  Min({i \in from..Len(list) : i = Len(list) \/ list[i + 1].at >= cutoff})

(* write_snapshot_inner *)
WriteFails(t, entries) ==
  \E e \in entries :
    \/ e.pair \in Iso /\ ValueOf(e) > Word
    \/ \E b \in SumsAt(e.pair, t) : Overflows(e.pair, sums[b], ValueOf(e), Weight(e))

WrittenSums(t, entries) ==
  [b \in DOMAIN sums |->
     LET of == {e \in entries : b \in SumsAt(e.pair, t)}
     IN  IF of = {} THEN sums[b]
         ELSE LET e == CHOOSE e \in of : TRUE
              IN  Added(sums[b], Min({Word, ValueOf(e)}), Weight(e))]

-----------------------------------------------------------------------------
(* Averages over the history. *)

Failed == [error |-> TRUE, value |-> 0]
Value(x) == [error |-> FALSE, value |-> x]

(* VwapAccumulator.finish, 0 for no data.  What is added is never negative, so    *)
(* that a step saturates or fails exactly if the total does.                      *)
AverageOf(pair, pv, volume) ==
  IF pair \in Iso /\ (pv > Word \/ volume > Word) THEN Failed
  ELSE Value(IF volume = 0 THEN 0 ELSE Min({Word, pv}) \div Min({Word, volume}))

(* The entries of a pair in a set of snapshots, each with the time of its own. *)
EntriesOf(pair, S) ==
  UNION {{[at |-> s.at, pair |-> pair, rate |-> e.rate, volume |-> e.volume] :
            e \in {x \in s.entries : x.pair = pair}} : s \in S}

(* binary_search_snapshot_idx: the snapshots in a range of time *)
Between(from, to) ==
  {snaps[i] : i \in {j \in (oldest + 1)..Len(snaps) : from <= snaps[j].at /\ snaps[j].at < to}}

(* add_raw_snapshots: an error when the range begins before what is kept *)
RawFails(from, to) ==
  /\ from < to /\ oldest > 0
  /\ oldest >= Len(snaps) \/ from < snaps[oldest + 1].at

(* try_calculate_vwap: whole days from the sums (add_daily_aggregates), the edges *)
(* from the snapshots.                                                            *)
CalculateVwap(pair, from, to) ==
  LET first == IF TickOf(from) = 0 THEN from ELSE from + DayTicks - TickOf(from)
      last  == to - TickOf(to)
      days  == IF first < last THEN DayOf(first)..(DayOf(last) - 1) ELSE {}
      raw   == IF first < last
               THEN EntriesOf(pair, Between(from, first) \cup Between(last, to))
               ELSE EntriesOf(pair, Between(from, to))
      fails == IF first < last THEN RawFails(from, first) \/ RawFails(last, to)
               ELSE RawFails(from, to)
  IN  IF fails THEN Failed
      ELSE AverageOf(pair,
             MapThenSumSet(ValueOf, raw)
               + MapThenSumSet(LAMBDA d : sums[<<pair, "daily", d>>].pv, days),
             MapThenSumSet(Weight, raw)
               + MapThenSumSet(LAMBDA d : sums[<<pair, "daily", d>>].volume, days))

SumOf(S) ==
  [pv |-> MapThenSumSet(LAMBDA b : sums[b].pv, S),
   volume |-> MapThenSumSet(LAMBDA b : sums[b].volume, S)]

(* try_worldwide_day_vwap *)
WorldwideDayVwap(pair, d) ==
  LET total == SumOf({<<pair, "suffix", d>>, <<pair, "daily", d + 1>>, <<pair, "prefix", d + 2>>})
  IN  AverageOf(pair, total.pv, total.volume)

(* try_calculate_twap over the rates since a time: each lasts until the next,    *)
(* the last one until now.  The sum is checked, for all pairs; 0 for no data.    *)
CalculateTwap(pair, from) ==
  LET of == EntriesOf(pair, Between(from, clock + 1))
      Until(o) == Min({clock} \cup {x.at : x \in {y \in of : y.at > o.at}})
      total == MapThenSumSet(LAMBDA o : o.rate * (Until(o) - o.at), of)
      start == Min({o.at : o \in of})
  IN  IF of = {} THEN Value(0)
      ELSE IF Cardinality(of) = 1 THEN Value((CHOOSE o \in of : TRUE).rate)
      ELSE IF total > Word THEN Failed ELSE Value(total \div (clock - start))

-----------------------------------------------------------------------------
(* The S-curve, kept for the pairs of COEN with a reference currency. *)

(* mul_scale_1e6 with a coefficient *)
Scaled(price, c) == (price * c) \div CurveUnit

(* compute_scurve_value *)
CurveValue(peak, days) ==
  LET period == Len(Coefficients)
      Anchor[i \in 0..(days \div period)] ==
        IF i = 0 THEN peak ELSE Scaled(Anchor[i - 1], Coefficients[period])
  IN  Scaled(Anchor[days \div period], Coefficients[(days % period) + 1])

(* get_daily_close on a list of snapshots: the last rate of a day, 0 for none *)
DailyClose(list, from, pair, d) ==
  LET of == EntriesOf(pair, {list[i] : i \in {j \in (from + 1)..Len(list) : DayOf(list[j].at) = d}})
  IN  IF of = {} THEN 0 ELSE (CHOOSE o \in of : \A x \in of : x.at <= o.at).rate

(* process_daily_scurve and store_scurve_entry on day d: the day before          *)
(* yesterday was a peak, and one above the chain at that day.                    *)
Peaked(list, from, pair, d) ==
  LET peak == DailyClose(list, from, pair, d - 2)
  IN  /\ DailyClose(list, from, pair, d - 1) # 0
      /\ DailyClose(list, from, pair, d - 3) # 0
      /\ peak > DailyClose(list, from, pair, d - 1)
      /\ peak > DailyClose(list, from, pair, d - 3)
      /\ \/ curve[pair].day = 0
         \/ /\ d - 2 >= curve[pair].day
            /\ peak > CurveValue(curve[pair].price, d - 2 - curve[pair].day)

-----------------------------------------------------------------------------
(* The hook at the start of a block. *)

(* Mutant: of a gap only the last day is finalized. *)
ClosedDaysLast(t) == IF watermark < DayOf(t) - 1 THEN {DayOf(t) - 1} ELSE {}

(* The days that are finalized at time t: none before genesis but the last, and  *)
(* at most MaxBackfill of the most recent.                                       *)
ClosedDays(t) ==
  LET closed == DayOf(t) - 1
      above  == IF watermark = 0 THEN closed - 1 ELSE watermark
  IN  {d \in (above + 1)..closed : d > closed - MaxBackfill}

(* finalize_utc_day_vwap: a day has only its own sum, so that nothing fails. *)
FinalizedVwap(pair, d, written) ==
  AverageOf(pair, written[<<pair, "daily", d>>].pv, written[<<pair, "daily", d>>].volume).value

(* run_begin_block at time t, after a round that published the given rates. *)
BeginBlock(t, published) ==
  \E entries \in {{e \in published : CanAccept(t, e)}} :
  LET writes  == entries # {}
      list    == IF writes THEN Append(snaps, [at |-> t, entries |-> entries]) ELSE snaps
      from    == IF writes THEN Evicted(list, oldest, t) ELSE oldest
      written == IF writes THEN WrittenSums(t, entries) ELSE sums
      today   == DayOf(t)
  IN  /\ fault = "none"
      /\ IF WriteFails(t, entries)
         THEN fault' = "hook" /\ UNCHANGED <<clock, snaps, oldest, sums, watermark,
                                             dayVwap, wwdVwap, curve, curveDay>>
         ELSE /\ clock' = t
              /\ snaps' = list
              /\ oldest' = from
              /\ sums' = written
              /\ curve' = [p \in PairSet |->
                             IF today > curveDay /\ p \in Iso
                                /\ Peaked(list, from, p, today)
                             THEN [day |-> today - 2,
                                   price |-> DailyClose(list, from, p, today - 2)]
                             ELSE curve[p]]
              /\ curveDay' = Max({today, curveDay})
              /\ dayVwap' = [b \in DOMAIN dayVwap |->
                               IF b[2] \in ClosedDays(t)
                               THEN FinalizedVwap(b[1], b[2], written) ELSE dayVwap[b]]
              /\ watermark' = Max({today - 1, watermark})
              /\ UNCHANGED <<wwdVwap, fault>>

(* store_worldwide_day_vwap_snapshot: Metadosis calls it once the worldwide day  *)
(* is over.  Its error is one of the cycle.                                      *)
FormingEnd(d) == (d + 2) * DayTicks + PrefixEnd

ResolveForming(d) ==
  /\ fault = "none"
  /\ d \notin DOMAIN wwdVwap /\ clock >= FormingEnd(d)
  /\ IF \E p \in PairSet : WorldwideDayVwap(p, d).error
     THEN fault' = "cycle" /\ UNCHANGED wwdVwap
     ELSE /\ wwdVwap' = wwdVwap @@ (d :> [p \in PairSet |-> WorldwideDayVwap(p, d).value])
          /\ UNCHANGED fault
  /\ UNCHANGED <<clock, snaps, oldest, sums, watermark, dayVwap, curve, curveDay>>

-----------------------------------------------------------------------------
(* Properties *)

(* What an average should be: over every observation ever made in the range. *)
Observed(pair, from, to) ==
  EntriesOf(pair, {s \in Range(snaps) : from <= s.at /\ s.at < to})

TotalValue(S) == MapThenSumSet(ValueOf, S)

(* A value is the average of S, unless it is one of a sum that is not checked and   *)
(* does not fit.                                                                  *)
IsAverage(pair, value, S) ==
  LET total == TotalValue(S)
  IN  pair \in Iso \/ total <= Word =>
        value = IF S = {} THEN 0 ELSE total \div MapThenSumSet(Weight, S)

(* The rates of S over time: the sum, tick by tick from the first one to now, of  *)
(* the rate in force.                                                             *)
InForce(S, t) == (CHOOSE o \in S : o.at <= t /\ \A x \in S : x.at <= t => x.at <= o.at).rate
TimeSum(S) == MapThenSumSet(LAMBDA t : InForce(S, t), Min({o.at : o \in S})..(clock - 1))

(* Every average the oracle answers with or has stored is the average of all      *)
(* observations of its range, whatever of the range has been evicted, comes from   *)
(* daily sums or from the two edges of a worldwide day; a sum that does not fit     *)
(* is an error for the pairs that are checked.  No closed day is left out but those *)
(* that MAX_UTC_DAY_VWAP_BACKFILL_DAYS cuts off.  Eviction never reaches into the    *)
(* longest lookback that genesis accepts, so the average over time is exact too     *)
(* (it depends on the first observation in its range and on those that follow),     *)
(* and what the S-curve is anchored to was a peak of the closes of its day and of   *)
(* the two beside it.                                                              *)
AveragesExact ==
  snaps # <<>> => \A p \in PairSet :
    LET Exact(value, from, to) == IsAverage(p, value, Observed(p, from, to))
    IN  /\ \A from \in (GenesisDay * DayTicks)..clock :
             LET answer == CalculateVwap(p, from, clock + 1)
                 S == Observed(p, from, clock + 1)
             IN  IF answer.error THEN oldest = 0 => p \in Iso /\ TotalValue(S) > Word
                 ELSE IsAverage(p, answer.value, S)
        /\ \A d \in Days :
             dayVwap[<<p, d>>] # 0 \/ d \in (watermark - MaxBackfill + 1)..watermark =>
               Exact(dayVwap[<<p, d>>], d * DayTicks, (d + 1) * DayTicks)
        /\ \A d \in DOMAIN wwdVwap :
             Exact(wwdVwap[d][p], d * DayTicks + SuffixStart, FormingEnd(d))
        /\ \A o \in Observed(p, clock - Retention, clock + 1) :
             LET S == Observed(p, o.at, clock + 1)
                 answer == CalculateTwap(p, o.at)
             IN  IF answer.error THEN TimeSum(S) > Word
                 ELSE answer.value = IF o.at = clock THEN o.rate
                                     ELSE TimeSum(S) \div (clock - o.at)
        /\ curve[p].day # 0 =>
             LET Close(d) == DailyClose(snaps, 0, p, d)
             IN  /\ curve[p].price = Close(curve[p].day)
                 /\ \A d \in {curve[p].day - 1, curve[p].day + 1} :
                      0 < Close(d) /\ Close(d) < curve[p].price

(* What snapshot_can_accept admits can be written: no published rate and volume    *)
(* makes the hook fail that every block has to execute.                            *)
HookCannotFail == fault # "hook"

=============================================================================
