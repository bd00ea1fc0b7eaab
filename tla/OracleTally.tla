---------------------------- MODULE OracleTally ----------------------------
(***************************************************************************)
(* The arithmetic of one oracle round (crates/system/oracle/src/tally.rs).  *)
(*                                                                         *)
(* A ballot is the set of the votes on one pair, each of another voter with    *)
(* a rate and a volume.  A rate of zero takes part in nothing but the record  *)
(* that its sender voted.  The pair with most observations is tallied as it   *)
(* stands; every other one as a cross rate against it, converted back with    *)
(* the median of the reference.                                              *)
(***************************************************************************)
EXTENDS Integers, FiniteSetsExt, Functions, Folds

CONSTANTS
  Pairs,        \* the pair registry, a sequence
  Scale,        \* reciprocal_scale of a pair
  Unit,         \* SCALE_1E18
  Word,         \* U256::MAX
  RewardBand,   \* config_reward_band
  Rank          \* the place of a validator in the registry

ASSUME TallyAssumption ==
  /\ \A i, j \in DOMAIN Pairs : Pairs[i] = Pairs[j] => i = j
  /\ Scale \in [Range(Pairs) -> Nat \ {0}]
  /\ Unit \in Nat \ {0}
  /\ Word \in Nat \ {0}
  /\ RewardBand \in Nat
  /\ IsInjective(Rank)

PairSet == Range(Pairs)

(* vote_has_price *)
Priced(ballot) == {o \in ballot : o.rate > 0}

(* observation_count *)
Observations(ballot) == Cardinality(Priced(ballot))

VotersOf(ballot) == {o.voter : o \in ballot}

(* pair_quorum *)
PairQuorum(n) == n - n \div 3

-----------------------------------------------------------------------------
(* Median, deviation and winners. *)

(* The k-th rate of the sorted ballot, counting from one. *)
Kth(ballot, k) ==
  CHOOSE r \in {o.rate : o \in Priced(ballot)} :
    /\ Cardinality({o \in Priced(ballot) : o.rate < r}) < k
    /\ Cardinality({o \in Priced(ballot) : o.rate <= r}) >= k

(* median *)
Median(ballot) ==
  LET n     == Observations(ballot)
      upper == Kth(ballot, n \div 2 + 1)
      lower == Kth(ballot, n \div 2)
  IN  IF n = 0 THEN 0
      ELSE IF n % 2 = 1 THEN upper ELSE lower + (upper - lower) \div 2

(* isqrt_u1024: Newton's iteration from above *)
Isqrt(n) ==
  LET Descend[x \in Nat] ==
        LET y == (x + n \div x) \div 2 IN IF y < x THEN Descend[y] ELSE x
  IN  IF n <= 1 THEN n ELSE Descend[n]

(* standard_deviation around the median *)
StandardDeviation(ballot) ==
  LET m == Median(ballot)
  IN  Isqrt(MapThenSumSet(LAMBDA o : (o.rate - m) * (o.rate - m), Priced(ballot))
              \div Observations(ballot))

(* evaluate_pair fails the round: half the reward band does not fit in a word.  *)
SpreadOverflows(ballot) == (Median(ballot) * RewardBand) \div (2 * Unit) > Word

(* evaluate_pair: the voters no further from the median than the spread, which  *)
(* is the deviation or, if larger, half the reward band.                        *)
Winners(ballot) ==
  LET m      == Median(ballot)
      spread == Max({StandardDeviation(ballot), (m * RewardBand) \div (2 * Unit)})
  IN  VotersOf({o \in Priced(ballot) : m - spread <= o.rate /\ o.rate <= m + spread})

-----------------------------------------------------------------------------
(* Volumes that cannot be represented together with the rate. *)

VolumeSum(ballot) == MapThenSumSet(LAMBDA o : o.volume, Priced(ballot))

(* Mutant: the smallest volume goes first. *)
RejectedSmallest(ballot) ==
  CHOOSE o \in Priced(ballot) :
    \A x \in Priced(ballot) \ {o} :
      \/ x.volume > o.volume
      \/ x.volume = o.volume /\ Rank[x.voter] < Rank[o.voter]

(* remove_one_volume_over_capacity: the largest volume goes first, of two equal *)
(* ones the one later in the registry.                                          *)
Rejected(ballot) ==
  CHOOSE o \in Priced(ballot) :
    \A x \in Priced(ballot) \ {o} :
      \/ x.volume < o.volume
      \/ x.volume = o.volume /\ Rank[x.voter] < Rank[o.voter]

(* remove_one_unrepresentable_volume would remove one. *)
Unrepresentable(ballot, rate) == rate > 0 /\ VolumeSum(ballot) > Word \div rate

(* stabilize_direct_volume, up to a ballot that fails the round *)
RECURSIVE Stabilized(_)
Stabilized(ballot) ==
  IF ~SpreadOverflows(ballot) /\ Unrepresentable(ballot, Median(ballot))
  THEN Stabilized(ballot \ {Rejected(ballot)}) ELSE ballot

-----------------------------------------------------------------------------
(* Cross rates. *)

(* The quotient of to_cross_rate and of from_cross_rate; 0 stands for one that  *)
(* does not fit.                                                                *)
CrossRate(reference, rate, ref, pair) ==
  LET q == (reference * Scale[pair] * Unit) \div (Scale[ref] * rate)
  IN  IF q > Word THEN 0 ELSE q

(* to_cross_rate: only voters with a price on both pairs are left. *)
ToCrossRate(ballot, reference, ref, pair) ==
  {o \in {[voter |-> o[1].voter, volume |-> o[1].volume,
           rate |-> CrossRate(o[2].rate, o[1].rate, ref, pair)] :
             o \in {x \in Priced(ballot) \X Priced(reference) : x[1].voter = x[2].voter}} :
     o.rate > 0}

(* The outcome of one pair: the new rate, 0 for none, the volume that goes with *)
(* it, the validators that are credited for the pair, and whether it fails the   *)
(* round.                                                                        *)
Outcome(pair, rate, ballot, credited) ==
  [pair |-> pair, rate |-> rate, volume |-> IF rate = 0 THEN 0 ELSE VolumeSum(ballot),
   credited |-> credited, fails |-> FALSE]

Failure(pair) == [Outcome(pair, 0, {}, {}) EXCEPT !.fails = TRUE]

Unpublished(pair, ballot) == Outcome(pair, 0, ballot, VotersOf(Priced(ballot)))

(* The loop for a pair that is not the reference.  Fewer observations than the  *)
(* quorum are credited, and publish nothing.                                    *)
RECURSIVE CrossTally(_, _, _, _, _)
CrossTally(ballot, reference, ref, pair, quorum) ==
  LET cross == ToCrossRate(ballot, reference, ref, pair)
      rate  == CrossRate(Median(reference), Median(cross), ref, pair)
  IN  IF Observations(ballot) < quorum THEN Unpublished(pair, ballot)
      ELSE IF SpreadOverflows(cross) THEN Failure(pair)
      ELSE IF Median(cross) = 0 \/ rate = 0 THEN Outcome(pair, 0, ballot, {})
      ELSE IF Unrepresentable(ballot, rate)
           THEN CrossTally(ballot \ {Rejected(ballot)}, reference, ref, pair, quorum)
      ELSE Outcome(pair, rate, ballot, Winners(cross))

-----------------------------------------------------------------------------
(* run_tally_inner for the given ballots, one for every target.  A pair below   *)
(* its quorum credits every representable observation; without any pair fit to  *)
(* be the reference, so does every pair.                                        *)
TallyOutcomes(ballots, quorum) ==
  LET targets == DOMAIN ballots
      direct  == [p \in targets |-> Stabilized(ballots[p])]
      raw     == {p \in targets : Observations(ballots[p]) >= quorum}
      fit     == {p \in raw : Observations(direct[p]) >= quorum}
      Place(p) == CHOOSE i \in DOMAIN Pairs : Pairs[i] = p
      ref     == CHOOSE p \in fit :
                   \A q \in fit \ {p} :
                     \/ Observations(direct[q]) < Observations(direct[p])
                     \/ /\ Observations(direct[q]) = Observations(direct[p])
                        /\ Place(p) < Place(q)
  IN  {IF SpreadOverflows(direct[p]) THEN Failure(p)
       ELSE IF p \notin raw \/ fit = {} THEN Unpublished(p, direct[p])
       ELSE IF p = ref
            THEN Outcome(p, Median(direct[p]), direct[p], Winners(direct[p]))
       ELSE CrossTally(ballots[p], direct[ref], ref, p, quorum) : p \in targets}

=============================================================================
