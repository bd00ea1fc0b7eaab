------------------------------- MODULE Oracle -------------------------------
(***************************************************************************)
(* The oracle as the block executor and the validators drive it               *)
(* (crates/system/oracle): votes, the round that tallies them at the start of  *)
(* every VotePeriod-th block, the counters it keeps of every validator, and    *)
(* the slash window that judges them.  It composes the lifecycle of the        *)
(* validators (ValidatorSet), the arithmetic of a round (OracleTally) and the  *)
(* price history that a round feeds (OraclePrices).                            *)
(*                                                                         *)
(* The slash window is the last system transaction of a block: it runs after   *)
(* the boundary and before the user transactions, in one checkpoint, and the   *)
(* block goes on if it fails.  A validator votes for itself; delegation of the  *)
(* vote to a feeder is left out.                                              *)
(***************************************************************************)
EXTENDS ValidatorSet, OraclePrices

CONSTANTS
  Feeders,        \* the validators that come and go in an instance
  Reports,        \* the votes a validator may submit
  VotePeriod,     \* config_vote_period
  SlashWindow,    \* config_slash_window
  MinValid,       \* config_min_valid_per_window
  WindowPercent,  \* config_slash_fraction, in percent
  Protected,      \* protected_validator
  MaxWindowValidators  \* MAX_ORACLE_SLASH_WINDOW_VALIDATORS

ASSUME OracleAssumption ==
  /\ Feeders \subseteq Validators /\ Protected \subseteq Validators
  /\ DOMAIN Reports = Validators /\ DOMAIN Rank = Validators
  /\ \A v \in Validators : \A r \in Reports[v] : DOMAIN r \subseteq PairSet
  /\ VotePeriod \in Nat \ {0} /\ SlashWindow \in Nat \ {0}
  /\ MinValid \in 0..Unit /\ WindowPercent \in 0..100
  /\ MaxWindowValidators \in Nat

VARIABLES
  votes,      \* the votes of the period, by voter (voter_list and its columns)
  rates,      \* exchange_rate with its block, at = 0 for none
  counters,   \* penalty_success_count, _abstain_count and _miss_count
  windowDue   \* OracleSlashWindow is still to run in this block

oracleVars == <<votes, rates, counters, windowDue>>

allOracleVars == <<vars, priceVars, oracleVars>>

NoCounts == [success |-> 0, abstain |-> 0, miss |-> 0]

OracleTypeOK ==
  /\ TypeOK /\ PricesTypeOK
  /\ DOMAIN votes \subseteq Validators
  /\ \A v \in DOMAIN votes : votes[v] \in Reports[v]
  /\ rates \in [PairSet -> [rate : 0..Word, at : 0..MaxHeight]]
  /\ counters \in [Validators -> [success : Nat, abstain : Nat, miss : Nat]]
  /\ windowDue \in BOOLEAN

OracleInit ==
  /\ Init
  /\ PricesInit
  /\ votes = <<>>
  /\ rates = [p \in PairSet |-> [rate |-> 0, at |-> 0]]
  /\ counters = [v \in Validators |-> NoCounts]
  /\ windowDue = FALSE

-----------------------------------------------------------------------------
(* submitVote of an active validator, once in a period *)
SubmitVote(v, report) ==
  /\ phase = "user" /\ ~windowDue
  /\ val[v].lc = "Active"
  /\ v \notin DOMAIN votes
  /\ votes' = votes @@ (v :> report)
  /\ UNCHANGED <<vars, priceVars, rates, counters, windowDue>>

-----------------------------------------------------------------------------
(* run_tally.  Membership is that of the moment of the tally. *)

Electors(records) == {v \in Validators : records[v].lc = "Active"}

BallotOf(pair, electors) ==
  {[voter |-> v, rate |-> votes[v][pair].rate, volume |-> votes[v][pair].volume] :
     v \in {v \in electors \cap DOMAIN votes : pair \in DOMAIN votes[v]}}

RoundOutcomes(electors) ==
  TallyOutcomes([p \in PairSet |-> BallotOf(p, electors)], PairQuorum(Cardinality(electors)))

(* What the round publishes: the pairs with a rate, each with its volume. *)
Published(outcomes) ==
  {[pair |-> o.pair, rate |-> o.rate, volume |-> o.volume] : o \in {x \in outcomes : x.rate > 0}}

(* A validator succeeds if it is credited for every target; otherwise it has     *)
(* abstained, if it named no pair, or missed.                                    *)
Judged(v, outcomes) ==
  LET c == counters[v]
  IN  IF \A o \in outcomes : v \in o.credited
      THEN [c EXCEPT !.success = @ + 1]
      ELSE IF v \notin DOMAIN votes \/ votes[v] = <<>>
           THEN [c EXCEPT !.abstain = @ + 1]
           ELSE [c EXCEPT !.miss = @ + 1]

(* The part of run_begin_block that ends a period.  A round that fails is rolled *)
(* back and fails the block, so that there is no such block.  config_enabled is   *)
(* set with the initialization and never cleared.                                *)
Tally(t, electors) ==
  \E outcomes \in {RoundOutcomes(electors)} :
  \E published \in {IF electors = {} THEN {} ELSE Published(outcomes)} :
    /\ \A o \in outcomes : electors # {} => ~o.fails
    /\ votes' = <<>>
    /\ rates' = [p \in PairSet |->
                   IF \E e \in published : e.pair = p
                   THEN [rate |-> (CHOOSE e \in published : e.pair = p).rate, at |-> height']
                   ELSE rates[p]]
    /\ counters' = [v \in Validators |->
                      IF v \in electors THEN Judged(v, outcomes) ELSE counters[v]]
    /\ BeginBlock(t, published)

(* The start of a block, one tick after the last: process_unbonding, then the    *)
(* hook of the oracle.                                                           *)
StartOracleBlock(drained) ==
  /\ NewBlock(drained)
  /\ ~windowDue
  /\ IF height' % VotePeriod = 0 THEN Tally(clock + 1, Electors(val'))
     ELSE BeginBlock(clock + 1, {}) /\ UNCHANGED <<votes, rates, counters>>
  /\ windowDue' = (height' % SlashWindow = 0)

-----------------------------------------------------------------------------
(* slash_and_reset_counters *)

Total(c) == c.success + c.abstain + c.miss

Underperforms(v) ==
  /\ val[v].lc # "Absent" /\ v \notin Protected
  /\ Total(counters[v]) > 0
  /\ (counters[v].success * Unit) \div Total(counters[v]) < MinValid

(* jail_validator, and slash_stake if the fraction is not zero, are accepted. *)
CanBeForcedOut(r) == CanBePunished(r) /\ (WindowPercent > 0 => HasStakeRecord(r))

ForcedOut(r) ==
  LET jailed == Punished(r, height)
  IN  IF WindowPercent = 0 THEN jailed
      ELSE StakeSlashed(jailed, r.bonded - (r.bonded * WindowPercent) \div 100, height)

(* The whole window fails if there are too many validators for it, or with the   *)
(* first one that cannot be forced out.                                          *)
OracleSlashWindow ==
  LET guilty == {v \in Validators : Underperforms(v)}
  IN  /\ phase = "user" /\ windowDue
      /\ windowDue' = FALSE
      /\ IF /\ Cardinality({v \in Validators : val[v].lc # "Absent"}) <= MaxWindowValidators
            /\ \A v \in guilty : CanBeForcedOut(val[v])
         THEN /\ val' = [v \in Validators |-> IF v \in guilty THEN ForcedOut(val[v]) ELSE val[v]]
              /\ pending' = (pending \/ \E v \in guilty : val[v].lc = "Active")
              /\ counters' = [v \in Validators |->
                                IF val[v].lc = "Absent" THEN counters[v] ELSE NoCounts]
         ELSE UNCHANGED <<val, pending, counters>>
      /\ UNCHANGED <<height, phase, admitted, deadline, committee, frozen, lastActivation,
                     priceVars, votes, rates>>

-----------------------------------------------------------------------------
(* The lifecycle of the validators, as in ValidatorSet. *)
ValidatorStep ==
  /\ ~windowDue \/ phase # "user"
  /\ \/ \E v \in Feeders :
          \/ RegisterValidator(v)
          \/ ConfirmReady(v)
          \/ Deactivate(v)
          \/ Unjail(v)
          \/ CompleteUnbonding(v)
          \/ \E b \in Stakes : IncreaseStake(v, b) \/ Unstake(v, b)
     \/ \E expired \in SUBSET Feeders : CycleTick(expired)
     \/ \E gone \in SUBSET Validators : BoundaryOutcome(gone)
     \/ NoBoundary
     \/ AtBound
  /\ UNCHANGED <<priceVars, oracleVars>>

OracleNext ==
  \/ \E v \in Validators : \E report \in Reports[v] : SubmitVote(v, report)
  \/ \E drained \in SUBSET Feeders : StartOracleBlock(drained)
  \/ OracleSlashWindow
  \/ ValidatorStep

OracleSpec == OracleInit /\ [][OracleNext]_allOracleVars

-----------------------------------------------------------------------------
(* Properties *)

(* The validators that have voted the same as v. *)
Allies(v, electors) == {w \in electors \cap DOMAIN votes : votes[w] = votes[v]}

(* A report with a price for every pair, each expressible in terms of every other, *)
(* and volumes that fit beside n votes of the same size.                           *)
Sound(report, n) ==
  \A p, q \in PairSet :
    /\ p \in DOMAIN report /\ q \in DOMAIN report
    /\ report[p].rate > 0
    /\ LET cross == CrossRate(report[q].rate, report[p].rate, q, p)
       IN  /\ cross > 0
           /\ CrossRate(report[q].rate, cross, q, p) # 0
           /\ n * report[p].volume * CrossRate(report[q].rate, cross, q, p) <= Word

(* More than two thirds of the active validators that agree on a sound report are  *)
(* each credited with a success, and the pair the round takes as its reference is   *)
(* published at their rate, whatever the others report, however large a volume      *)
(* they claim, and whoever left the committee after it had voted (run_tally).       *)
AgreeingMajoritySucceeds ==
  [][ \A v \in DOMAIN votes :
        LET electors == Electors(val')
            allies   == Allies(v, electors)
        IN  (/\ height' > height /\ height' % VotePeriod = 0
             /\ 3 * Cardinality(allies) > 2 * Cardinality(electors)
             /\ Sound(votes[v], Cardinality(electors)))
            => /\ \A w \in allies : counters'[w].success = counters[w].success + 1
               /\ \E p \in PairSet : rates'[p] = [rate |-> votes[v][p].rate, at |-> height']
    ]_allOracleVars

(* What the comment on slash_and_reset_counters and the tests of the window say:   *)
(* at the end of a window every underperformer is forced out and every counter     *)
(* starts again from zero.                                                        *)
WindowResetsCounters ==
  [][ windowDue /\ ~windowDue' =>
        \A v \in Validators : val[v].lc # "Absent" => counters'[v] = NoCounts
    ]_allOracleVars

=============================================================================
