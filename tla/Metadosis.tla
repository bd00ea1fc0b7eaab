------------------------------ MODULE Metadosis ------------------------------
(***************************************************************************)
(* Metadosis block by block (crates/core/metadosis/src/commands.rs and its    *)
(* callers in the block executor and the protocol cycle).                    *)
(*                                                                         *)
(* The begin zone of a block records the finality of the parent, runs the     *)
(* OCOMP lifecycle and, once an hour, the pass of the protocol cycle, which    *)
(* settles the day before and starts Metadosis.  Offers and result votes are   *)
(* user transactions.  The end zone makes at most one request.               *)
(***************************************************************************)
EXTENDS OcompJobs

CONSTANTS
  Jumps,         \* bound: the hours a block may come after its parent
  Windows,       \* result_deadline_blocks of the profiles in force
  Emission,      \* the emission of a day for Metadosis
  Recycled,      \* what the late settlement of a block recycles
  Tributes,      \* the tributes offered on a day, if any are
  Greens,        \* the sets of days that may turn out green
  Results,       \* the results validators may compute
  LastBlock,     \* bound: blocks
  LastHour       \* bound: time stands still from then on

ASSUME MetadosisAssumption ==
  /\ Jumps \subseteq Nat
  /\ Windows \subseteq Nat \ {0}
  /\ Results \subseteq Nat
  /\ \A g \in Greens : g \subseteq Nat
  /\ LastBlock \in Nat
  /\ LastHour \in Nat
  /\ WorldwideDayOf(0) = 0

VARIABLES
  m,        \* the storage
  block,    \* the height of the block being executed
  hour,     \* its time
  slot,     \* last_executed_at of the protocol cycle
  utcDay,   \* active_utc_day
  zone      \* where execution stands in the block

metadosisVars == <<m, block, hour, slot, utcDay, zone>>

WwdNumbers == 0..(LastHour + UtcOffset) \div HoursPerDay

NoStorage ==
  [day |-> <<>>, active |-> {}, closed |-> <<>>, tribute |-> <<>>, carry |-> 0,
   fsm |-> <<>>, ready |-> {}, live |-> {}, job |-> <<>>, resp |-> {},
   issued |-> 0, spent |-> 0, fault |-> FALSE]

(* init_genesis_day in the first block *)
MetadosisInit ==
  /\ m = Create(NoStorage, 0)
  /\ block = 1
  /\ hour = 0
  /\ slot = 0
  /\ utcDay = 0
  /\ zone = "body"

-----------------------------------------------------------------------------
(* The pass of the protocol cycle: the completed day receives its limit if it is  *)
(* the one before, and none if days were missed.                                  *)

UtcDayOf(t) == t \div HoursPerDay

CyclePass(s, t, h, greens, refused) ==
  LET settled == IF UtcDayOf(t) = utcDay + 1 THEN FormLimit(s, utcDay, Emission[utcDay]) ELSE s
  IN  StartMetadosis(settled, t, h, greens, refused)

(* apply_late_settlement_headroom: the residue of a settled window is emission too. *)
Recycle(s, amount) == [Credit(s, amount) EXCEPT !.issued = @ + amount]

(* The parent may or may not come with a finalization.  The pass of a new hour     *)
(* waits if it would settle a day whose last votes are not in (ProtocolCycle).     *)
BeginBlock(t) ==
  /\ zone = "begin"
  /\ block < LastBlock
  /\ block' = block + 1
  /\ hour' = t
  /\ zone' = "body"
  /\ \E f \in {m} \cup {RecordFinality(m, block + 1, w) : w \in Windows} :
     \E s \in {LifecycleBegin(Recycle(f, Recycled[block + 1]), block + 1)} :
       \/ /\ t > slot
          /\ m' \in {CyclePass(s, t, block + 1, greens, refused) :
                       greens \in {g \cap Resolving(s, t) : g \in Greens}, refused \in BOOLEAN}
          /\ slot' = t
          /\ utcDay' = UtcDayOf(t)
       \/ /\ t > slot => UtcDayOf(t) = utcDay + 1
          /\ m' = s
          /\ UNCHANGED <<slot, utcDay>>

OfferTributes(d) ==
  /\ zone = "body"
  /\ Offers(m, d)
  /\ m.tribute[d].nominal < Tributes[d]
  /\ m' = Offer(m, d, Tributes[d])
  /\ UNCHANGED <<block, hour, slot, utcDay, zone>>

(* A vote that completes a quorum and finds the carry-over short of the frozen      *)
(* auction base reports corruption, which is fatal: a block with that vote is        *)
(* invalid, and the behaviour ends in it.  The chain goes on without the vote, in    *)
(* the behaviours that do not take this step.                                       *)
SubmitResultVote(d, member, result) ==
  /\ zone = "body"
  /\ Accepts(m, d, member, block)
  /\ IF FormsQuorum(m.job[d], result) /\ ~DrawCovered(m, m.job[d], result)
     THEN m' = Corrupt(m) /\ zone' = "invalid"
     ELSE m' = RecordVote(m, d, member, result) /\ UNCHANGED zone
  /\ UNCHANGED <<block, hour, slot, utcDay>>

(* run_ocomp_terminal_request *)
EndBlock(outcome) ==
  /\ zone = "body"
  /\ zone' = "begin"
  /\ m' = IF ~RequestDue(m, block) THEN m
          ELSE LET d == First(m.ready)[2]
               IN  CASE outcome = "request" -> Request(m, d, block)
                     [] outcome = "defer"   -> Defer(m, d, block)
                     [] outcome = "fail"    -> FailDay(m, d)
  /\ UNCHANGED <<block, hour, slot, utcDay>>

(* The instance ends with its blocks or with an invalid one, so that a deadlock is   *)
(* a block that cannot be executed.                                                *)
MetadosisBound ==
  /\ zone = "invalid" \/ (zone = "begin" /\ block = LastBlock)
  /\ UNCHANGED metadosisVars

MetadosisNext ==
  \/ \E t \in {Min({hour + jump, LastHour}) : jump \in Jumps} : BeginBlock(t)
  \/ \E d \in DOMAIN m.tribute : OfferTributes(d)
  \/ \E d \in DOMAIN m.job : \E member \in ResultMembers : \E result \in Results :
       SubmitResultVote(d, member, result)
  \/ \E outcome \in {"request", "defer", "fail"} : EndBlock(outcome)
  \/ MetadosisBound

MetadosisSpec == MetadosisInit /\ [][MetadosisNext]_metadosisVars

-----------------------------------------------------------------------------
(* Properties *)

(* load_index_membership, load_records *)
IndexesValid(s) ==
  /\ IsInjective(s.closed)
  /\ s.active \cap ToSet(s.closed) = {}
  /\ Cardinality(s.active) <= MaxActive
  /\ Len(s.closed) <= MaxRecordsKept
  /\ DOMAIN s.day = s.active \cup ToSet(s.closed)
  /\ \A d \in DOMAIN s.day : (s.day[d].status \in TerminalStatus) = (d \in ToSet(s.closed))
  /\ Cardinality(In(s, RetainedStatus)) <= MaxRetained

(* validate_record_ocomp_presence and validate_persisted_equivalences *)
FsmValid(s) ==
  /\ DOMAIN s.fsm \subseteq s.active
  /\ In(s, {"pending"}) \subseteq DOMAIN s.fsm
  /\ \A d \in DOMAIN s.fsm :
       /\ s.day[d].status = s.fsm[d].phase
       /\ (<<s.fsm[d].height, d>> \in s.ready) = (s.fsm[d].phase = "ready")
       /\ s.fsm[d].phase = "pending" =>
            /\ d \in DOMAIN s.job
            /\ s.job[d].status \in {"awaiting", "voting"}
            /\ s.fsm[d].height = IF s.job[d].status = "voting" THEN s.job[d].deadline
                                 ELSE s.job[d].height + AwaitingBlocks

(* validate_ocomp_index_equivalence: the READY index, the live scheduler and the     *)
(* response deadlines name exactly what the records say.                           *)
JobsValid(s) ==
  /\ \A k \in s.ready : k[2] \in DOMAIN s.fsm /\ s.fsm[k[2]] = [phase |-> "ready", height |-> k[1]]
  /\ s.live = {<<s.fsm[d].height, d>> : d \in {x \in DOMAIN s.fsm : s.fsm[x].phase = "pending"}}
  /\ s.resp = {<<s.job[d].deadline, d>> :
                 d \in {x \in DOMAIN s.job : s.job[x].status \in {"voting", "completed"}}}

(* No sequence of blocks, offers and votes brings Metadosis into a state that its   *)
(* own validation refuses, and only one handler ever reports corruption: a vote      *)
(* whose job cannot draw its auction base any more.  Every index names exactly the    *)
(* days and jobs it should, through missed hours, coalesced passes, requests that     *)
(* are never finalized and windows that close on one height.  Each of those errors    *)
(* would make the block invalid (aggregate.rs, expiry.rs, ocomp_budget.rs).          *)
AggregateValid ==
  /\ m.fault => zone = "invalid"
  /\ IndexesValid(m)
  /\ FsmValid(m)
  /\ JobsValid(m)

(* Every unit of emission a day was given is in the carry-over, in the limit of a   *)
(* day not yet requested, in the budget of a live job, or has gone to nods or an    *)
(* auction, whichever of the many ends its day met, and the carry-over is not       *)
(* overdrawn.  A live job can miss no more of its frozen auction base than jobs      *)
(* activated since its request have drawn: one that is not overtaken is never short, *)
(* and so never makes a block invalid (settlement.rs, terminal.rs, ocomp_budget.rs).  *)
EmissionAccounted ==
  /\ m.carry >= 0
  /\ \A d \in LiveDays(m) : m.job[d].auction <= m.carry + m.job[d].overtaken
  /\ m.issued = m.carry + m.spent
       + MapThenSumSet(LAMBDA d : m.day[d].limit, m.active \ In(m, {"pending"}))
       + MapThenSumSet(LAMBDA d : m.job[d].lysis, LiveDays(m))

(* No day waits for validators that never answer.  A job without finality ends      *)
(* after AwaitingBlocks.  One window is closed per block, and requests are one per  *)
(* block too: so a window closes at its deadline, or as many blocks later as the     *)
(* profiles in force differ in length, but no later (run_lifecycle_begin_exact).     *)
(* A job is completed exactly when a quorum has voted for one result in time.        *)
JobsEndInTime ==
  zone = "body" =>
    \A d \in DOMAIN m.job :
      /\ m.job[d].status = "awaiting" => block < m.job[d].height + AwaitingBlocks
      /\ m.job[d].status # "awaiting" =>
           block < m.job[d].deadline + Max(Windows) - Min(Windows)
      /\ (m.job[d].status = "completed")
           = \E r \in Results : Votes(m.job[d], r) >= QuorumSize

=============================================================================
