------------------------------ MODULE OcompJobs ------------------------------
(***************************************************************************)
(* The off-chain jobs of Metadosis (crates/core/metadosis/src/ocomp) as      *)
(* operators on the storage of WorldwideDays.                                *)
(*                                                                         *)
(*   fsm    ocomp_fsm_states: a day that is ready, with its next check        *)
(*          height, or pending, with its deadline                            *)
(*   ready  the READY index, keys <<next_check_height, day>>                 *)
(*   live   the live scheduler, in the order of days: <<deadline, day>>      *)
(*   job    the job of a day: status, intent height, the heights between      *)
(*          which votes count (0 before finality), votes, and the frozen      *)
(*          budget; and, as history, what the other jobs have drawn from the  *)
(*          carry-over since its request                                     *)
(*   resp   the response deadline index, keys <<deadline, day>>: the job id,   *)
(*          a hash, orders keys with one deadline                            *)
(*                                                                         *)
(* There is one attempt per day, so the day stands for its intent and job.    *)
(* The record of a job is dropped when its last index entry goes: nothing     *)
(* reads it afterwards.                                                      *)
(***************************************************************************)
EXTENDS WorldwideDays

CONSTANTS
  AwaitingBlocks,    \* OCOMP_AWAITING_FINALITY_DEADLINE_BLOCKS
  FinalityDepth,     \* RESULT_VOTE_MIN_FINALITY_DEPTH
  BackoffBlocks,     \* ready_backoff_blocks of the profile
  JobRank,           \* the order of the job ids, by day
  ResultMembers,     \* the members of the pinned snapshot
  QuorumSize         \* result_quorum_threshold

ASSUME OcompAssumption ==
  /\ AwaitingBlocks \in Nat \ {0}
  /\ FinalityDepth \in Nat
  /\ BackoffBlocks \in Nat \ {0}
  /\ IsInjective(JobRank)
  /\ IsFiniteSet(ResultMembers)
  /\ QuorumSize \in 1..Cardinality(ResultMembers)

(* The first key of the READY index. *)
First(index) ==
  CHOOSE k \in index : \A x \in index : k[1] < x[1] \/ (k[1] = x[1] /\ k[2] <= x[2])

(* The first key of the response deadline index. *)
FirstResponse(index) ==
  CHOOSE k \in index : \A x \in index :
    k[1] < x[1] \/ (k[1] = x[1] /\ JobRank[k[2]] <= JobRank[x[2]])

Awaiting(s) == {d \in DOMAIN s.job : s.job[d].status = "awaiting"}

LiveDays(s) == {k[2] : k \in s.live}

DropJob(s, d) == [s EXCEPT !.job = Restrict(@, DOMAIN @ \ {d})]

(* clear_ready_ocomp_for_failed_day, and the end of the FSM of a pending day. *)
ClearFsm(s, d) == [s EXCEPT !.fsm = Restrict(@, DOMAIN @ \ {d}),
                            !.ready = {k \in @ : k[2] # d},
                            !.live = {k \in @ : k[2] # d}]

-----------------------------------------------------------------------------
(* request.rs: at the end of a block the first key of the READY index, if due. *)

RequestDue(s, height) == s.ready # {} /\ First(s.ready)[1] <= height

(* The deferral of a day that is not eligible. *)
Defer(s, d, height) ==
  LET next == height + BackoffBlocks
  IN  [s EXCEPT !.fsm[d].height = next,
                !.ready = (@ \ {First(s.ready)}) \cup {<<next, d>>}]

(* Mutant: the auction base is taken out of the emission of the day as well. *)
BudgetReserving(s, d) ==
  LET r     == s.day[d]
      n     == s.tribute[d].nominal
      lysis == Allocation(r.type, n, r.limit)
      free  == s.carry + r.limit - lysis
  IN  [lysis   |-> lysis,
       credit  |-> IF r.type = "green" THEN r.limit - lysis - Min({n - lysis, free}) ELSE 0,
       auction |-> IF r.type = "green" THEN Min({n - lysis, free}) ELSE 0]

(* RequestBudgetSplit::derive *)
Budget(s, d) ==
  LET r     == s.day[d]
      n     == s.tribute[d].nominal
      lysis == Allocation(r.type, n, r.limit)
      free  == s.carry + r.limit - lysis
  IN  [lysis   |-> lysis,
       credit  |-> r.limit - lysis,
       auction |-> IF r.type = "green" THEN Min({n - lysis, free}) ELSE 0]

(* build_and_commit_request and commit_ocomp_request: what lysis leaves of the     *)
(* limit is credited at once, the auction base is only frozen.                    *)
Request(s, d, height) ==
  LET b        == Budget(s, d)
      deadline == height + AwaitingBlocks
      credited == Credit(s, b.credit)
  IN  IF s.day[d].status # "ready" \/ ~s.tribute[d].sealed THEN Corrupt(s)
      ELSE [credited EXCEPT
             !.day[d].status = "pending",
             !.fsm[d] = [phase |-> "pending", height |-> deadline],
             !.ready = @ \ {First(s.ready)},
             !.live = @ \cup {<<deadline, d>>},
             !.job = d :> [status |-> "awaiting", height |-> height, open |-> 0,
                           deadline |-> 0, votes |-> {}, lysis |-> b.lysis,
                           auction |-> b.auction, overtaken |-> 0] @@ @]

(* fail_worldwide_day: a request that fails for a business reason is rolled back,  *)
(* and the day ends with its whole limit returned.                                *)
FailDay(s, d) ==
  Retire(Forfeit(Credit(ClearFsm(s, d), s.day[d].limit), d), d, "failed")

-----------------------------------------------------------------------------
(* record_certified_parent_finality and record_ocomp_finality, in the block after  *)
(* the request, if its parent came with a finalization.                           *)
RecordFinality(s, height, window) ==
  LET matched == {d \in Awaiting(s) : s.job[d].height = height - 1}
      d       == CHOOSE x \in matched : TRUE
      open    == height + FinalityDepth
  IN  IF matched = {} THEN s
      ELSE IF Cardinality(matched) > 1 THEN Corrupt(s)
      ELSE [s EXCEPT !.job[d].open = open, !.job[d].deadline = open + window]

(* fail_expired_ocomp_day after expire_ocomp_job *)
Expire(s, d, height) ==
  IF s.day[d].status = "pending" /\ s.fsm[d].height <= height
  THEN Retire(Forfeit(Credit(DropJob(ClearFsm(s, d), d), s.job[d].lysis), d), d, "failed")
  ELSE Corrupt(s)

(* open_due_ocomp_voting: the FSM and the scheduler take over the deadline of the   *)
(* votes.                                                                          *)
OpenVoting(s, height) ==
  LET due == {d \in Awaiting(s) : s.job[d].open # 0 /\ s.job[d].open <= height}
      d   == CHOOSE x \in due : TRUE
      key == <<s.job[d].deadline, d>>
  IN  IF due = {} THEN s
      ELSE IF Cardinality(due) > 1 \/ height >= s.job[d].deadline THEN Corrupt(s)
      ELSE [s EXCEPT !.job[d].status = "voting",
                     !.fsm[d].height = key[1],
                     !.live = {k \in @ : k[2] # d} \cup {key},
                     !.resp = @ \cup {key}]

(* Mutant: a window is closed in the block after its deadline. *)
CloseExpiring(s, height) ==
  LET key  == FirstResponse(s.resp)
      d    == key[2]
      rest == [s EXCEPT !.resp = @ \ {key}]
  IN  IF s.resp = {} \/ height <= key[1] THEN s
      ELSE IF s.job[d].status = "voting" THEN Expire(rest, d, height)
      ELSE DropJob(rest, d)

(* close_due_ocomp_response_window and its use: one window per block.  The members   *)
(* that have not voted are handed to Staking, which counts a miss for each: these   *)
(* are OcompMiss of ValidatorSet and SlashOcompMiss of Staking; a revert of theirs,  *)
(* which would be reported as corruption here, is left out.                        *)
CloseWindow(s, height) ==
  LET key  == FirstResponse(s.resp)
      d    == key[2]
      rest == [s EXCEPT !.resp = @ \ {key}]
  IN  IF s.resp = {} \/ height < key[1] THEN s
      ELSE IF s.job[d].status = "voting" THEN Expire(rest, d, height)
      ELSE DropJob(rest, d)

(* The exact expiry of a job whose request was never finalized. *)
ExpireAwaiting(s, height) ==
  LET due == {d \in Awaiting(s) : s.job[d].open = 0 /\ s.fsm[d].height <= height}
      d   == CHOOSE x \in due : TRUE
  IN  IF due = {} THEN s
      ELSE IF Cardinality(due) > 1 \/ s.fsm[d].height < height THEN Corrupt(s)
      ELSE Expire(s, d, height)

(* missed_lifecycle_boundary: the jobs whose boundary no block has run.  The first  *)
(* in the live scheduler, that is the one of the least day, is expired.            *)
MissedBoundary(s, height) ==
  {d \in Awaiting(s) : IF s.job[d].open = 0 THEN height > s.fsm[d].height
                       ELSE height >= s.job[d].deadline}

(* run_lifecycle_begin_with_scope *)
LifecycleBegin(s, height) ==
  IF MissedBoundary(s, height) # {}
  THEN Expire(s, Min(MissedBoundary(s, height)), height)
  ELSE ExpireAwaiting(CloseWindow(OpenVoting(s, height), height), height)

-----------------------------------------------------------------------------
(* record_ocomp_result_vote *)

Voted(j) == {v.member : v \in j.votes}

Votes(j, result) == Cardinality({v \in j.votes : v.result = result})

(* A vote that is taken: the first of a member, inside the window. *)
Accepts(s, d, m, height) ==
  /\ \E k \in s.resp : k[2] = d
  /\ s.job[d].open <= height
  /\ height < s.job[d].deadline
  /\ m \notin Voted(s.job[d])

(* The vote is the one that completes a quorum for its result. *)
FormsQuorum(j, result) ==
  j.status = "voting" /\ Votes(j, result) + 1 >= QuorumSize

(* A result is known by what it leaves unused of the budget of the job. *)
Unused(j, result) == Min({result, j.lysis})

(* apply_auction_brief takes the frozen amount or reports corruption. *)
DrawCovered(s, j, result) == j.auction <= s.carry + Unused(j, result)

(* apply_quorum_result and commit_ocomp_completed: the rest of the budget has gone  *)
(* to nods, the unused part returns, the auction is briefed, the tributes retire.   *)
Activate(s, d, result) ==
  LET j == s.job[d]
      c == Credit(s, Unused(j, result) - j.auction)
      o == [c EXCEPT !.job = [x \in DOMAIN @ |->
              IF x \in LiveDays(s) \ {d} THEN [@[x] EXCEPT !.overtaken = @ + j.auction] ELSE @[x]]]
  IN  Retire(Spend(ClearFsm(DropPartition(o, d), d), j.lysis - Unused(j, result) + j.auction),
             d, "completed")

RecordVote(s, d, m, result) ==
  LET j == s.job[d]
      a == IF FormsQuorum(j, result) THEN Activate(s, d, result) ELSE s
  IN  [a EXCEPT !.job[d].votes = @ \cup {[member |-> m, result |-> result]},
                !.job[d].status = IF FormsQuorum(j, result) THEN "completed" ELSE @]

=============================================================================
