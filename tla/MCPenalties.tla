---------------------------- MODULE MCPenalties ----------------------------
(***************************************************************************)
(* Small instances of the two components that punish validators, and of the    *)
(* price history: "slash" (SlashIndicator), "votes" (Oracle) and "prices"       *)
(* (OraclePrices with any publication of a small set in every block).  turn     *)
(* chooses one of them at the start; the variables of the others keep their     *)
(* initial values.                                                            *)
(***************************************************************************)
EXTENDS SlashIndicator, Oracle

CONSTANTS
  Parts,            \* the components of an instance
  v1, v2, v3, v4,
  coen, other,      \* a pair with checked sums, and one without
  MaxVoteHeight,    \* bound on the blocks of "votes"
  Jumps,            \* the time between two blocks of "prices"
  MaxBlocks         \* bound on the blocks of "prices"

VARIABLES turn, blocks

allVars == <<vars, slashVars, priceVars, oracleVars, turn, blocks>>

Four == {v1, v2, v3, v4}
OneEvidence == {[no |-> 1, offender |-> v4]}

TwoPairs == <<coen, other>>
Scales == (coen :> 1) @@ (other :> 2)
Weights == (coen :> 1) @@ (other :> 2)
Ranks == (v1 :> 1) @@ (v2 :> 2) @@ (v3 :> 3) @@ (v4 :> 4)
Decline == <<6, 4, 3>>

Quote(a, x, b, y) ==
  (coen :> [rate |-> a, volume |-> x]) @@ (other :> [rate |-> b, volume |-> y])

(* v4 agrees, says nothing, leaves a pair out, prices one at zero, is far off, or  *)
(* claims a volume that does not fit.                                             *)
VoteReports ==
  [v \in Four |->
     IF v # v4 THEN {Quote(2, 1, 3, 0)}
     ELSE {Quote(2, 1, 3, 0), <<>>, (other :> [rate |-> 3, volume |-> 1]),
           Quote(0, 1, 3, 1), Quote(9, 1, 1, 1), Quote(2, 30, 3, 30)}]

QuietReports == [v \in Four |-> IF v # v4 THEN {Quote(2, 1, 3, 0)} ELSE {}]

Entry(pair, a, x) == [pair |-> pair, rate |-> a, volume |-> x]

Publications ==
  {{}, {Entry(coen, 2, 0), Entry(other, 3, 1)}, {Entry(coen, 5, 4), Entry(other, 4, 9)},
   {Entry(coen, 3, 5)}}

PricesStep ==
  \/ /\ blocks < MaxBlocks
     /\ blocks' = blocks + 1
     /\ \E jump \in Jumps, published \in Publications :
          clock + jump <= MaxClock /\ BeginBlock(clock + jump, published)
  \/ (\E d \in GenesisDay..DayOf(MaxClock) : ResolveForming(d)) /\ UNCHANGED blocks

MCInit ==
  /\ turn \in Parts
  /\ blocks = 0
  /\ SlashInit
  /\ OracleInit

MCNext ==
  /\ UNCHANGED turn
  /\ \/ turn = "slash" /\ SlashNext /\ UNCHANGED <<priceVars, oracleVars, blocks>>
     \/ /\ turn = "votes" /\ (phase = "user" /\ ~windowDue => height < MaxVoteHeight)
        /\ OracleNext
        /\ UNCHANGED <<slashVars, blocks>>
     \/ turn = "prices" /\ PricesStep /\ UNCHANGED <<vars, slashVars, oracleVars>>

MCSpec == MCInit /\ [][MCNext]_allVars
=============================================================================
