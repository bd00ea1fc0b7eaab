----------------------------- MODULE StakeClaims -----------------------------
(***************************************************************************)
(* What the staking contract promises its users, without the queue and the   *)
(* linked lists it keeps: every owner has a bonded amount and a list of       *)
(* claims, newest first, each an amount and the time from which it is paid.  *)
(* Module Staking is shown to implement this specification.                   *)
(***************************************************************************)
EXTENDS Naturals, SequencesExt

CONSTANTS
  Owners,
  UnbondingPeriod,     \* from a withdrawal to its payment
  SlashedDelay,        \* from a slash, or the eviction of a slashed owner
  SlashPercents

VARIABLES now, bonded, claims, purse

claimVars == <<now, bonded, claims, purse>>

Claim(a, t) == [amount |-> a, time |-> t]

Later(s, t) == IF s < t THEN t ELSE s

Remaining(a, percent) == a - (a * percent) \div 100

Mature(c) == now >= c.time

Immature(c) == ~Mature(c)

Payable(v) ==
  FoldLeft(LAMBDA sum, c : sum + (IF Mature(c) THEN c.amount ELSE 0), 0, claims[v])

ClaimsInit ==
  /\ now = 1
  /\ bonded \in [Owners -> Nat]
  /\ claims = [v \in Owners |-> <<>>]
  /\ purse \in [Owners -> Nat]

(* A deposit moves coins of the owner into its bond. *)
Bond(v, a) ==
  /\ a <= purse[v]
  /\ purse' = [purse EXCEPT ![v] = @ - a]
  /\ bonded' = [bonded EXCEPT ![v] = @ + a]
  /\ UNCHANGED <<now, claims>>

(* A withdrawal turns a part of the bond into a claim. *)
Unbond(v, a) ==
  /\ a <= bonded[v]
  /\ bonded' = [bonded EXCEPT ![v] = @ - a]
  /\ claims' = [claims EXCEPT ![v] = <<Claim(a, now + UnbondingPeriod)>> \o @]
  /\ UNCHANGED <<now, purse>>

(* A payment settles exactly the mature claims of the owner who asks. *)
Collect(v) ==
  /\ purse' = [purse EXCEPT ![v] = @ + Payable(v)]
  /\ claims' = [claims EXCEPT ![v] = SelectSeq(@, Immature)]
  /\ UNCHANGED <<now, bonded>>

(* A slash takes its share of the bond and of every claim that still has an   *)
(* amount, and holds those back.                                             *)
Slash(v, percent) ==
  /\ bonded' = [bonded EXCEPT ![v] = Remaining(@, percent)]
  /\ claims' = [claims EXCEPT ![v] =
                  [k \in DOMAIN @ |->
                     IF @[k].amount = 0 THEN @[k]
                     ELSE Claim(Remaining(@[k].amount, percent),
                                Later(@[k].time, now + SlashedDelay))]]
  /\ UNCHANGED <<now, purse>>

(* A penalty on the bond alone. *)
Fine(v) ==
  /\ \E b \in 0..bonded[v] : bonded' = [bonded EXCEPT ![v] = b]
  /\ UNCHANGED <<now, claims, purse>>

(* A new block evicts some owners: their whole bond becomes a claim. *)
Evict(out) ==
  /\ now' = now + 1
  /\ bonded' = [v \in Owners |-> IF v \in out THEN 0 ELSE bonded[v]]
  /\ \E slashed \in SUBSET out :
       claims' = [v \in Owners |->
                    IF v \in out
                    THEN <<Claim(bonded[v],
                                 now + 1 + (IF v \in slashed THEN SlashedDelay
                                                             ELSE UnbondingPeriod))>>
                         \o claims[v]
                    ELSE claims[v]]
  /\ UNCHANGED purse

ClaimsNext ==
  \/ \E v \in Owners :
       \/ \E a \in 1..purse[v] : Bond(v, a)
       \/ \E a \in 1..bonded[v] : Unbond(v, a)
       \/ Collect(v)
       \/ \E percent \in SlashPercents : Slash(v, percent)
       \/ Fine(v)
  \/ \E out \in SUBSET Owners : Evict(out)

ClaimsSpec == ClaimsInit /\ [][ClaimsNext]_claimVars
=============================================================================
