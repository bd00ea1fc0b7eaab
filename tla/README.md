# A TLA+ model of the rudis protocol core

Rudis is a proof-of-stake chain: a BFT consensus engine with threshold keys,
reth as the execution layer, and native contracts ("precompiles") that hold the
protocol state. A block starts with hooks and a fixed list of *system
transactions* (the begin zone), which account the finalized parent, credit late
votes, run the daily cycle, deliver rewards and activate a new committee; user
transactions follow, and an end zone closes the block.

This directory models the parts in which many actors write the same state in an
order nobody chose: the contracts behind those hooks and system transactions, and
the reshare of the threshold key with its messages, files and restarts.

## The parts of the system

| part | source | here |
|---|---|---|
| validator lifecycle | `crates/system/validatorset` | `Lifecycle`, `ValidatorSet` |
| stake ledger and unbonding queue | `crates/system/staking` | `Staking`, `StakeClaims` |
| liveness penalties and evidence | `crates/system/slashindicator` | `SlashIndicator` |
| fee escrow, late votes, participation | `crates/system/rewards`, `accounting` | `Rewards` |
| daily settlement, gem batches | `crates/system/cycle`, `rewards/src/api.rs` | `ProtocolCycle` |
| oracle votes, tally, slash window | `crates/system/oracle` | `OracleTally`, `Oracle` |
| oracle price history | `crates/system/oracle` | `OraclePrices` |
| votes, bonds and their targets | `crates/system/vote`, `update`, `l2registry`, `core/stablecoinfactory` | `Vote`, `VoteTargets`, `ProtocolUpdates` |
| computation bundles | `crates/system/ocompregistry` | `OcompRegistry` |
| governance texts | `crates/core/governance` | `Governance` |
| worldwide days and off-chain jobs | `crates/core/metadosis` | `WorldwideDays`, `OcompJobs`, `Metadosis` |
| reshare ceremony | `crates/blockchain/consensus/src/dkg_*` | `DkgCeremony` |
| threshold key files | `crates/blockchain/engine/src/stack.rs` | `DkgStorage` |
| change of committee | `engine/src/stack.rs`, `consensus` | `DkgHandoff`, and the freeze of `ValidatorSet` |
| block executor | `crates/blockchain/evm` | the phases of every module |
| products and their ledgers, enclaves, node, RPC, tools, vendored code | the rest | not modelled |

`PROJECT.json` lists every part with the reason for what is left out.

How they interact. Staking owns the amounts and calls ValidatorSet, which owns
the lifecycle and keeps a mirror of the bonded amount. SlashIndicator, the oracle
and the OCOMP lifecycle punish through both. Rewards decides who voted for a
block when its window closes, K blocks later, and hands the absentees to
ValidatorSet and SlashIndicator. The cycle closes a UTC day once its votes are
complete and hands the rest of the emission to Metadosis, whose worldwide days
ask the oracle for prices and the validators for off-chain results. Votes change
the protocol version, and with it the enclave policy and the computation bundle.
The engine reads the target of the next committee from the state at the freeze
height, runs the ceremony among the nodes, keeps its result in files, and hands
it back, certified, in a boundary block.

## The modules

**Validators.** `Lifecycle` is a module of pure operators: one per transition of
`state_machine/mod.rs` and per `match` of the `record_*` and `punish_*` methods
of `runtime.rs`. A record keeps the variant, the bonded mirror, the two stored
heights and the slash count; `IsCanonical` is what the storage adapter accepts, the
zero bond of an inactive record included.
`ValidatorSet` puts the records into blocks. `phase` orders a block as the
executor does: `"begin"` (accounting, late credits, OCOMP lifecycle), the cycle
tick, `"boundary"`, `"user"`. Each user call, penalty, the tick, the boundary and
the start of a block is one action; `FreezeAtEndOfBlock` is the read of the
engine. Bonded amounts are left open (any new value in the direction of the
call), because Staking decides them. `Felony` is `jail_validator` and
`slash_stake` together, since their callers run them in one checkpoint.

**Stake.** `Staking` adds the ledger: stakes, total, native balance, and the queue
as a sequence in which position `i` is the stored `idx + 1` of the code. Every
action conjoins the `ValidatorSet` action of the same call. Claims walk and relink
the list of their owner entry by entry, as the loop in `claim_unbonded` does. One
block is one unit of time. `StakeClaims` is the abstract specification of the
ledger: per owner a bond and a list of claims, newest first, with an amount and a
time, without queue, links and trimming. `Staking!ImplementsClaims` is the
refinement, with the entries of an owner as the image of its claims.

**Penalties.** `SlashIndicator` refines the `"begin"` phase of `ValidatorSet` into
the stages in which counters are reset, missed proposers of the parent and
absentees of the block K heights back are slashed. `signers` holds the committee
of each block whose window is open: the committee that is judged may be K blocks
old. `Oracle` composes `ValidatorSet` with votes, the round of every
`VotePeriod`-th block and the slash window, the last system transaction of a
block; it fails as a whole and the block goes on. `OracleTally` is the arithmetic
of a round as operators (medians with one vote per validator, deviation, cross rates,
reward band, volumes that do not fit). `OraclePrices` is the history: snapshots with
retention, sums per UTC day and per edge of a worldwide day, averages over volume and
over time, the S-curve chain.

**Fees and days.** `Rewards` models parent accounting, late credits and the close
of a window. A finalized block has one hash, so its number stands for it; the
enumerable voter lists of the code are the supports of the maps they enumerate.
`missed` is a history: the total of the increments of `val_missed_votes`, a counter
that every epoch resets and whose resets are in `SlashIndicator`.
`ProtocolCycle` extends it with the calendar of the trigger, the settlement of a
day, and the FIFO of gem batches whose delivery may fail as a whole and be
retried. `Sums` holds the total that both use.

**Metadosis.** `WorldwideDays` and `OcompJobs` are operators on one storage record,
named after the functions of the crate: a day from its creation to every one of
its ends, the carry-over, the ready, live and response indexes, finality, result
votes, activation and expiry. `Metadosis` runs them in the zones of a block; each
handler is one action, and a handler that would report corruption sets `fault`. A
vote whose job cannot draw its auction base is such a handler: the error is fatal,
so a block with the vote is invalid (`zone = "invalid"`) and the behaviour ends.
`JobRank` is the order of the job ids, which are hashes; `Recycled` is what late
settlements add to the carry-over; `overtaken` remembers, per live job, what jobs
activated since its request have drawn.

**Decisions.** `Vote` has the proposals, bonds, votes, tally and pending index,
`VoteTargets` what an approved or expired proposal does, `OcompRegistry` the
bundles with their pins. `Surplus` is what others forced onto the address of the
contract; the creation of a token may end in `Error`, whichever the modules that are
not modelled decide. `ProtocolUpdates` composes them: the hooks of Vote and
then of Update loop over a snapshot of an index that their own iterations rewrite,
one iteration per step; then come users. `Governance` is the contract of the
texts, apart from the others.

**Reshare.** `DkgCeremony` has the dealer and the player of every node with their
snapshot files, the messages between them, the logs in finalized blocks and the
manager that folds them into an output. A crash and a timeout are one step, as
both lead to a start from disk. `DkgStorage` is the keys directory of one node: a
handler is the list of its file operations, and the process may die between any
two. The node may deal, play, do both or only follow; it may start as a verifier,
without a share (`share`), and it handles a committed boundary only if it has
published that boundary itself. `DkgHandoff` has several nodes that learn of
finalized blocks at their own pace, freeze, put logs, announcements and boundaries
into headers, judge those of others by their own view, change epoch and restart.

**Instances.** The `MC...` modules name the model values. `MCPenalties`, `MCDays`,
`MCDecisions` and `MCDkg` hold instances of components that share no variable side
by side; `turn` is chosen at the start and says which of them a behaviour is
about, so that one run covers them without their product. Definitions described
as mutants stand in front of the definition they vary; no specification uses
them. They are the plausible bugs against which each property is tried.

## What the runs check

No run restricts behaviour beyond the bounds of its instance. `AtBound` lets an
instance stutter at its last block, so a deadlock is a block that cannot be
executed. Deadlock is not checked in three runs. In `penalties` and
`oracle_window` a block commits at its start to carrying a boundary (the counters
are reset before the system transactions); if execution then refuses it, the block
is invalid and its branch ends. In `dkg` a node whose start is refused stays down,
and a chain whose VRF material has expired stops.

| run | modules | properties |
|---|---|---|
| `validator_set` | `ValidatorSet` | `RecordsCanonical`, `CommitteeHoldsShares`, `FrozenTargetConsistent`, `PendingCoversWaiters`, `UnderfundedOnlyInRecovery`, `WindowsResolvedInTime` |
| `staking` | `Staking`, `StakeClaims` | `BooksBalance`, `ListsPartitionQueue`, `EntriesHeldToMaturity`, `ImplementsClaims` |
| `penalties` | `SlashIndicator`, `Oracle`, `OraclePrices` | `LivenessFelonyHitsActive`, `ThresholdEnforced`, `AgreeingMajoritySucceeds`, `AveragesExact`, `HookCannotFail` |
| `cycle_windows` | `ProtocolCycle` | `Solvent`, `OpenWindowsAreLastK`, `AttendanceExact`, `TimelyVotersShareEqually` |
| `cycle_days` | `ProtocolCycle`, `Metadosis` | `GuardsCoverHorizon`, `PreparedDaysFinal`, `QueueSound`, `EmissionConserved`; `AggregateValid`, `EmissionAccounted`, `JobsEndInTime` |
| `proposals` | `ProtocolUpdates`, `Governance` | `EnumerationsExact`, `OpenProposalsCovered`, `NothingOverdue`, `DecidedByActive`, `DecisionsFinal` |
| `updates` | `ProtocolUpdates` | `ReleasesServed`, `NothingOverdue` (also of scheduled updates), `ReleasesMoveTogether`, `EverythingEnds` |
| `dkg` | `DkgCeremony`, `DkgStorage`, `DkgHandoff` | `OneOutput`, `AcknowledgedDealingsDurable`, `MaterialKept`, `HandoffSafe`, `DkgCompletes` |

What they show:

- **Committee and records.** Between two boundaries nothing adds or removes a
  share holder; no sequence of calls produces a record the adapter refuses; the
  heights that the boundary compares separate early from late leavers; the signal
  for a reshare is never lost; an underfunded validator is active only inside a
  recovery window, and every window is resolved at its deadline.
- **Stake.** The two books agree after every call, the contract holds exactly what
  it owes, and the queue with its links is indistinguishable from a plain list of
  claims per owner: a claim pays the mature entries and only those, a slash
  reaches every live one, and no trim or reused index loses any.
- **Penalties.** A counter that judges an old committee convicts only validators
  that are active now, so the critical system transaction cannot fail on
  `jail_validator`; nobody is active at or above a threshold.
- **Prices.** More than two thirds that agree are credited and set the rate,
  whatever the others claim; every average over volume or time is that of all
  observations of its range, whatever was evicted, and every anchor of the S-curve was
  a peak; and no accepted observation fails the block hook.
- **Fees and votes.** Exactly the windows of the last K blocks are open when late
  credits run, every seat is counted once, timely voters get equal shares however
  votes are repeated, and escrow, payout and burn balance.
- **Days.** No vote arrives for a day whose batch is frozen, the FIFO stays
  consistent through failed deliveries, and the emission of a settled day is
  minted, queued or forwarded, once. In Metadosis no handler meets a state its own
  validation refuses but one, the vote on a job that cannot draw its auction base any
  more. A job is short by no more than later activations have drawn since its request,
  so one that is not overtaken can always draw; every unit of emission is in one
  place, and no job waits for votes that do not come.
- **Decisions.** The hooks miss nothing although they rewrite the index they loop
  over; a proposal is approved only by validators active when it is decided; bonds
  and reservations are those of open proposals; releases move only with the
  version, what is staged can be promoted, and a bundle is served while pinned.
- **Reshare.** All nodes that end a ceremony end it with one output; a player that
  a log counts on has the dealing on disk; no crash loses material that is still
  needed, nor a transcript that was on disk at the completion before the material of
  its ceremony is in place; an epoch changes only as announced, with one anchor for all its nodes
  unless the outgoing committee went on above it (`Overshot`).

Four runs are expected to fail. Each states what a comment, a document or a test
says of the code, and shows the shortest behaviour in which the code does
something else; `PROJECT.json` quotes the lines.

- `frozen_target` (`FrozenTargetActivatable`): the comment on `freeze_height`
  (`validatorset/src/hooks.rs:133`) attributes a malformed boundary to a validator
  already ineligible at the freeze. A joiner that was eligible and unstakes below
  the minimum before the boundary also makes it be refused (`runtime.rs:2163`).
- `target_failure` (`TargetFailureEndsProposal`): a deterministic failure of a
  target should end the proposal in `Error` (`vote/src/schema.rs:16`). A second
  update whose bundle cannot be staged fails the block
  (`ocompregistry/src/runtime.rs:179`).
- `dkg_retire` (`SavedMaterialStarts`): saved key material takes precedence at a
  restart (`engine/src/stack.rs:7749`). A crash inside
  `retire_activated_dkg_retry_state` leaves the boundary file without the files it
  names, and every start is refused although the saved material is complete.
- `oracle_window` (`WindowResetsCounters`): the slash window forces
  underperformers out and resets the counters (`oracle/src/tally.rs:721`). A
  validator on its way back in makes `jail_validator` fail, and with it the whole
  window.

## Bounds

| bound | value | why it is enough |
|---|---|---|
| addresses | 2 (validator set, staking), 4 (fees, slashing, oracle) | lifecycles are independent but for the committee and the shared queue, for which two suffice; with four members a quorum leaves room for one absentee |
| `MaxHeight` of blocks | 8 (validator set), 5 (staking, `cycle_windows`), 9 (slashing), 8 (`cycle_days`) | several epochs of one or two blocks, so that a validator can join, be jailed, be excluded, return and be cleaned up; three windows that have closed and two that are open |
| `MinStake`, `MaxStake` | 2, 2..3 | at, below and above the minimum; a slash of 50% of an odd amount rounds |
| `K` | 2 | distances below, at and beyond the window all occur (3 in the code) |
| `Retain` | 3, 4 | above K, and small enough that the ring wraps |
| `DayLength`, `MaxClock` | 2, 4 and 6 | midnight between any two blocks, and jumps over whole days |
| `MaxBatch` | 1, 0 | late votes one block credits to another; `cycle_days` leaves late votes to `cycle_windows` |
| `MaxSkips`, `MaxCompaction`, `MaxRemovals` | 1 | missed proposers before a block; loops of the code that stop in the middle (64 entries and 16 removals in the code) |
| `Actors`, `Feeders` | 1 or 2 | the addresses that act; the others are passive members |
| `Word`, `Unit` of the oracle | 40, 12 | volumes that fit alone and not together; divisions that round |
| `MaxBlocks`, `Jumps`, `MaxClock` of prices | 4, {1, 3, 7}, 20 | observations inside, at the edge of and beyond the retention of 10, and gaps longer than `MaxBackfill` days |
| `Pool` of a day | 9, 6 | divisions with a residue; two batches in the queue at once |
| `LastBlock`, `LastHour`, `Jumps` of Metadosis | 10, 11, {1, 3} | a day of two hours through all its stages, passes that come late by a day, two windows of different length on one height, and as many active days as the cap allows: with a cap lower by one `AggregateValid` fails |
| `MaxProposals`, `LastCall` | 2, 3 to 5 | two proposals are what can conflict; after the last call users are quiet so that deadlines are reached |
| `MaxTexts`, `MaxCanon` | 3, 2 | a swap-removal from the middle of a listing; a revision that overwrites |
| `Setups` of a ceremony | four | a leaver, a joiner, a log without valid content, and a ceremony that needs everybody |
| `MaxFaults`, `MaxBreaks` | 1 | an interruption, a loss or a failed ceremony at every point; repetitions are what the proofs add for the files |
| `MaxGeneration` | 3 | material of the previous, the present and the next committee at once |
| `MaxHeight`, `EpochLength` of the handoff | 6, 3 | one whole change of committee and the ceremony and announcement of the next |
| `MaxWindowValidators` | 4 | the slash window accepts every validator of the instance (128 in the code) |

Amounts are 256-bit in the code and checked where they could overflow. The models
use naturals, and a subtraction below zero would be a type violation; where the
width decides something (oracle volumes and sums) the limit is the constant `Word`.
Symmetry is used for passive voters, result members and tickers, in runs without
liveness properties.

## Fairness and liveness

Two runs claim that something eventually happens.

- `updates`: `EverythingEnds`, under weak fairness of the steps of a block (blocks
  are produced) and of `UpgradeBinary` (operators install the binary that an
  approved update needs; without it the node stops by design at the activation
  height). Users, votes and computations are not assumed to do anything. A block
  that fails for ever, the subject of `target_failure`, is excepted by `Aborted`.
- `dkg`: `DkgCompletes`, under weak fairness of the steps of every process that is
  up, of its retry tick, of the delivery of messages that are not lost, of the
  start of a node that is down, and of finalization by a committee with a quorum.
  The retry loops of `dkg_actor` and the epoch loop of the engine run for ever; that
  a stopped node is started again is an assumption on its operator, and finalization
  is the liveness of the BFT library. Faults are finitely many. Expiry of the VRF material, after which the
  code stops the chain, is excepted.

The other specifications assume no fairness. What must happen by a deadline in them
(recovery windows, jobs of Metadosis, overdue proposals) is stated as an invariant.

## What is proved

TLAPS proves the following for every value of the constants that the named
assumptions allow: any number of validators, any committees, stakes, fees, windows,
calendars, ceremonies and faults. Bounds such as `MaxHeight` are constants as well,
so nothing depends on their size. The assumptions are those named `...Assumption`
in the modules; every one is evaluated by a run. They are the types of the constants
and what the configuration of the code guarantees: finite, non-empty committees,
positive windows, `PrepareWindow < EpochLength`, `MaxStake >= MinStake`, quorums
within their committees, `Retain > K`. One goes further: `VoterThreshold > K`, which
nothing in the code enforces (the defaults are 500 and 3).

- `ValidatorSetProofs`: `TypeCorrect`; `CanonicalSafe`, `CommitteeSafe`,
  `FrozenTargetSafe`, `FundingSafe`, `WindowsSafe` from one inductive invariant, and
  `PendingSafe` from that and a second induction. The invariant (`Inductive`, with
  `Safe(v)` for one validator) is needed because none of the properties is
  inductive alone: the committee follows the records only if the frozen target
  does; the target can be compared with exit heights only because those never
  exceed the height of the block; a jailed validator that exits keeps its place
  only because both heights of its record agree; and a member that takes office is
  admitted only because joining requires a registration.
- `SlashProofs`: `SlashImplementsSet` (every step of `SlashIndicator` is a step of
  `ValidatorSet` or leaves it alone, so the invariants above carry over),
  `FelonyTargetsHold`, `ThresholdsHold`. The counter of a validator outside the
  committee is bounded by the number of blocks since the boundary that excluded it:
  at most one window closes per block, and the block of the boundary resets. A
  committee judged after it left office is at most K blocks old, so such a count is
  at most K. This is where `VoterThreshold > K` is needed.
- `ProtocolCycleProofs`: `OpenWindowsHold`, `PreparedDaysHold`, `GuardsHold`. The
  invariant adds that accounting is in step with the height (`InStep`), that the
  close height of a day covers each of its open windows (`CloseCovers`), and that
  prepared days lie before the active day (`CalendarBehind`). `GuardInv` says what
  every slot of the ring holds, so that a block overwrites the slot of the block
  that leaves the horizon.
- `SumLaws`: the laws of sums and cardinalities over finite sets. The sum is a fold
  of the community modules, defined by recursion with `CHOOSE`. The library's
  induction theorems cannot be used, since they take an operator; the lemmas here
  take the *set* of the subsets that satisfy a claim instead and show, from the
  well-foundedness of `<` on the naturals, that it has every subset.
- `SettlementProofs`: `SolventHolds` and `AttendanceHolds`, on these laws. `EscrowInv`
  adds that closed windows hold nothing; `AttendInv` that an open window remembers
  as seen exactly the members with a recorded distance, so that a repeated late
  vote is not counted again.
- `PayoutProofs`: `TimelyHolds`, `QueueSoundHolds`, `EmissionHolds`. `QueueInv` adds
  where the reverse index points and that no more batches were queued than days
  prepared; `EmissionInv` needs the queue, because a settled day must not have a
  batch yet and a delivered one leaves the queue as it is minted.
- `DkgCeremonyProofs`: `AcknowledgedHolds`, from `FilesHold`, and
  `DealingsNeverReplaced`. An acknowledgement in flight, in a dealer's memory, in its
  file, in a sealed log or on chain exists only while the dealing is in the player's
  snapshot; a snapshot entry is never replaced; and a dealer that restarts deals
  from the seed of its snapshot, so the dealing it goes on with is the acknowledged
  one. `FileInv` says this of every place at once.
- `DkgStorageProofs`: `MaterialKeptHolds`, from `StorageInvHolds`. As a crash may fall
  between any two file operations, the invariant describes the operations that are
  still to do: a handler is a clean-up, which saves before it removes, or a
  build-up, which publishes last. It also says what a process must remember for its
  next handler to be right, and that a start recovers it from the boundary file.

Only model-checked:

- liveness (`EverythingEnds`, `DkgCompletes`), which is out of the prover's reach;
- the ledger of `Staking` with the refinement of `StakeClaims`, and `AveragesExact`
  of the oracle: they are about lists and sums that recursive walks compute;
- `AggregateValid`, `EmissionAccounted`, `JobsEndInTime` of Metadosis, the properties
  of `ProtocolUpdates` and `Governance`, `AgreeingMajoritySucceeds`,
  `HookCannotFail`, and `HandoffSafe`: no inductive invariant has been written yet;
- `OneOutput`: it needs that all managers fold the same prefix of the finalized
  logs and stop at the same one, an induction along the chain that is not part of
  the proof modules.

## Abstractions to know about

- Date keys (yyyymmdd) are day numbers; their order and successor are what the code
  uses. One block is one unit of time where only the order of times matters.
- The limits on the number of registered validators are left out: they only refuse
  more calls.
- The enclave-expiry exclusions of a boundary artifact are always proposed empty
  (`engine/src/validators.rs:225`), so the arms for them are left out. Which leases
  have expired is any set of active validators.
- In `ValidatorSet` a missing OCOMP vote may hit any validator in any block;
  Metadosis decides it.
- The evidence of a felony is any member of a small set with one offender; the
  signature checks, the reward of the submitter and the cumulative felony count,
  which no decision reads, are left out.
- The window guards of `SlashIndicator` are subsumed by the accounting order. Their
  ring has the shape of the ring in `Rewards`, which is modelled.
- In the `"prices"` part of `penalties` the publications of a round are an open
  input; `Oracle` shows what a round can publish. Feeder delegation, and switching a
  vote target off, which only tests do, are left out.
- Cryptography is external: a dealing is the number of its seed, an output the set
  of logs it is made of. Every node of `DkgHandoff` is in every committee, and one
  block with a dealer log stands there for the quorum of logs that `DkgCeremony`
  counts. Starts from a share given on the command line are left out of `DkgStorage`.
- The misses that the close of a result window hands to Staking are `SlashOcompMiss`
  of `Staking`; in Metadosis they have no effect, and a revert of theirs is left out.
- OIPs and GIPs, canon and meta-canon run the same code; one of each is modelled.

## Observations

Met while reading the code for the models; none is a property of a run.

- Metadosis: after several consecutive gaps of more than a day the pipeline can hold
  one day more than `MAX_PIPELINE`. Days without allocation or limit leave their
  tribute partition unretired.
- Metadosis: `ocomp_budget.rs:129` says that an activation that finds the accumulator
  short fails, "and the day's whole emission returns to the accumulator". The draw
  reports storage corruption, which `errors.rs:72` makes fatal: instead of failing the
  activation it fails every block that carries the vote, and the payload builder gives
  up (`payload_builder.rs:544`). The emission returns when the window of the job
  expires, if the vote that completes the quorum is never included. `EmissionAccounted`
  bounds the shortage, `AggregateValid` names it as the only corruption.
- `process_unbonding`: its comment describes a swap-removal of matured entries; the
  code leaves them to their owner and trims only zeroed entries at the tail.
- `day_participation_complete`: its comment has the cycle run before late credits,
  `begin_order` has it after. The strict comparison is one block more careful than
  it has to be.
- Oracle: daily averages are backfilled contiguously only within 366 days; the
  three-bucket sum of a worldwide day is not checked for overflow as the others are
  (`runtime.rs:350`); the peak of the S-curve is missed if the confirming day has no
  block; counters of removed validators stay. Genesis does not bound the reward band:
  one above 200% can overflow the reward spread, and then fail each block that ends the
  period (`tally.rs:197`; the guard of `Oracle!Tally`). The slash window refuses more
  than 128 registered validators, the consensus bound is 256.
- Handoff: the outgoing committee may finalize blocks above the anchor before its
  nodes change epoch (`stack.rs:5881`). `HandoffSafe` excepts this case by name.

## Not modelled

The largest part without a module is the pipeline of finalized blocks: the executor
actor of consensus, the finalizer and recovery of compressed entities, the startup
order of the engine and the off-chain projection. Also left out: the products
(gem, intex, desis, credis, nod, tribute and their factories) and the ledgers of
their tokens; the TEE registry and enclaves; the emission-limit arithmetic; zero-fee
quotas and the transaction pool; the interactive ceremony at genesis; followers of a
foreign committee; encodings, hashes, signatures and proofs; node, RPC, operator
tools, contracts of other chains and vendored code. The reasons are in
`PROJECT.json`.
