---------------------------- MODULE DkgCeremony ----------------------------
(***************************************************************************)
(* A reshare ceremony: the holders of the old shares deal to the members   *)
(* of the next committee (consensus/src/dkg_actor), and the manager of     *)
(* every node derives the public output from the dealer logs that          *)
(* finalized blocks carry (consensus/src/dkg_manager).                     *)
(*                                                                         *)
(* A node keeps two snapshots on disk, one per role, and loses everything  *)
(* else when its process or its ceremony is interrupted: a crash and the   *)
(* expiry of DKG_TIMEOUT are the same step, because both are followed by a *)
(* start from disk and a replay of the finalized logs.  Messages may be    *)
(* lost, are repeated by the retry tick and arrive in any order.  The      *)
(* cryptography is external: a dealing is known by the number of the seed  *)
(* it is derived from, and an output by the set of logs it is made of.     *)
(***************************************************************************)
EXTENDS Integers, FiniteSets, Sequences

CONSTANTS
    Nodes,     \* the nodes of the instance
    Setups,    \* the ceremonies of the instance
    MaxFaults  \* bound: interruptions and lost messages

(***************************************************************************)
(* Who deals, who receives, whose signed log may be content-invalid, the   *)
(* acknowledgements that seal a log and the content-valid logs that        *)
(* determine the output.  Both thresholds are N3f1 quorums in the code;    *)
(* here they are free, so that a small ceremony leaves room for absent     *)
(* players and dealers.                                                    *)
(***************************************************************************)
ASSUME CeremonyAssumption ==
    /\ MaxFaults \in Nat
    /\ \A c \in Setups :
         /\ IsFiniteSet(c.dealers) /\ IsFiniteSet(c.players)
         /\ c.dealers \cup c.players \subseteq Nodes /\ c.faulty \subseteq c.dealers
         /\ c.playerQuorum \in 1 .. Cardinality(c.players)
         /\ c.logQuorum \in 1 .. Cardinality(c.dealers \ c.faulty)

VARIABLE setup  \* the ceremony of this behaviour

Dealers == setup.dealers
Players == setup.players
Faulty == setup.faulty
PlayerQuorum == setup.playerQuorum
LogQuorum == setup.logQuorum
Members == Dealers \cup Players
NoOutput == {}
Logs == [dealer : Dealers, dealing : Nat, acks : SUBSET Players, valid : BOOLEAN]

VARIABLES
    status,      \* per member: "down", "running", "dealt" (dealer-only, log sealed), "done"
    drawn,       \* per dealer: seeds drawn so far
    dealerFile,  \* per dealer: durable seed (0: none) and accepted acknowledgements
    playerFile,  \* per player: durable accepted dealing of each dealer (0: none)
    dealing,     \* per dealer: the dealing of the running process
    acked,       \* per dealer: players that acknowledged it
    replay,      \* per dealer: recovered acknowledgements not yet confirmed
    sealed,      \* per dealer: the running process has sealed its log
    held,        \* per player: dealings the running process holds
    msgs,        \* messages in flight
    localLog,    \* per dealer: own log to emit (a set of at most one)
    candidates,  \* logs broadcast by their dealers, which any proposer may emit
    finalized,   \* dealer logs of finalized blocks, in chain order
    seen,        \* per member: length of the finalized prefix it has delivered
    recorded,    \* per member: the manager's logs, first one of each dealer
    canonical,   \* per member: the manager's frozen output
    outcome,     \* per member: the durable result of the ceremony
    faults

dealerVars == <<drawn, dealerFile, dealing, acked, replay, sealed>>
playerVars == <<playerFile, held>>
gossipVars == <<localLog, candidates>>
managerVars == <<seen, recorded, canonical>>
ceremonyVars == <<setup, status, dealerVars, playerVars, msgs, gossipVars, finalized,
                  managerVars, outcome, faults>>

Bundle(d, p, s) == [type |-> "bundle", from |-> d, to |-> p, dealing |-> s]
Ack(p, d, s) == [type |-> "ack", from |-> p, to |-> d, dealing |-> s]

CeremonyTypeOK ==
    /\ status \in [Members -> {"down", "running", "dealt", "done"}]
    /\ drawn \in [Dealers -> Nat]
    /\ dealerFile \in [Dealers -> [seed : Nat, acks : SUBSET Players]]
    /\ playerFile \in [Players -> [Dealers -> Nat]]
    /\ dealing \in [Dealers -> Nat] /\ acked \in [Dealers -> SUBSET Players]
    /\ replay \in [Dealers -> SUBSET Players] /\ sealed \in [Dealers -> BOOLEAN]
    /\ held \in [Players -> [Dealers -> Nat]]
    /\ candidates \subseteq Logs /\ \A d \in Dealers : localLog[d] \subseteq Logs
    /\ \A n \in Members : canonical[n] \subseteq Logs /\ outcome[n] \subseteq Logs
    /\ seen \in [Members -> 0 .. Len(finalized)]
    /\ faults \in 0 .. MaxFaults

-----------------------------------------------------------------------------
(***************************************************************************)
(* The manager: a fold over the finalized logs.                            *)
(***************************************************************************)

DealersOf(logs) == {logs[i].dealer : i \in DOMAIN logs}

(* Mutant: a later log of a dealer replaces its first one. *)
ApplyFinalizedLatest(logs, log) ==
    Append(SelectSeq(logs, LAMBDA l : l.dealer # log.dealer), log)

(* DkgCeremony::apply_finalized_dealer_log: idempotent per dealer. *)
ApplyFinalized(logs, log) ==
    IF log.dealer \in DealersOf(logs) THEN logs ELSE Append(logs, log)

(***************************************************************************)
(* The library's `observe`: a log that is signed but does not reveal or    *)
(* prove what it must is dropped, and a quorum of the others determines    *)
(* the output.                                                             *)
(***************************************************************************)
ValidLogs(logs) == {logs[i] : i \in {j \in DOMAIN logs : logs[j].valid}}

(* A quorum of content-valid logs determines the output. *)
Reconstructable(logs) == Cardinality(ValidLogs(logs)) >= LogQuorum

(* try_reconstruct_if_needed: one shot. *)
Reconstruct(output, logs) ==
    IF output = NoOutput /\ Reconstructable(logs) THEN ValidLogs(logs) ELSE output

(* One finalized log applied to the pair of recorded logs and output. *)
Record(state, log) ==
    LET logs == ApplyFinalized(state.logs, log)
    IN  [logs |-> logs,
         output |-> IF logs = state.logs THEN state.output ELSE Reconstruct(state.output, logs)]

(* restart_ceremony_with_finalized_logs: the finalized prefix, in order. *)
Replayed(prefix) ==
    LET after[i \in 0 .. Len(prefix)] ==
            IF i = 0 THEN [logs |-> <<>>, output |-> NoOutput] ELSE Record(after[i - 1], prefix[i])
    IN  after[Len(prefix)]

(***************************************************************************)
(* Messages reach running ceremonies only: a member that is down or has    *)
(* finished has no receiver, and what it misses is retried.                *)
(***************************************************************************)
Listening(n) == status[n] = "running"
Reach(sent, n) == {m \in sent : m.to = n \/ Listening(m.to)}
Without(n) == {m \in msgs : m.to # n}

-----------------------------------------------------------------------------
CeremonyInit ==
    /\ setup \in Setups
    /\ status = [n \in Members |-> "down"]
    /\ drawn = [d \in Dealers |-> 0]
    /\ dealerFile = [d \in Dealers |-> [seed |-> 0, acks |-> {}]]
    /\ playerFile = [p \in Players |-> [d \in Dealers |-> 0]]
    /\ dealing = [d \in Dealers |-> 0]
    /\ acked = [d \in Dealers |-> {}]
    /\ replay = [d \in Dealers |-> {}]
    /\ sealed = [d \in Dealers |-> FALSE]
    /\ held = [p \in Players |-> [d \in Dealers |-> 0]]
    /\ msgs = {}
    /\ localLog = [d \in Dealers |-> {}]
    /\ candidates = {}
    /\ finalized = <<>>
    /\ seen = [n \in Members |-> 0]
    /\ recorded = [n \in Members |-> <<>>]
    /\ canonical = [n \in Members |-> NoOutput]
    /\ outcome = [n \in Members |-> NoOutput]
    /\ faults = 0

(* Mutant: every process draws a seed of its own. *)
SeedOfFresh(d) == drawn[d] + 1

(***************************************************************************)
(* The seed of a dealer is loaded, or drawn and saved before any message   *)
(* leaves the process.                                                     *)
(***************************************************************************)
SeedOf(d) == IF dealerFile[d].seed # 0 THEN dealerFile[d].seed ELSE drawn[d] + 1

(* A dealer that is a player deals to itself without the network. *)
SelfDealt(n) == n \in Players /\ playerFile[n][n] \in {0, SeedOf(n)}

StartDealer(n) ==
    LET self == IF SelfDealt(n) THEN {n} ELSE {}
        acks == dealerFile[n].acks \cup self
    IN  /\ drawn' = [drawn EXCEPT ![n] = IF SeedOf(n) > @ THEN SeedOf(n) ELSE @]
        /\ dealing' = [dealing EXCEPT ![n] = SeedOf(n)]
        /\ dealerFile' = [dealerFile EXCEPT ![n] = [seed |-> SeedOf(n), acks |-> acks]]
        /\ acked' = [acked EXCEPT ![n] = acks]
        /\ replay' = [replay EXCEPT ![n] = dealerFile[n].acks \ {n}]
        /\ sealed' = [sealed EXCEPT ![n] = FALSE]
        /\ msgs' = msgs \cup Reach({Bundle(n, p, SeedOf(n)) : p \in Players \ {n}}, n)

StartPlayer(n) ==
    LET own == IF n \in Dealers /\ SelfDealt(n)
               THEN [playerFile[n] EXCEPT ![n] = SeedOf(n)] ELSE playerFile[n]
    IN  /\ playerFile' = [playerFile EXCEPT ![n] = own]
        /\ held' = [held EXCEPT ![n] = own]

(***************************************************************************)
(* The manager is rebuilt from finalized history, then the actor starts.   *)
(***************************************************************************)
StartCeremony(n) ==
    LET replayed == Replayed(SubSeq(finalized, 1, seen[n]))
    IN  /\ status[n] = "down"
        /\ status' = [status EXCEPT ![n] = "running"]
        /\ \/ n \in Dealers /\ StartDealer(n)
           \/ n \notin Dealers /\ UNCHANGED <<dealerVars, msgs>>
        /\ \/ n \in Players /\ StartPlayer(n)
           \/ n \notin Players /\ UNCHANGED playerVars
        /\ recorded' = [recorded EXCEPT ![n] = replayed.logs]
        /\ canonical' = [canonical EXCEPT ![n] = replayed.output]
        /\ UNCHANGED <<gossipVars, finalized, seen, outcome, faults>>

-----------------------------------------------------------------------------
(***************************************************************************)
(* The player side.                                                        *)
(***************************************************************************)

(* The dealing is in the snapshot before its acknowledgement leaves. *)
Accept(m) ==
    /\ held' = [held EXCEPT ![m.to][m.from] = m.dealing]
    /\ playerFile' = [playerFile EXCEPT ![m.to] = held'[m.to]]

(* Mutant: a dealing is acknowledged only once. *)
ReceiveBundleOnce(m) ==
    LET known == held[m.to][m.from]
    IN  /\ m.type = "bundle" /\ Listening(m.to)
        /\ \/ known = 0 /\ Accept(m)
           \/ known # 0 /\ UNCHANGED playerVars
        /\ msgs' = (msgs \ {m}) \cup
                   IF known = 0 THEN Reach({Ack(m.to, m.from, m.dealing)}, m.to) ELSE {}
        /\ UNCHANGED <<status, dealerVars, gossipVars, finalized, managerVars,
                       outcome, faults>>

(***************************************************************************)
(* handle_player_bundle: the first dealing of a dealer is accepted, the    *)
(* same one again is acknowledged again, a different one is not.  A        *)
(* dealer-only ceremony ignores bundles.                                   *)
(***************************************************************************)
ReceiveBundle(m) ==
    LET known == held[m.to][m.from]
    IN  /\ m.type = "bundle" /\ Listening(m.to)
        /\ \/ known = 0 /\ Accept(m)
           \/ known # 0 /\ UNCHANGED playerVars
        /\ msgs' = (msgs \ {m}) \cup
                   IF known \in {0, m.dealing}
                   THEN Reach({Ack(m.to, m.from, m.dealing)}, m.to) ELSE {}
        /\ UNCHANGED <<status, dealerVars, gossipVars, finalized, managerVars,
                       outcome, faults>>

-----------------------------------------------------------------------------
(***************************************************************************)
(* The dealer side.                                                        *)
(***************************************************************************)

(***************************************************************************)
(* An acknowledgement of a recovered dealing confirms the replay; a new    *)
(* one is saved.  The dealer is gone once it has sealed its log.           *)
(***************************************************************************)
ReceiveAck(m) ==
    LET d == m.to
        counts == ~sealed[d] /\ m.dealing = dealing[d]
        confirms == counts /\ m.from \in replay[d]
        accepts == counts /\ m.from \notin replay[d]
        acks == IF accepts THEN acked[d] \cup {m.from} ELSE acked[d]
    IN  /\ m.type = "ack" /\ Listening(d)
        /\ replay' = [replay EXCEPT ![d] = IF confirms THEN @ \ {m.from} ELSE @]
        /\ acked' = [acked EXCEPT ![d] = acks]
        /\ dealerFile' = [dealerFile EXCEPT ![d].acks = IF accepts THEN acks ELSE @]
        /\ msgs' = msgs \ {m}
        /\ UNCHANGED <<status, drawn, dealing, sealed, playerVars, gossipVars,
                       finalized, managerVars, outcome, faults>>

(* The retry tick: every share not confirmed to this process is sent again. *)
RetryShares(d) ==
    LET shares == {Bundle(d, p, dealing[d]) : p \in (Players \ acked[d]) \cup replay[d]}
    IN  /\ Listening(d) /\ ~sealed[d]
        /\ msgs' = msgs \cup Reach(shares, d)
        /\ UNCHANGED <<status, dealerVars, playerVars, gossipVars, finalized,
                       managerVars, outcome, faults>>

(***************************************************************************)
(* The log is sealed with the acknowledgements at hand, once a quorum of   *)
(* players has acknowledged and either all shares are confirmed or the     *)
(* grace period for the others is over.  The evaluations of players that   *)
(* did not acknowledge are revealed in it.                                 *)
(***************************************************************************)
SealLog(d) ==
    /\ Listening(d) /\ ~sealed[d]
    /\ Cardinality(acked[d]) >= PlayerQuorum
    /\ \E valid \in {TRUE} \cup {d \notin Faulty} :
        LET log == [dealer |-> d, dealing |-> dealing[d], acks |-> acked[d], valid |-> valid]
        IN  /\ localLog' = [localLog EXCEPT ![d] = {log}]
            /\ candidates' = candidates \cup {log}
    /\ msgs' = IF d \in Players THEN msgs ELSE Without(d)
    /\ sealed' = [sealed EXCEPT ![d] = TRUE]
    /\ replay' = [replay EXCEPT ![d] = {}]
    /\ status' = [status EXCEPT ![d] = IF d \in Players THEN @ ELSE "dealt"]
    /\ UNCHANGED <<drawn, dealerFile, dealing, acked, playerVars, finalized,
                   managerVars, outcome, faults>>

-----------------------------------------------------------------------------
(***************************************************************************)
(* Logs, blocks and the output.                                            *)
(***************************************************************************)

(***************************************************************************)
(* A finalized block carries the log its proposer emits: its own           *)
(* (DealerLogGossip's local slot) or one it heard of (its pending slots).  *)
(* Which of the members proposes makes no difference to the chain, so the  *)
(* buffers are one set.  A log that is on chain already is a repetition    *)
(* that every manager ignores.                                             *)
(***************************************************************************)
FinalizeLog(log) ==
    /\ \A i \in DOMAIN finalized : finalized[i] # log
    /\ finalized' = Append(finalized, log)
    /\ UNCHANGED <<status, dealerVars, playerVars, msgs, gossipVars, managerVars,
                   outcome, faults>>

(* The dealer of a log is a proposer, too. *)
EmitOwnLog(d) == status[d] \in {"running", "dealt"} /\ \E log \in localLog[d] : FinalizeLog(log)

(***************************************************************************)
(* note_finalized_header_artifact_at: the next finalized log is delivered  *)
(* to the manager of a member, which hands a recorded one to the actor.    *)
(***************************************************************************)
DeliverFinalized(n) ==
    LET log == finalized[seen[n] + 1]
        next == Record([logs |-> recorded[n], output |-> canonical[n]], log)
    IN  /\ status[n] \in {"running", "dealt"} /\ seen[n] < Len(finalized)
        /\ seen' = [seen EXCEPT ![n] = @ + 1]
        /\ recorded' = [recorded EXCEPT ![n] = next.logs]
        /\ canonical' = [canonical EXCEPT ![n] = next.output]
        /\ UNCHANGED <<status, dealerVars, playerVars, msgs, gossipVars, finalized,
                       outcome, faults>>

(***************************************************************************)
(* The ceremony task of a member ends: what it did not save is gone, and   *)
(* so are its own log and its receiver.                                    *)
(***************************************************************************)
EndProcess(n) ==
    /\ dealing' = [d \in Dealers |-> IF d = n THEN 0 ELSE dealing[d]]
    /\ acked' = [d \in Dealers |-> IF d = n THEN {} ELSE acked[d]]
    /\ replay' = [d \in Dealers |-> IF d = n THEN {} ELSE replay[d]]
    /\ sealed' = [d \in Dealers |-> IF d = n THEN FALSE ELSE sealed[d]]
    /\ localLog' = [d \in Dealers |-> IF d = n THEN {} ELSE localLog[d]]
    /\ held' = [p \in Players |-> IF p = n THEN [d \in Dealers |-> 0] ELSE held[p]]
    /\ msgs' = Without(n)
    /\ UNCHANGED <<drawn, dealerFile, playerFile>>

(***************************************************************************)
(* player.finalize: the share needs every selected dealing that the player *)
(* acknowledged; the others are revealed in their logs.                    *)
(***************************************************************************)
ShareComputable(p, logs) ==
    \A log \in logs : p \in log.acks => held[p][log.dealer] = log.dealing

(***************************************************************************)
(* The actor is handed every recorded log in order and probes once per new *)
(* one, so it completes at the first prefix that determines the output.    *)
(***************************************************************************)
CompletePrefixes(logs) == {i \in DOMAIN logs : Reconstructable(SubSeq(logs, 1, i))}
ActorOutput(logs) ==
    ValidLogs(SubSeq(logs, 1, CHOOSE i \in CompletePrefixes(logs) :
                                  \A j \in CompletePrefixes(logs) : i <= j))

(***************************************************************************)
(* A player completes from the finalized logs, whether or not its own      *)
(* dealer has sealed.  The result is durable before it is used, and        *)
(* note_ceremony_completed clears the gossip.  If the share cannot be      *)
(* computed the ceremony ends with an error.                               *)
(***************************************************************************)
CompleteCeremony(n) ==
    LET output == ActorOutput(recorded[n])
        computable == ShareComputable(n, output)
    IN  /\ Listening(n) /\ n \in Players /\ CompletePrefixes(recorded[n]) # {}
        /\ status' = [status EXCEPT ![n] = IF computable THEN "done" ELSE "down"]
        /\ outcome' = [outcome EXCEPT ![n] = IF computable THEN output ELSE @]
        /\ EndProcess(n)
        /\ UNCHANGED <<candidates, finalized, managerVars, faults>>

(* A dealer that leaves the committee takes the manager's output. *)
ObserveOutput(n) ==
    /\ status[n] = "dealt" /\ canonical[n] # NoOutput
    /\ outcome' = [outcome EXCEPT ![n] = canonical[n]]
    /\ status' = [status EXCEPT ![n] = "done"]
    /\ EndProcess(n)
    /\ UNCHANGED <<candidates, finalized, managerVars, faults>>

-----------------------------------------------------------------------------
(***************************************************************************)
(* Faults: a process dies or its ceremony times out; a message is lost.    *)
(***************************************************************************)
Interrupt(n) ==
    /\ status[n] \in {"running", "dealt"} /\ faults < MaxFaults
    /\ faults' = faults + 1
    /\ status' = [status EXCEPT ![n] = "down"]
    /\ EndProcess(n)
    /\ recorded' = [recorded EXCEPT ![n] = <<>>]
    /\ canonical' = [canonical EXCEPT ![n] = NoOutput]
    /\ UNCHANGED <<candidates, finalized, seen, outcome>>

LoseMessage(m) ==
    /\ faults < MaxFaults
    /\ faults' = faults + 1
    /\ msgs' = msgs \ {m}
    /\ UNCHANGED <<status, dealerVars, playerVars, gossipVars, finalized, managerVars,
                   outcome>>

CeremonyOver == \A n \in Members : status[n] = "done"

(* One step of a member; the ceremony is the same to the end. *)
Progress(n) ==
    /\ n \in Members
    /\ \/ StartCeremony(n) \/ DeliverFinalized(n) \/ CompleteCeremony(n) \/ ObserveOutput(n)
       \/ n \in Dealers /\ (SealLog(n) \/ EmitOwnLog(n))
    /\ UNCHANGED setup

Retry(d) == d \in Dealers /\ RetryShares(d) /\ UNCHANGED setup
ReceiveBundleFrom(n) == (\E m \in msgs : m.from = n /\ ReceiveBundle(m)) /\ UNCHANGED setup
ReceiveAckFrom(n) == (\E m \in msgs : m.from = n /\ ReceiveAck(m)) /\ UNCHANGED setup

CeremonyNext ==
    \/ \E n \in Nodes : \/ Progress(n) \/ Retry(n)
                        \/ ReceiveBundleFrom(n) \/ ReceiveAckFrom(n)
    \/ (\E log \in candidates : FinalizeLog(log)) /\ UNCHANGED setup
    \/ (\E n \in Members : Interrupt(n)) /\ UNCHANGED setup
    \/ (\E m \in msgs : LoseMessage(m)) /\ UNCHANGED setup
    \/ CeremonyOver /\ UNCHANGED ceremonyVars

(***************************************************************************)
(* Every process that is up runs, the network delivers what is not lost,   *)
(* and every member proposes again and again.                              *)
(***************************************************************************)
CeremonyFairness ==
    \A n \in Nodes : /\ WF_ceremonyVars(Progress(n))
                     /\ WF_ceremonyVars(Retry(n))
                     /\ WF_ceremonyVars(ReceiveBundleFrom(n))
                     /\ WF_ceremonyVars(ReceiveAckFrom(n))

CeremonySpec == CeremonyInit /\ [][CeremonyNext]_ceremonyVars
FairCeremonySpec == CeremonySpec /\ CeremonyFairness

-----------------------------------------------------------------------------
(***************************************************************************)
(* Managers and participants end with one output, whatever each of them    *)
(* missed, replayed or restarted, and whichever logs were signed garbage   *)
(* or sealed twice.                                                        *)
(***************************************************************************)
OneOutput ==
    Cardinality(({canonical[n] : n \in Members} \cup {outcome[n] : n \in Members})
                \ {NoOutput}) <= 1

(***************************************************************************)
(* A player listed as acknowledged in a log has exactly that dealing on    *)
(* disk, so the output that is fixed on chain can never leave it without   *)
(* its share, however often either side restarts.                          *)
(***************************************************************************)
AcknowledgedDealingsDurable ==
    \A i \in DOMAIN finalized : \A p \in finalized[i].acks :
        playerFile[p][finalized[i].dealer] = finalized[i].dealing

(***************************************************************************)
(* With finitely many faults every target participant ends with the output *)
(* and its share.                                                          *)
(***************************************************************************)
PlayersHaveOutput == \A p \in Players : outcome[p] # NoOutput
PlayersComplete == <>PlayersHaveOutput
=============================================================================
