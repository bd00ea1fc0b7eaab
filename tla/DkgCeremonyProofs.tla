------------------------- MODULE DkgCeremonyProofs -------------------------
(***************************************************************************)
(* What the files of a reshare ceremony guarantee for every committee,     *)
(* every pair of thresholds and every number of faults: the dealings that  *)
(* a log says were acknowledged are on the disks of the players.           *)
(*                                                                         *)
(* An acknowledgement exists only while the dealing is in the player's     *)
(* snapshot, and an entry of a snapshot is never replaced; what a dealer   *)
(* has counted, sealed and finalized follows. A dealer that restarts deals *)
(* from the seed of its snapshot, so that the dealing it continues with is *)
(* the one that was acknowledged.                                          *)
(***************************************************************************)
EXTENDS DkgCeremony, TLAPS

(* The numbers of the dealings; 0 is none. *)
Dealing == Nat \ {0}

(* The types that the arguments about files need. *)
FileTyped ==
    /\ setup \in Setups
    /\ status \in [Members -> {"down", "running", "dealt", "done"}]
    /\ drawn \in [Dealers -> Nat]
    /\ dealerFile \in [Dealers -> [seed : Nat, acks : SUBSET Players]]
    /\ playerFile \in [Players -> [Dealers -> Nat]]
    /\ held \in [Players -> [Dealers -> Nat]]
    /\ dealing \in [Dealers -> Nat]
    /\ acked \in [Dealers -> SUBSET Players]
    /\ replay \in [Dealers -> SUBSET Players]
    /\ localLog \in [Dealers -> SUBSET Logs]
    /\ candidates \subseteq Logs
    /\ finalized \in Seq(Logs)

(* The snapshot of player p has dealing s of dealer d. *)
Holds(p, d, s) == s \in Dealing /\ playerFile[p][d] = s

(* Every player that a log lists as acknowledged has its dealing. *)
LogKept(l) == \A p \in l.acks : Holds(p, l.dealer, l.dealing)

(* The same for the logs of dealers, of proposers and of the chain. *)
LogsKept ==
    /\ \A l \in candidates : LogKept(l)
    /\ \A d \in Dealers : \A l \in localLog[d] : LogKept(l)
    /\ \A i \in DOMAIN finalized : LogKept(finalized[i])

(* An acknowledgement on its way is of a dealing that its sender has on     *)
(* disk.                                                                    *)
MessageOK(m) ==
    \/ m.type = "bundle" /\ m.from \in Dealers /\ m.to \in Players /\ m.dealing \in Dealing
    \/ m.type = "ack" /\ m.from \in Players /\ m.to \in Dealers /\ Holds(m.from, m.to, m.dealing)

(* A dealer counts only such acknowledgements, on disk and in memory, and   *)
(* runs with the dealing of its snapshot.                                   *)
DealerOK(d) ==
    /\ \A p \in dealerFile[d].acks : Holds(p, d, dealerFile[d].seed)
    /\ \A p \in acked[d] : Holds(p, d, dealing[d])
    /\ status[d] = "running" => dealing[d] = dealerFile[d].seed /\ dealing[d] # 0

(* A running player holds exactly what is on its disk. *)
PlayerOK(p) == status[p] = "running" => held[p] = playerFile[p]

(* The inductive invariant of the snapshots. *)
FileInv ==
    /\ FileTyped /\ LogsKept
    /\ \A m \in msgs : MessageOK(m)
    /\ \A d \in Dealers : DealerOK(d)
    /\ \A p \in Players : PlayerOK(p)

(* A step that keeps every dealing that a player has accepted. *)
FilesGrow ==
    /\ playerFile' \in [Players -> [Dealers -> Nat]]
    /\ \A p \in Players : \A d \in Dealers :
         playerFile[p][d] # 0 => playerFile'[p][d] = playerFile[p][d]

-----------------------------------------------------------------------------
(* The invariant says what the checked property says. *)
LEMMA AcknowledgedFollows == FileInv => AcknowledgedDealingsDurable
BY DEF FileInv, LogsKept, LogKept, Holds, AcknowledgedDealingsDurable

(* Nothing is dealt at the start. *)
LEMMA FileInitInv == CeremonyInit => FileInv
<1> SUFFICES ASSUME CeremonyInit PROVE FileInv
  OBVIOUS
<1> USE DEF CeremonyInit
<1>1. FileTyped
  BY DEF FileTyped
<1>2. LogsKept /\ \A m \in msgs : MessageOK(m)
  BY DEF LogsKept
<1>3. \A d \in Dealers : DealerOK(d)
  BY DEF DealerOK, Members
<1>4. \A p \in Players : PlayerOK(p)
  BY DEF PlayerOK, Members
<1> QED
  BY <1>1, <1>2, <1>3, <1>4 DEF FileInv

(* What is said about accepted dealings survives a step that keeps them. *)
LEMMA GrowKeeps ==
    ASSUME FileInv, FilesGrow, UNCHANGED setup
    PROVE  /\ \A p \in Players : \A d \in Dealers : \A s : Holds(p, d, s) => Holds(p, d, s)'
           /\ \A l \in Logs : LogKept(l) => LogKept(l)'
           /\ \A m : MessageOK(m) => MessageOK(m)'
           /\ Logs' = Logs /\ Players' = Players /\ Dealers' = Dealers /\ Members' = Members
<1>1. Logs' = Logs /\ Players' = Players /\ Dealers' = Dealers /\ Members' = Members
  BY DEF Logs, Players, Dealers, Members
<1>2. \A p \in Players : \A d \in Dealers : \A s : Holds(p, d, s) => Holds(p, d, s)'
  BY DEF FilesGrow, Holds, Dealing
<1>3. ASSUME NEW l \in Logs, LogKept(l) PROVE LogKept(l)'
  <2>1. l.dealer \in Dealers /\ l.acks \subseteq Players
    BY DEF Logs
  <2> QED
    BY <1>2, <1>3, <2>1 DEF LogKept
<1>4. ASSUME NEW m, MessageOK(m) PROVE MessageOK(m)'
  BY <1>1, <1>2, <1>4 DEF MessageOK, Dealing
<1> QED
  BY <1>1, <1>2, <1>3, <1>4

(* The elements of a sequence with one appended. *)
LEMMA AppendFacts ==
    ASSUME NEW T, NEW s \in Seq(T), NEW e \in T
    PROVE  /\ Append(s, e) \in Seq(T) /\ Len(Append(s, e)) = Len(s) + 1
           /\ \A i \in DOMAIN Append(s, e) :
                Append(s, e)[i] = e \/ (i \in DOMAIN s /\ Append(s, e)[i] = s[i])
OBVIOUS

(* A step that leaves files and memory alone keeps the invariant if it      *)
(* sends only what the invariant allows and finalizes only a kept log.      *)
LEMMA QuietInv ==
    ASSUME FileInv, UNCHANGED <<setup, status, dealerVars, playerVars, localLog, candidates>>,
           \A m \in msgs' : MessageOK(m),
           finalized' = finalized \/ \E l \in Logs : LogKept(l) /\ finalized' = Append(finalized, l)
    PROVE  FileInv' /\ FilesGrow
<1>1. UNCHANGED <<setup, status, drawn, dealerFile, dealing, acked, replay, sealed, playerFile, held,
                  localLog, candidates>>
  BY DEF dealerVars, playerVars
<1>2. FilesGrow
  BY <1>1 DEF FilesGrow, FileInv, FileTyped
<1>3. /\ \A p \in Players : \A d \in Dealers : \A s : Holds(p, d, s) => Holds(p, d, s)'
      /\ \A l \in Logs : LogKept(l) => LogKept(l)'
      /\ \A m : MessageOK(m) => MessageOK(m)'
      /\ Logs' = Logs /\ Players' = Players /\ Dealers' = Dealers /\ Members' = Members
  BY <1>1, <1>2, GrowKeeps
<1>4. finalized' \in Seq(Logs) /\ \A i \in DOMAIN finalized' : \E l \in Logs : l = finalized'[i] /\ LogKept(l)
  <2>0. finalized \in Seq(Logs) /\ \A i \in DOMAIN finalized : finalized[i] \in Logs /\ LogKept(finalized[i])
    BY DEF FileInv, FileTyped, LogsKept
  <2>1. CASE finalized' = finalized
    BY <2>0, <2>1
  <2>2. ASSUME NEW l \in Logs, LogKept(l), finalized' = Append(finalized, l)
        PROVE  finalized' \in Seq(Logs) /\ \A i \in DOMAIN finalized' : \E k \in Logs : k = finalized'[i] /\ LogKept(k)
    <3>1. /\ Append(finalized, l) \in Seq(Logs)
          /\ \A i \in DOMAIN Append(finalized, l) :
               Append(finalized, l)[i] = l \/ (i \in DOMAIN finalized /\ Append(finalized, l)[i] = finalized[i])
      BY <2>0, AppendFacts
    <3> QED
      BY <3>1, <2>0, <2>2
  <2> QED
    BY <2>1, <2>2
<1>5. FileTyped'
  BY <1>1, <1>3, <1>4 DEF FileInv, FileTyped
<1>6. LogsKept'
  <2>1. \A i \in DOMAIN finalized' : \E l \in Logs : l = finalized'[i] /\ LogKept(l)'
    BY <1>3, <1>4
  <2>2. (\A i \in DOMAIN finalized : LogKept(finalized[i]))'
    BY <2>1 DEF LogKept, Holds
  <2>3. \A l \in candidates' : LogKept(l)'
    BY <1>1, <1>3 DEF FileInv, FileTyped, LogsKept
  <2>4. \A d \in Dealers' : \A l \in localLog'[d] : LogKept(l)'
    BY <1>1, <1>3 DEF FileInv, FileTyped, LogsKept
  <2> QED
    BY <2>2, <2>3, <2>4 DEF LogsKept
<1>7. \A m \in msgs' : MessageOK(m)'
  BY <1>3
<1>8. \A d \in Dealers' : DealerOK(d)'
  BY ZenonT(20), <1>1, <1>3 DEF FileInv, DealerOK, Holds
<1>9. \A p \in Players' : PlayerOK(p)'
  BY <1>1, <1>3 DEF FileInv, PlayerOK
<1> QED
  BY <1>2, <1>5, <1>6, <1>7, <1>8, <1>9 DEF FileInv

(* What reaches a receiver was sent. *)
LEMMA ReachPart == \A s, n : Reach(s, n) \subseteq s
BY DEF Reach

(* Delivery to managers, retries, finalization and losses keep the          *)
(* invariant.                                                               *)
LEMMA QuietSteps ==
    ASSUME FileInv, UNCHANGED setup,
           \/ \E n \in Members : DeliverFinalized(n)
           \/ \E d \in Dealers : RetryShares(d) \/ EmitOwnLog(d)
           \/ \E l \in candidates : FinalizeLog(l)
           \/ \E m \in msgs : LoseMessage(m)
    PROVE  FileInv' /\ FilesGrow
<1>1. CASE \E n \in Members : DeliverFinalized(n)
  BY <1>1, QuietInv DEF DeliverFinalized, gossipVars, FileInv
<1>2. ASSUME NEW d \in Dealers, RetryShares(d) PROVE FileInv' /\ FilesGrow
  <2>1. UNCHANGED <<status, dealerVars, playerVars, localLog, candidates, finalized>>
    BY <1>2 DEF RetryShares, gossipVars
  <2>2. dealing[d] \in Dealing /\ (Players \ acked[d]) \cup replay[d] \subseteq Players
    BY <1>2 DEF RetryShares, Listening, FileInv, FileTyped, DealerOK, Dealing
  <2>3. \A p \in Players : MessageOK(Bundle(d, p, dealing[d]))
    BY ZenonT(20), <2>2 DEF MessageOK, Bundle
  <2>4. msgs' \subseteq msgs \cup {Bundle(d, p, dealing[d]) : p \in (Players \ acked[d]) \cup replay[d]}
    BY <1>2, ReachPart DEF RetryShares
  <2>5. \A m \in msgs' : MessageOK(m)
    BY ZenonT(20), <2>2, <2>3, <2>4 DEF FileInv
  <2> QED
    BY ZenonT(20), <2>1, <2>5, QuietInv
<1>3. ASSUME NEW l \in Logs, LogKept(l), FinalizeLog(l) PROVE FileInv' /\ FilesGrow
  <2>1. UNCHANGED <<status, dealerVars, playerVars, localLog, candidates, msgs>>
    BY <1>3 DEF FinalizeLog, gossipVars
  <2> QED
    BY <2>1, <1>3, QuietInv DEF FinalizeLog, FileInv
<1>4. ASSUME NEW d \in Dealers, EmitOwnLog(d) PROVE FileInv' /\ FilesGrow
  <2>1. PICK l \in localLog[d] : FinalizeLog(l)
    BY <1>4 DEF EmitOwnLog
  <2>2. l \in Logs /\ LogKept(l)
    BY <2>1 DEF FileInv, FileTyped, LogsKept
  <2> QED
    BY <2>1, <2>2, <1>3
<1>5. ASSUME NEW l \in candidates, FinalizeLog(l) PROVE FileInv' /\ FilesGrow
  BY <1>3, <1>5 DEF FileInv, FileTyped, LogsKept
<1>6. CASE \E m \in msgs : LoseMessage(m)
  BY <1>6, QuietInv DEF LoseMessage, gossipVars, FileInv
<1> QED
  BY <1>1, <1>2, <1>4, <1>5, <1>6

(* The end of a ceremony task keeps the invariant: what it forgets is not   *)
(* promised to anyone.                                                      *)
LEMMA EndInv ==
    ASSUME FileInv, UNCHANGED <<setup, candidates, finalized>>, NEW n \in Members, EndProcess(n),
           NEW x \in {"down", "done"}, status' = [status EXCEPT ![n] = x]
    PROVE  FileInv' /\ FilesGrow
<1>1. /\ UNCHANGED <<drawn, dealerFile, playerFile>>
      /\ dealing' = [d \in Dealers |-> IF d = n THEN 0 ELSE dealing[d]]
      /\ acked' = [d \in Dealers |-> IF d = n THEN {} ELSE acked[d]]
      /\ replay' = [d \in Dealers |-> IF d = n THEN {} ELSE replay[d]]
      /\ localLog' = [d \in Dealers |-> IF d = n THEN {} ELSE localLog[d]]
      /\ held' = [p \in Players |-> IF p = n THEN [d \in Dealers |-> 0] ELSE held[p]]
      /\ msgs' \subseteq msgs
  BY DEF EndProcess, Without
<1>2. FilesGrow
  BY <1>1 DEF FilesGrow, FileInv, FileTyped
<1>3. /\ \A p \in Players : \A d \in Dealers : \A s : Holds(p, d, s) => Holds(p, d, s)'
      /\ \A l \in Logs : LogKept(l) => LogKept(l)'
      /\ \A m : MessageOK(m) => MessageOK(m)'
      /\ Logs' = Logs /\ Players' = Players /\ Dealers' = Dealers /\ Members' = Members
  BY <1>2, GrowKeeps
<1>4. FileTyped'
  BY <1>1, <1>3 DEF FileInv, FileTyped
<1>5. LogsKept'
  BY <1>1, <1>3 DEF FileInv, FileTyped, LogsKept
<1>6. \A m \in msgs' : MessageOK(m)'
  BY <1>1, <1>3 DEF FileInv
<1>7. \A d \in Dealers' : DealerOK(d)'
  <2> SUFFICES ASSUME NEW d \in Dealers PROVE DealerOK(d)'
    BY <1>3
  <2>1. DealerOK(d) /\ d \in Members /\ status' \in [Members -> {"down", "running", "dealt", "done"}]
    BY <1>3, <1>4 DEF FileInv, Members, FileTyped
  <2>2. \A p \in Players : \A s : Holds(p, d, s) <=> Holds(p, d, s)'
    BY <1>1 DEF Holds
  <2>3. dealerFile[d].acks \subseteq Players /\ acked[d] \subseteq Players
    BY ZenonT(20) DEF FileInv, FileTyped
  <2>4. CASE d = n
    BY ZenonT(20), <2>1, <2>2, <2>3, <2>4, <1>1 DEF DealerOK, FileInv, FileTyped, Holds
  <2>5. CASE d # n
    BY <2>1, <2>2, <2>3, <2>5, <1>1 DEF DealerOK, FileInv, FileTyped, Holds
  <2> QED
    BY <2>4, <2>5
<1>8. \A p \in Players' : PlayerOK(p)'
  BY <1>1, <1>3 DEF FileInv, FileTyped, PlayerOK, Members
<1> QED
  BY ZenonT(20), <1>2, <1>4, <1>5, <1>6, <1>7, <1>8 DEF FileInv

(* Completion, observation and interruption are such ends. *)
LEMMA EndSteps ==
    ASSUME FileInv, UNCHANGED setup, NEW n \in Members,
           CompleteCeremony(n) \/ ObserveOutput(n) \/ Interrupt(n)
    PROVE  FileInv' /\ FilesGrow
<1>1. CASE CompleteCeremony(n)
  <2>1. PICK x \in {"down", "done"} : status' = [status EXCEPT ![n] = x]
    BY ZenonT(20), <1>1 DEF CompleteCeremony
  <2> QED
    BY ZenonT(20), <2>1, <1>1, EndInv DEF CompleteCeremony
<1>2. CASE ObserveOutput(n)
  BY ZenonT(20), <1>2, EndInv DEF ObserveOutput
<1>3. CASE Interrupt(n)
  BY ZenonT(20), <1>3, EndInv DEF Interrupt
<1> QED
  BY <1>1, <1>2, <1>3

(* Sealing a log keeps the invariant: it lists the acknowledgements the     *)
(* dealer has counted.                                                      *)
LEMMA SealInv ==
    ASSUME FileInv, UNCHANGED setup, NEW d \in Dealers, SealLog(d)
    PROVE  FileInv' /\ FilesGrow
<1>1. PICK b \in BOOLEAN :
        /\ localLog' = [localLog EXCEPT ![d] = {[dealer |-> d, dealing |-> dealing[d], acks |-> acked[d], valid |-> b]}]
        /\ candidates' = candidates \cup {[dealer |-> d, dealing |-> dealing[d], acks |-> acked[d], valid |-> b]}
  BY ZenonT(20) DEF SealLog
<1> DEFINE l == [dealer |-> d, dealing |-> dealing[d], acks |-> acked[d], valid |-> b]
<1>2. /\ UNCHANGED <<drawn, dealerFile, dealing, acked, playerFile, held, finalized>>
      /\ status[d] = "running" /\ msgs' \subseteq msgs
      /\ replay' = [replay EXCEPT ![d] = {}]
      /\ status' = [status EXCEPT ![d] = IF d \in Players THEN @ ELSE "dealt"]
  BY ZenonT(20) DEF SealLog, Listening, playerVars, Without
<1>3. l \in Logs /\ LogKept(l)
  BY <1>2 DEF Logs, LogKept, FileInv, FileTyped, DealerOK
<1>4. FilesGrow
  BY <1>2 DEF FilesGrow, FileInv, FileTyped
<1>5. /\ \A p \in Players : \A e \in Dealers : \A s : Holds(p, e, s) => Holds(p, e, s)'
      /\ \A k \in Logs : LogKept(k) => LogKept(k)'
      /\ \A m : MessageOK(m) => MessageOK(m)'
      /\ Logs' = Logs /\ Players' = Players /\ Dealers' = Dealers /\ Members' = Members
  BY <1>4, GrowKeeps
<1>6. PICK k \in Logs : k = l
  BY ZenonT(20), <1>3
<1>7. LogKept(k)' /\ localLog' = [localLog EXCEPT ![d] = {k}] /\ candidates' = candidates \cup {k}
  BY <1>1, <1>3, <1>5, <1>6
<1>8. FileTyped'
  BY ZenonT(20), <1>2, <1>5, <1>7 DEF FileInv, FileTyped, Members
<1>9. LogsKept'
  <2>1. \A c \in candidates' : LogKept(c)'
    BY ZenonT(20), <1>5, <1>7 DEF FileInv, FileTyped, LogsKept
  <2>2. \A e \in Dealers : \A c \in localLog'[e] : LogKept(c)'
    BY ZenonT(20), <1>5, <1>7 DEF FileInv, FileTyped, LogsKept
  <2>3. (\A i \in DOMAIN finalized : LogKept(finalized[i]))'
    BY <1>2, <1>5 DEF FileInv, FileTyped, LogsKept
  <2> QED
    BY ZenonT(20), <2>1, <2>2, <2>3, <1>5 DEF LogsKept
<1>10. \A m \in msgs' : MessageOK(m)'
  BY ZenonT(20), <1>2, <1>5 DEF FileInv
<1>11. \A e \in Dealers' : DealerOK(e)'
  <2> SUFFICES ASSUME NEW e \in Dealers PROVE DealerOK(e)'
    BY <1>5
  <2>1. DealerOK(e) /\ e \in Members
    BY DEF FileInv, Members
  <2>2. status'[e] = "running" => status[e] = "running"
    BY ZenonT(20), <1>2, <2>1 DEF FileInv, FileTyped
  <2> QED
    BY <2>1, <2>2, <1>2, <1>5 DEF DealerOK, Holds
<1>12. \A p \in Players' : PlayerOK(p)'
  BY <1>2, <1>5 DEF FileInv, FileTyped, PlayerOK, Members
<1> QED
  BY <1>4, <1>8, <1>9, <1>10, <1>11, <1>12 DEF FileInv

(* One cell of a table of dealings is updated. *)
LEMMA CellUpdate ==
    ASSUME NEW A, NEW B, NEW F \in [A -> [B -> Nat]], NEW a \in A, NEW b \in B, NEW v \in Nat, NEW G,
           G = [F EXCEPT ![a] = [F[a] EXCEPT ![b] = v]]
    PROVE  /\ G \in [A -> [B -> Nat]] /\ G[a] = [F[a] EXCEPT ![b] = v] /\ G[a][b] = v
           /\ \A x \in A : x # a => G[x] = F[x]
           /\ \A y \in B : y # b => G[a][y] = F[a][y]
OBVIOUS

(* Receiving an acknowledgement keeps the invariant. *)
LEMMA AckInv ==
    ASSUME FileInv, UNCHANGED setup, NEW m \in msgs, ReceiveAck(m)
    PROVE  FileInv' /\ FilesGrow
<1> DEFINE d == m.to
<1>1. /\ m.type = "ack" /\ status[d] = "running" /\ msgs' \subseteq msgs
      /\ UNCHANGED <<status, drawn, dealing, playerFile, held, localLog, candidates, finalized>>
  BY ZenonT(20) DEF ReceiveAck, Listening, playerVars, gossipVars
<1>2. m.from \in Players /\ d \in Dealers /\ Holds(m.from, d, m.dealing)
  BY <1>1 DEF FileInv, MessageOK
<1>3. PICK acks :
        /\ acked' = [acked EXCEPT ![d] = acks]
        /\ \/ acks = acked[d] /\ dealerFile' = [dealerFile EXCEPT ![d].acks = @]
           \/ /\ acks = acked[d] \cup {m.from} /\ m.dealing = dealing[d]
              /\ dealerFile' = [dealerFile EXCEPT ![d].acks = acks]
  BY ZenonT(20) DEF ReceiveAck
<1>4. replay' \in [Dealers -> SUBSET Players]
  BY <1>2 DEF ReceiveAck, FileInv, FileTyped
<1>5. FilesGrow
  BY <1>1 DEF FilesGrow, FileInv, FileTyped
<1>6. /\ \A p \in Players : \A e \in Dealers : \A s : Holds(p, e, s) => Holds(p, e, s)'
      /\ \A k \in Logs : LogKept(k) => LogKept(k)'
      /\ \A k : MessageOK(k) => MessageOK(k)'
      /\ Logs' = Logs /\ Players' = Players /\ Dealers' = Dealers /\ Members' = Members
  BY <1>5, GrowKeeps
<1>7. acks \subseteq Players /\ \A p \in acks : Holds(p, d, dealing[d])
  BY ZenonT(20), <1>2, <1>3 DEF FileInv, FileTyped, DealerOK
<1>8. dealing[d] = dealerFile[d].seed /\ dealing[d] # 0
  BY <1>1, <1>2 DEF FileInv, DealerOK
<1>9. /\ dealerFile' \in [Dealers -> [seed : Nat, acks : SUBSET Players]]
      /\ \A e \in Dealers : dealerFile'[e].seed = dealerFile[e].seed
      /\ \A e \in Dealers : e # d => dealerFile'[e].acks = dealerFile[e].acks
      /\ dealerFile'[d].acks = dealerFile[d].acks \/ dealerFile'[d].acks = acks
  <2>1. dealerFile \in [Dealers -> [seed : Nat, acks : SUBSET Players]]
    BY DEF FileInv, FileTyped
  <2>2. PICK a \in SUBSET Players : /\ dealerFile' = [dealerFile EXCEPT ![d].acks = a]
                                    /\ a = dealerFile[d].acks \/ a = acks
    BY ZenonT(20), <2>1, <1>2, <1>3, <1>7
  <2> HIDE DEF d
  <2> QED
    BY <2>1, <2>2, <1>2
<1>10. FileTyped'
  BY ZenonT(20), <1>1, <1>2, <1>3, <1>4, <1>6, <1>7, <1>9 DEF FileInv, FileTyped
<1>11. LogsKept'
  BY <1>1, <1>6 DEF FileInv, FileTyped, LogsKept
<1>12. \A k \in msgs' : MessageOK(k)'
  BY ZenonT(20), <1>1, <1>6 DEF FileInv
<1>13. \A e \in Dealers' : DealerOK(e)'
  <2> SUFFICES ASSUME NEW e \in Dealers PROVE DealerOK(e)'
    BY <1>6
  <2>1. DealerOK(e)
    BY ZenonT(20) DEF FileInv
  <2>2. \A p \in dealerFile'[e].acks : Holds(p, e, dealerFile'[e].seed)
    BY <2>1, <1>7, <1>8, <1>9 DEF DealerOK
  <2>3. \A p \in acked'[e] : Holds(p, e, dealing[e])
    BY <2>1, <1>2, <1>3, <1>7 DEF DealerOK, FileInv, FileTyped
  <2>4. status'[e] = "running" => dealing'[e] = dealerFile'[e].seed /\ dealing'[e] # 0
    BY ZenonT(20), <2>1, <1>1, <1>9 DEF DealerOK
  <2> QED
    BY <2>2, <2>3, <2>4, <1>1, <1>9 DEF DealerOK, Holds
<1>14. \A p \in Players' : PlayerOK(p)'
  BY ZenonT(20), <1>1, <1>6 DEF FileInv, PlayerOK
<1> QED
  BY <1>5, <1>10, <1>11, <1>12, <1>13, <1>14 DEF FileInv

(* Receiving a dealing keeps the invariant: handle_player_bundle saves it   *)
(* before it acknowledges it, and never accepts a second one.               *)
LEMMA BundleInv ==
    ASSUME FileInv, UNCHANGED setup, NEW m \in msgs, ReceiveBundle(m)
    PROVE  FileInv' /\ FilesGrow
<1> DEFINE p == m.to
           d == m.from
<1>1. /\ m.type = "bundle" /\ status[p] = "running"
      /\ UNCHANGED <<status, drawn, dealerFile, dealing, acked, replay, localLog, candidates, finalized>>
  BY ZenonT(20) DEF ReceiveBundle, Listening, dealerVars, gossipVars
<1>2. p \in Players /\ d \in Dealers /\ m.dealing \in Dealing
  BY ZenonT(20), <1>1 DEF FileInv, MessageOK
<1>3. held[p] = playerFile[p] /\ playerFile[p] \in [Dealers -> Nat] /\ p \in Members
  BY ZenonT(20), <1>1, <1>2 DEF FileInv, PlayerOK, FileTyped, Members
<1>4. \/ playerFile[p][d] = 0 /\ held' = [held EXCEPT ![p] = [held[p] EXCEPT ![d] = m.dealing]]
            /\ playerFile' = [playerFile EXCEPT ![p] = [playerFile[p] EXCEPT ![d] = m.dealing]]
      \/ playerFile[p][d] # 0 /\ UNCHANGED <<held, playerFile>>
  <2>1. CASE held[p][d] = 0 /\ Accept(m)
    <3>1. held' = [held EXCEPT ![p] = [held[p] EXCEPT ![d] = m.dealing]]
      BY <2>1, <1>2 DEF Accept, FileInv, FileTyped
    <3>2. held'[p] = [held[p] EXCEPT ![d] = m.dealing]
      BY ZenonT(20), <3>1, <1>2 DEF FileInv, FileTyped
    <3> QED
      BY ZenonT(20), <2>1, <3>1, <3>2, <1>3 DEF Accept
  <2> QED
    BY <2>1, <1>3 DEF ReceiveBundle, playerVars
<1>5. FilesGrow /\ held' \in [Players -> [Dealers -> Nat]]
  <2>1. playerFile \in [Players -> [Dealers -> Nat]] /\ held \in [Players -> [Dealers -> Nat]] /\ m.dealing \in Nat
    BY <1>2 DEF FileInv, FileTyped, Dealing
  <2> HIDE DEF p, d
  <2>2. CASE playerFile[p][d] # 0 /\ UNCHANGED <<held, playerFile>>
    BY ZenonT(20), <2>1, <2>2 DEF FilesGrow
  <2>3. CASE /\ playerFile[p][d] = 0 /\ held' = [held EXCEPT ![p] = [held[p] EXCEPT ![d] = m.dealing]]
             /\ playerFile' = [playerFile EXCEPT ![p] = [playerFile[p] EXCEPT ![d] = m.dealing]]
    <3>1. /\ playerFile' \in [Players -> [Dealers -> Nat]]
          /\ \A x \in Players : x # p => playerFile'[x] = playerFile[x]
          /\ \A y \in Dealers : y # d => playerFile'[p][y] = playerFile[p][y]
      BY <2>1, <2>3, <1>2, CellUpdate
    <3>2. held' \in [Players -> [Dealers -> Nat]]
      BY ZenonT(20), <2>1, <2>3, <1>2, CellUpdate
    <3>3. \A x \in Players : \A y \in Dealers : playerFile[x][y] # 0 => playerFile'[x][y] = playerFile[x][y]
      BY ZenonT(20), <3>1, <2>3
    <3> QED
      BY ZenonT(20), <3>1, <3>2, <3>3 DEF FilesGrow
  <2> QED
    BY <2>2, <2>3, <1>4
<1>6. /\ \A q \in Players : \A e \in Dealers : \A s : Holds(q, e, s) => Holds(q, e, s)'
      /\ \A k \in Logs : LogKept(k) => LogKept(k)'
      /\ \A k : MessageOK(k) => MessageOK(k)'
      /\ Logs' = Logs /\ Players' = Players /\ Dealers' = Dealers /\ Members' = Members
  BY ZenonT(20), <1>5, GrowKeeps
<1>7. FileTyped'
  BY ZenonT(20), <1>1, <1>5, <1>6 DEF FileInv, FileTyped, FilesGrow
<1>8. LogsKept'
  BY <1>1, <1>6 DEF FileInv, FileTyped, LogsKept
<1>9. \A k \in msgs' : MessageOK(k)'
  <2>1. \/ msgs' \subseteq msgs
        \/ msgs' \subseteq msgs \cup {Ack(p, d, m.dealing)} /\ held[p][d] \in {0, m.dealing}
    BY ReachPart DEF ReceiveBundle
  <2>2. held[p][d] \in {0, m.dealing} => playerFile'[p][d] = m.dealing
    <3>1. playerFile \in [Players -> [Dealers -> Nat]] /\ m.dealing \in Nat
      BY ZenonT(20), <1>2 DEF FileInv, FileTyped, Dealing
    <3> HIDE DEF p, d
    <3>2. playerFile[p][d] = 0 => playerFile'[p][d] = m.dealing
      BY <3>1, <1>2, <1>4, CellUpdate
    <3>3. playerFile[p][d] # 0 => playerFile'[p][d] = playerFile[p][d]
      BY <1>4
    <3> QED
      BY <3>2, <3>3, <1>3
  <2>3. PICK a : a = Ack(p, d, m.dealing)
    OBVIOUS
  <2>4. held[p][d] \in {0, m.dealing} => MessageOK(a)'
    BY ZenonT(20), <2>2, <2>3, <1>2, <1>6 DEF MessageOK, Ack, Holds, Dealing
  <2> QED
    BY ZenonT(20), <2>1, <2>3, <2>4, <1>6 DEF FileInv
<1>10. \A e \in Dealers' : DealerOK(e)'
  <2> SUFFICES ASSUME NEW e \in Dealers PROVE DealerOK(e)'
    BY <1>6
  <2>1. DealerOK(e) /\ dealerFile[e].acks \subseteq Players /\ acked[e] \subseteq Players
    BY ZenonT(20) DEF FileInv, FileTyped
  <2>2. \A q \in Players : \A s \in Nat : Holds(q, e, s) => (s \in Dealing /\ playerFile'[q][e] = s)
    BY ZenonT(20), <1>6 DEF Holds, Dealing
  <2>3. \A q \in dealerFile[e].acks : dealerFile[e].seed \in Dealing /\ playerFile'[q][e] = dealerFile[e].seed
    BY <2>1, <2>2 DEF DealerOK, Holds, Dealing
  <2>4. \A q \in acked[e] : dealing[e] \in Dealing /\ playerFile'[q][e] = dealing[e]
    BY ZenonT(20), <2>1, <2>2 DEF DealerOK, Holds, Dealing
  <2> QED
    BY <2>1, <2>3, <2>4, <1>1 DEF DealerOK, Holds, Dealing
<1>11. \A q \in Players' : PlayerOK(q)'
  <2> SUFFICES ASSUME NEW q \in Players PROVE PlayerOK(q)'
    BY <1>6
  <2>1. PlayerOK(q)
    BY DEF FileInv
  <2>2. \/ held'[q] = held[q] /\ playerFile'[q] = playerFile[q]
        \/ q = p /\ held'[p] = playerFile'[p]
    <3>1. /\ playerFile \in [Players -> [Dealers -> Nat]] /\ held \in [Players -> [Dealers -> Nat]]
          /\ m.dealing \in Nat
      BY ZenonT(20), <1>2 DEF FileInv, FileTyped, Dealing
    <3> HIDE DEF p, d
    <3>2. ASSUME playerFile[p][d] = 0
          PROVE  /\ playerFile'[p] = [playerFile[p] EXCEPT ![d] = m.dealing]
                 /\ held'[p] = [held[p] EXCEPT ![d] = m.dealing]
                 /\ q # p => held'[q] = held[q] /\ playerFile'[q] = playerFile[q]
      <4>1. /\ held' = [held EXCEPT ![p] = [held[p] EXCEPT ![d] = m.dealing]]
            /\ playerFile' = [playerFile EXCEPT ![p] = [playerFile[p] EXCEPT ![d] = m.dealing]]
        BY <3>2, <1>4
      <4>2. playerFile'[p] = [playerFile[p] EXCEPT ![d] = m.dealing] /\ (q # p => playerFile'[q] = playerFile[q])
        BY ZenonT(20), <4>1, <3>1, <1>2, CellUpdate
      <4>3. held'[p] = [held[p] EXCEPT ![d] = m.dealing] /\ (q # p => held'[q] = held[q])
        BY ZenonT(20), <4>1, <3>1, <1>2, CellUpdate
      <4> QED
        BY <4>2, <4>3
    <3> QED
      BY ZenonT(20), <3>2, <1>3, <1>4
  <2> QED
    BY <2>1, <2>2, <1>1 DEF PlayerOK
<1> QED
  BY ZenonT(20), <1>5, <1>7, <1>8, <1>9, <1>10, <1>11 DEF FileInv

(* A start from disk keeps the invariant: the seed that is loaded is the    *)
(* one that was acknowledged.                                               *)
LEMMA StartInv ==
    ASSUME FileInv, UNCHANGED setup, NEW n \in Members, StartCeremony(n)
    PROVE  FileInv' /\ FilesGrow
<1> DEFINE sd == SeedOf(n)
<1>1. /\ UNCHANGED <<localLog, candidates, finalized>>
      /\ status' = [status EXCEPT ![n] = "running"]
      /\ n \in Dealers => StartDealer(n)
      /\ n \notin Dealers => UNCHANGED <<drawn, dealerFile, dealing, acked, replay, msgs>>
      /\ n \in Players => StartPlayer(n)
      /\ n \notin Players => UNCHANGED <<playerFile, held>>
  BY ZenonT(20) DEF StartCeremony, gossipVars, dealerVars, playerVars
<1>2. /\ playerFile \in [Players -> [Dealers -> Nat]] /\ held \in [Players -> [Dealers -> Nat]]
      /\ dealerFile \in [Dealers -> [seed : Nat, acks : SUBSET Players]]
      /\ drawn \in [Dealers -> Nat] /\ dealing \in [Dealers -> Nat]
      /\ acked \in [Dealers -> SUBSET Players] /\ replay \in [Dealers -> SUBSET Players]
  BY ZenonT(20) DEF FileInv, FileTyped
<1>3. n \in Dealers => sd \in Dealing /\ (dealerFile[n].seed # 0 => sd = dealerFile[n].seed)
  BY <1>2 DEF SeedOf, Dealing
<1>4. n \in Players /\ n \in Dealers /\ SelfDealt(n) =>
        /\ playerFile' = [playerFile EXCEPT ![n] = [playerFile[n] EXCEPT ![n] = sd]]
        /\ held' = [held EXCEPT ![n] = [playerFile[n] EXCEPT ![n] = sd]]
        /\ playerFile[n][n] \in {0, sd}
  BY <1>1 DEF StartPlayer, SelfDealt
<1>5. n \in Players /\ ~(n \in Dealers /\ SelfDealt(n)) =>
        playerFile' = playerFile /\ held' = [held EXCEPT ![n] = playerFile[n]]
  BY ZenonT(20), <1>1, <1>2 DEF StartPlayer
<1> HIDE DEF sd
<1>6. /\ FilesGrow /\ held' \in [Players -> [Dealers -> Nat]]
      /\ n \in Players => held'[n] = playerFile'[n]
      /\ \A p \in Players : p # n => held'[p] = held[p] /\ playerFile'[p] = playerFile[p]
      /\ n \in Players /\ n \in Dealers /\ SelfDealt(n) => playerFile'[n][n] = sd
  <2>1. CASE n \notin Players
    BY ZenonT(20), <2>1, <1>1, <1>2 DEF FilesGrow
  <2>2. CASE n \in Players /\ n \in Dealers /\ SelfDealt(n)
    <3>0. sd \in Nat
      BY ZenonT(20), <2>2, <1>3 DEF Dealing
    <3>1. /\ playerFile' \in [Players -> [Dealers -> Nat]]
          /\ playerFile'[n] = [playerFile[n] EXCEPT ![n] = sd] /\ playerFile'[n][n] = sd
          /\ \A x \in Players : x # n => playerFile'[x] = playerFile[x]
          /\ \A y \in Dealers : y # n => playerFile'[n][y] = playerFile[n][y]
      <4>1. playerFile' = [playerFile EXCEPT ![n] = [playerFile[n] EXCEPT ![n] = sd]]
        BY <2>2, <1>4
      <4>2. playerFile \in [Players -> [Dealers -> Nat]] /\ n \in Players /\ n \in Dealers
        BY ZenonT(20), <2>2, <1>2
      <4> QED
        BY <4>1, <4>2, <3>0, CellUpdate
    <3>2. /\ held' \in [Players -> [Dealers -> Nat]] /\ held'[n] = playerFile'[n]
          /\ \A x \in Players : x # n => held'[x] = held[x]
      <4>1. playerFile'[n] \in [Dealers -> Nat] /\ held' = [held EXCEPT ![n] = playerFile'[n]]
        BY ZenonT(20), <3>1, <2>2, <1>4
      <4> QED
        BY <4>1, <1>2, <2>2
    <3>3. \A x \in Players : \A y \in Dealers : playerFile[x][y] # 0 => playerFile'[x][y] = playerFile[x][y]
      BY ZenonT(20), <3>1, <2>2, <1>4
    <3> QED
      BY ZenonT(20), <3>1, <3>2, <3>3 DEF FilesGrow
  <2>3. CASE n \in Players /\ ~(n \in Dealers /\ SelfDealt(n))
    <3>1. playerFile' = playerFile /\ held' = [held EXCEPT ![n] = playerFile[n]] /\ playerFile[n] \in [Dealers -> Nat]
      BY ZenonT(20), <2>3, <1>2, <1>5
    <3>2. FilesGrow
      BY <3>1, <1>2 DEF FilesGrow
    <3>3. held' \in [Players -> [Dealers -> Nat]] /\ held'[n] = playerFile[n]
          /\ \A p \in Players : p # n => held'[p] = held[p]
      BY ZenonT(20), <3>1, <2>3, <1>2
    <3> QED
      BY ZenonT(20), <3>1, <3>2, <3>3, <2>3
  <2> QED
    BY <2>1, <2>2, <2>3
<1>7. /\ \A q \in Players : \A e \in Dealers : \A s : Holds(q, e, s) => Holds(q, e, s)'
      /\ \A k \in Logs : LogKept(k) => LogKept(k)'
      /\ \A k : MessageOK(k) => MessageOK(k)'
      /\ Logs' = Logs /\ Players' = Players /\ Dealers' = Dealers /\ Members' = Members
  BY <1>6, GrowKeeps
<1>8. ASSUME n \in Dealers
      PROVE  \E acks \in SUBSET Players :
               /\ dealerFile' = [dealerFile EXCEPT ![n] = [seed |-> sd, acks |-> acks]]
               /\ acked' = [acked EXCEPT ![n] = acks]
               /\ \A p \in acks : p \in dealerFile[n].acks \/ (p = n /\ n \in Players /\ SelfDealt(n))
               /\ dealing' = [dealing EXCEPT ![n] = sd]
               /\ replay' = [replay EXCEPT ![n] = dealerFile[n].acks \ {n}]
               /\ drawn' = [drawn EXCEPT ![n] = IF sd > @ THEN sd ELSE @]
               /\ msgs' \subseteq msgs \cup {Bundle(n, p, sd) : p \in Players \ {n}}
  <2>1. StartDealer(n)
    BY <1>1, <1>8
  <2>2. SelfDealt(n) => n \in Players
    BY DEF SelfDealt
  <2> DEFINE acks == dealerFile[n].acks \cup (IF SelfDealt(n) THEN {n} ELSE {})
  <2>3. acks \in SUBSET Players
    BY ZenonT(20), <2>2, <1>2, <1>8
  <2>4. /\ dealerFile' = [dealerFile EXCEPT ![n] = [seed |-> sd, acks |-> acks]]
        /\ acked' = [acked EXCEPT ![n] = acks]
        /\ dealing' = [dealing EXCEPT ![n] = sd]
        /\ replay' = [replay EXCEPT ![n] = dealerFile[n].acks \ {n}]
        /\ drawn' = [drawn EXCEPT ![n] = IF sd > @ THEN sd ELSE @]
    BY <2>1 DEF StartDealer, sd
  <2>5. msgs' \subseteq msgs \cup {Bundle(n, p, sd) : p \in Players \ {n}}
    BY ZenonT(20), <2>1, ReachPart DEF StartDealer, sd
  <2>6. \A p \in acks : p \in dealerFile[n].acks \/ (p = n /\ n \in Players /\ SelfDealt(n))
    BY <2>2
  <2> QED
    BY ZenonT(20), <2>3, <2>4, <2>5, <2>6
<1>9. FileTyped'
  <2>1. status' \in [Members -> {"down", "running", "dealt", "done"}]
    BY <1>1 DEF FileInv, FileTyped
  <2>2. /\ drawn' \in [Dealers -> Nat] /\ dealing' \in [Dealers -> Nat]
        /\ dealerFile' \in [Dealers -> [seed : Nat, acks : SUBSET Players]]
        /\ acked' \in [Dealers -> SUBSET Players] /\ replay' \in [Dealers -> SUBSET Players]
    <3>1. CASE n \notin Dealers
      BY <3>1, <1>1, <1>2
    <3>2. CASE n \in Dealers
      <4>1. PICK acks \in SUBSET Players :
               /\ dealerFile' = [dealerFile EXCEPT ![n] = [seed |-> sd, acks |-> acks]]
               /\ acked' = [acked EXCEPT ![n] = acks]
               /\ dealing' = [dealing EXCEPT ![n] = sd]
               /\ replay' = [replay EXCEPT ![n] = dealerFile[n].acks \ {n}]
               /\ drawn' = [drawn EXCEPT ![n] = IF sd > @ THEN sd ELSE @]
        BY ZenonT(20), <3>2, <1>8
      <4>2. sd \in Nat
        BY <3>2, <1>3 DEF Dealing
      <4>3. [seed |-> sd, acks |-> acks] \in [seed : Nat, acks : SUBSET Players]
        BY <4>2
      <4>4. dealerFile' \in [Dealers -> [seed : Nat, acks : SUBSET Players]]
        BY ZenonT(20), <4>1, <4>3, <1>2
      <4>5. drawn' \in [Dealers -> Nat] /\ dealing' \in [Dealers -> Nat]
        BY ZenonT(20), <4>1, <4>2, <1>2
      <4>6. acked' \in [Dealers -> SUBSET Players] /\ replay' \in [Dealers -> SUBSET Players]
        BY ZenonT(20), <4>1, <1>2, <3>2
      <4> QED
        BY ZenonT(20), <4>4, <4>5, <4>6
    <3> QED
      BY ZenonT(20), <3>1, <3>2
  <2> QED
    BY ZenonT(20), <2>1, <2>2, <1>1, <1>6, <1>7 DEF FileInv, FileTyped, FilesGrow
<1>10. LogsKept'
  BY <1>1, <1>7 DEF FileInv, FileTyped, LogsKept
<1>11. \A k \in msgs' : MessageOK(k)'
  <2>1. CASE n \notin Dealers
    BY <2>1, <1>1, <1>7 DEF FileInv
  <2>2. CASE n \in Dealers
    <3>1. \A p \in Players : MessageOK(Bundle(n, p, sd))
      BY <2>2, <1>3 DEF MessageOK, Bundle
    <3>2. \A k \in msgs' : MessageOK(k)
      BY <2>2, <3>1, <1>8 DEF FileInv
    <3> QED
      BY ZenonT(20), <3>2, <1>7
  <2> QED
    BY ZenonT(20), <2>1, <2>2
<1>12. \A e \in Dealers' : DealerOK(e)'
  <2> SUFFICES ASSUME NEW e \in Dealers PROVE DealerOK(e)'
    BY <1>7
  <2>0. DealerOK(e) /\ dealerFile[e].acks \subseteq Players /\ acked[e] \subseteq Players /\ e \in Members
    BY ZenonT(20), <1>2 DEF FileInv, Members
  <2>h. /\ \A q \in dealerFile[e].acks : dealerFile[e].seed \in Dealing /\ playerFile'[q][e] = dealerFile[e].seed
        /\ \A q \in acked[e] : dealing[e] \in Dealing /\ playerFile'[q][e] = dealing[e]
    BY ZenonT(30), <2>0, <1>6 DEF DealerOK, Holds, Dealing, FilesGrow
  <2>1. CASE e # n \/ n \notin Dealers
    <3>1. dealerFile'[e] = dealerFile[e] /\ acked'[e] = acked[e] /\ dealing'[e] = dealing[e]
      BY <2>1, <1>1, <1>2, <1>8
    <3>2. status'[e] = "running" => status[e] = "running"
      BY ZenonT(20), <2>0, <2>1, <1>1 DEF FileInv, FileTyped
    <3> QED
      BY ZenonT(30), <3>1, <3>2, <2>0, <2>h DEF DealerOK, Holds
  <2>2. CASE e = n /\ n \in Dealers
    <3>1. PICK acks \in SUBSET Players :
             /\ dealerFile' = [dealerFile EXCEPT ![n] = [seed |-> sd, acks |-> acks]]
             /\ acked' = [acked EXCEPT ![n] = acks]
             /\ \A p \in acks : p \in dealerFile[n].acks \/ (p = n /\ n \in Players /\ SelfDealt(n))
             /\ dealing' = [dealing EXCEPT ![n] = sd]
      BY ZenonT(20), <2>2, <1>8
    <3>2. dealerFile'[n].seed = sd /\ dealerFile'[n].acks = acks /\ acked'[n] = acks /\ dealing'[n] = sd
      BY ZenonT(20), <3>1, <2>2, <1>2
    <3>3. \A p \in acks : playerFile'[p][n] = sd
      BY <3>1, <2>2, <2>h, <1>3, <1>6 DEF Dealing
    <3>4. sd \in Dealing
      BY ZenonT(20), <2>2, <1>3
    <3> QED
      BY ZenonT(20), <3>2, <3>3, <3>4, <2>2 DEF DealerOK, Holds, Dealing
  <2> QED
    BY <2>1, <2>2
<1>13. \A q \in Players' : PlayerOK(q)'
  <2> SUFFICES ASSUME NEW q \in Players PROVE PlayerOK(q)'
    BY <1>7
  <2>1. PlayerOK(q) /\ q \in Members
    BY ZenonT(20) DEF FileInv, Members
  <2>2. q # n => (status'[q] = "running" => status[q] = "running")
    BY <2>1, <1>1 DEF FileInv, FileTyped
  <2> QED
    BY <2>1, <2>2, <1>6 DEF PlayerOK
<1> QED
  BY <1>6, <1>9, <1>10, <1>11, <1>12, <1>13 DEF FileInv

(* Every step keeps the invariant and every accepted dealing. *)
LEMMA FileStepInv == FileInv /\ [CeremonyNext]_ceremonyVars => FileInv' /\ FilesGrow
<1> SUFFICES ASSUME FileInv, [CeremonyNext]_ceremonyVars PROVE FileInv' /\ FilesGrow
  BY ZenonT(20)
<1>1. CASE UNCHANGED ceremonyVars
  BY <1>1, QuietInv DEF ceremonyVars, gossipVars, FileInv
<1>2. ASSUME NEW n \in Nodes, Progress(n) PROVE FileInv' /\ FilesGrow
  BY <1>2, StartInv, QuietSteps, EndSteps, SealInv DEF Progress
<1>3. ASSUME NEW n \in Nodes, Retry(n) PROVE FileInv' /\ FilesGrow
  BY <1>3, QuietSteps DEF Retry
<1>4. ASSUME NEW n \in Nodes, ReceiveBundleFrom(n) \/ ReceiveAckFrom(n) PROVE FileInv' /\ FilesGrow
  BY <1>4, BundleInv, AckInv DEF ReceiveBundleFrom, ReceiveAckFrom
<1>5. CASE (\E log \in candidates : FinalizeLog(log)) /\ UNCHANGED setup
  BY <1>5, QuietSteps
<1>6. CASE (\E n \in Members : Interrupt(n)) /\ UNCHANGED setup
  BY <1>6, EndSteps
<1>7. CASE (\E m \in msgs : LoseMessage(m)) /\ UNCHANGED setup
  BY <1>7, QuietSteps
<1> QED
  BY <1>1, <1>2, <1>3, <1>4, <1>5, <1>6, <1>7 DEF CeremonyNext

(* Snapshots, messages, acknowledgements and logs agree about the dealings  *)
(* that players have, through crashes, timeouts, retries and lost messages. *)
THEOREM FilesHold == CeremonySpec => []FileInv
BY FileInitInv, FileStepInv, PTL DEF CeremonySpec

(* An accepted dealing is never replaced or lost. *)
DealingsKept ==
    [][\A p \in Players : \A d \in Dealers :
         playerFile[p][d] # 0 => playerFile'[p][d] = playerFile[p][d]]_ceremonyVars

(* The snapshot of a player (DkgRetryStore) never loses or replaces a       *)
(* dealing once handle_player_bundle has accepted it, whatever the dealer   *)
(* sends after a restart.                                                   *)
THEOREM DealingsNeverReplaced == CeremonySpec => DealingsKept
<1>1. FilesGrow => \A p \in Players : \A d \in Dealers :
                     playerFile[p][d] # 0 => playerFile'[p][d] = playerFile[p][d]
  BY DEF FilesGrow
<1> QED
  BY <1>1, FilesHold, FileStepInv, PTL DEF CeremonySpec, DealingsKept

(* A player that a finalized log lists as acknowledged has exactly that     *)
(* dealing in its snapshot (consensus/src/dkg_actor): handle_player_bundle  *)
(* saves before it acknowledges, and a dealer that restarts deals from the  *)
(* same seed.                                                               *)
THEOREM AcknowledgedHolds == CeremonySpec => []AcknowledgedDealingsDurable
BY FilesHold, AcknowledgedFollows, PTL
=============================================================================
