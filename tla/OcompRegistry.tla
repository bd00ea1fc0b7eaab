---------------------------- MODULE OcompRegistry ----------------------------
(***************************************************************************)
(* The registry of off-chain-computation protocol bundles                     *)
(* (crates/system/ocompregistry). One bundle is active. An approved update     *)
(* stages its successor; at the activation height the successor is promoted    *)
(* and the old bundle retires: it stays available to the computations          *)
(* ("lineages") that were pinned to it, and for a retention period after the   *)
(* last of them has ended.                                                     *)
(*                                                                         *)
(* A bundle is a name; Parent[b] is the bundle its predecessor hash points to. *)
(* An error of this module is always fatal for the block.                      *)
(***************************************************************************)
EXTENDS Integers, FiniteSets

CONSTANTS
  Releases,   \* names of protocol bundles and of enclave policies
  Parent,     \* the predecessor a release names, itself for the first one
  Genesis,    \* the release active at genesis
  Lineages,   \* identities of off-chain computations
  Retention,  \* source_retention_after_terminal_blocks
  None

ASSUME RegistryAssumption ==
  /\ Genesis \in Releases
  /\ Parent \in [Releases -> Releases]
  /\ \A r \in Releases \ {Genesis} : Parent[r] # r
  /\ None \notin Releases
  /\ Retention \in Nat \ {0}

VARIABLES
  bundle,     \* active_protocol_bundle_hash
  retiring,   \* retiring_authority, or None
  successor,  \* staged_successor and its proposal, or None
  lineage,    \* lineage_bundle, None where absent
  live,       \* live_lineage_count
  until       \* retention_until, 0 where absent

registryVars == <<bundle, retiring, successor, lineage, live, until>>

RegistryTypeOK ==
  /\ bundle \in Releases
  /\ retiring \in Releases \cup {None}
  /\ successor \in [id : Nat, to : Releases, at : Nat] \cup {None}
  /\ lineage \in [Lineages -> Releases \cup {None}]
  /\ live \in [Releases -> Nat]
  /\ until \in [Releases -> Nat]

(* initialize_genesis_authority has run. *)
RegistryInit ==
  /\ bundle = Genesis
  /\ retiring = None
  /\ successor = None
  /\ lineage = [l \in Lineages |-> None]
  /\ live = [r \in Releases |-> 0]
  /\ until = [r \in Releases |-> 0]

-----------------------------------------------------------------------------
(* validate_successor *)
Follows(s, h) == s.at > h /\ Parent[s.to] = bundle /\ s.to # bundle

(* stage_successor: fatal unless the slot and the retiring place are free. *)
CanStageSuccessor(s, h) ==
  /\ Follows(s, h)
  /\ retiring = None
  /\ successor \in {None, s}

(* promote_staged_successor: what it requires of the staged successor. *)
CanPromoteSuccessor(id, h) ==
  /\ successor # None
  /\ successor.id = id
  /\ successor.at = h
  /\ retiring = None
  /\ Follows(successor, h - 1)

(* promote_staged_successor: the retention of a bundle without computations    *)
(* starts at once.                                                             *)
PromoteSuccessor(h) ==
  /\ retiring' = bundle
  /\ bundle' = successor.to
  /\ successor' = None
  /\ until' = IF live[bundle] = 0 THEN [until EXCEPT ![bundle] = h + Retention] ELSE until
  /\ UNCHANGED <<lineage, live>>

(* authority_by_bundle_hash *)
Available(b) == b \in {bundle, retiring} \ {None}

(* pin_lineage: a fresh lineage follows the active bundle, a replay keeps its  *)
(* pin.                                                                        *)
PinLineage(l) ==
  /\ lineage[l] = None
  /\ lineage' = [lineage EXCEPT ![l] = bundle]
  /\ live' = [live EXCEPT ![bundle] = @ + 1]
  /\ UNCHANGED <<bundle, retiring, successor, until>>

(* pin_inherited_lineage: a retry keeps the bundle of what it retries. *)
PinInherited(l, p) ==
  /\ l # p /\ lineage[l] = None
  /\ lineage[p] # None /\ Available(lineage[p])
  /\ lineage' = [lineage EXCEPT ![l] = lineage[p]]
  /\ live' = [live EXCEPT ![lineage[p]] = @ + 1]
  /\ UNCHANGED <<bundle, retiring, successor, until>>

(* release_lineage: the last one to leave a retiring bundle starts its         *)
(* retention.                                                                  *)
ReleaseLineage(l, h) ==
  LET b == lineage[l] IN
  /\ b # None
  /\ lineage' = [lineage EXCEPT ![l] = None]
  /\ live' = [live EXCEPT ![b] = @ - 1]
  /\ until' = IF live[b] = 1 /\ retiring = b THEN [until EXCEPT ![b] = h + Retention] ELSE until
  /\ UNCHANGED <<bundle, retiring, successor>>

(* The predecessor has no live computation left and its retention is over. *)
CanRetire(h) ==
  /\ retiring # None
  /\ live[retiring] = 0
  /\ until[retiring] # 0
  /\ h >= until[retiring]

(* try_retire_predecessor, called at the end of Update's hook in every block. *)
TryRetirePredecessor(h) ==
  \/ /\ CanRetire(h)
     /\ retiring' = None
     /\ until' = [until EXCEPT ![retiring] = 0]
     /\ UNCHANGED <<bundle, successor, lineage, live>>
  \/ /\ ~CanRetire(h)
     /\ UNCHANGED registryVars

-----------------------------------------------------------------------------
(* A computation that has started can be finished: its bundle is active or     *)
(* still retained, whatever was activated since (pin_lineage and               *)
(* authority_by_bundle_hash would fail the block otherwise), and the counters  *)
(* that decide the retirement count exactly the pinned computations. A         *)
(* retiring bundle has a deadline exactly when nobody uses it, so that it does *)
(* not block every later successor: try_retire_predecessor reads 0 as "not     *)
(* yet". No deadline outlives the retirement.                                  *)
LineagesServed ==
  /\ \A l \in Lineages : lineage[l] # None => Available(lineage[l])
  /\ \A r \in Releases :
       /\ live[r] = Cardinality({l \in Lineages : lineage[l] = r})
       /\ (until[r] # 0) <=> (retiring = r /\ live[r] = 0)
=============================================================================
