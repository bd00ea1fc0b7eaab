----------------------------- MODULE DkgStorage -----------------------------
(***************************************************************************)
(* The threshold material of one node in its keys directory, from the end  *)
(* of a ceremony to the next one (engine/src/stack.rs).  A generation is   *)
(* the number of the DKG cycle whose output a file belongs to.             *)
(*                                                                         *)
(* Every file is written or removed atomically, and nothing else is: a     *)
(* handler is the sequence of its file operations, and the process may die *)
(* between any two of them.  The chain moves on while the node is down.    *)
(***************************************************************************)
EXTENDS Integers, FiniteSets, Sequences

CONSTANT MaxGeneration  \* bound: generations the chain activates

ASSUME StorageAssumption == MaxGeneration \in Nat \ {0}

Generations == 1 .. MaxGeneration
Triplet == <<"share", "polynomial", "output">>
Saved == {"saved"} \X {"share", "polynomial", "output"}
Pending == {"pending"} \X {"share", "polynomial", "output"}
Boundary == <<"pending", "boundary">>
RetryFiles == {<<"retry", "dealer">>, <<"retry", "player">>}
Names == Saved \cup Pending \cup {Boundary} \cup RetryFiles

VARIABLES
    serves,   \* generations in which the node is a player of the output
    final,    \* generation of the latest finalized boundary
    disk,     \* generation of each file, 0: absent
    todo,     \* file operations left of the running handler
    mode,     \* "down", "starting", "running", "exiting", "failed"
    active,   \* generation the process runs with, 0: none
    share,    \* the process holds its share of that generation
    ready,    \* generation of the published pending activation, 0: none
    handled,  \* latest finalized boundary the process has handled
    durable,  \* history: generations whose completion was made durable
    transcribed  \* history: those whose player transcript was on disk by then

memory == <<active, share, ready, handled>>
history == <<durable, transcribed>>
storageVars == <<serves, final, disk, todo, mode, memory, history>>

StorageTypeOK ==
    /\ serves \subseteq Generations /\ final \in Generations /\ durable \subseteq Generations
    /\ disk \in [Names -> 0 .. MaxGeneration]
    /\ mode \in {"down", "starting", "running", "exiting", "failed"}
    /\ {active, ready, handled} \subseteq 0 .. MaxGeneration
    /\ share \in BOOLEAN /\ transcribed \subseteq durable

-----------------------------------------------------------------------------
(***************************************************************************)
(* File operations.  Publish stands for note_ceremony_completed, which     *)
(* follows the writes.                                                     *)
(***************************************************************************)
Put(name, g) == [name |-> name, gen |-> g]
Drop(name) == Put(name, 0)
Published == <<"publish", "outcome">>
Publish(g) == Put(Published, g)

(* save_dkg_state_files *)
SaveAll(area, g) == [i \in 1 .. 3 |-> Put(<<area, Triplet[i]>>, g)]

(* remove_pending_dkg_state *)
RemovePending == [i \in 1 .. 3 |-> Drop(<<"pending", Triplet[i]>>)]

(* DkgRetryStore::clear *)
ClearRetry == <<Drop(<<"retry", "dealer">>), Drop(<<"retry", "player">>)>>

(***************************************************************************)
(* persist_completed_dkg_before_activation, and for a dealer that leaves   *)
(* or a node that only follows                                             *)
(* persist_observed_dkg_boundary_before_activation.                        *)
(***************************************************************************)
Persist(g) ==
    (IF g \in serves THEN SaveAll("pending", g) ELSE <<>>) \o <<Put(Boundary, g), Publish(g)>>

(* retire_activated_dkg_retry_state *)
Retire == RemovePending \o <<Drop(Boundary)>> \o ClearRetry

(* Mutant: the pending files go before the saved ones are complete. *)
PromoteLate(g) == Retire \o SaveAll("saved", g)

(* The finalized boundary of a share holder: save_dkg_state, then retire. *)
Promote(g) == SaveAll("saved", g) \o Retire

(***************************************************************************)
(* recover_pending_dkg_boundary_snapshot of a finalized boundary: the same *)
(* in another order, the boundary file before the pending ones.            *)
(***************************************************************************)
RecoverExact(g) ==
    (IF g \in serves THEN SaveAll("saved", g) ELSE <<>>)
        \o <<Drop(Boundary)>> \o RemovePending \o ClearRetry
RecoverOlder == <<Drop(Boundary)>> \o RemovePending \o ClearRetry

(* load_dkg_state_files: the three files are there and belong together. *)
Complete(files, g) == \A f \in files : disk[f] = g

-----------------------------------------------------------------------------
StorageInit ==
    /\ serves \in {s \in SUBSET Generations : 1 \in s}
    /\ final = 1
    /\ disk = [f \in Names |-> IF f \in Saved THEN 1 ELSE 0]
    /\ todo = <<>>
    /\ mode = "running"
    /\ active = 1 /\ share = TRUE /\ ready = 0 /\ handled = 1
    /\ durable = {1} /\ transcribed = {}

Idle == mode = "running" /\ todo = <<>>

(* One file operation of the running handler. *)
FileStep ==
    LET op == Head(todo)
    IN  /\ todo # <<>>
        /\ todo' = Tail(todo)
        /\ disk' = IF op.name \in Names THEN [disk EXCEPT ![op.name] = op.gen] ELSE disk
        /\ ready' = IF op.name = Published THEN op.gen ELSE ready
        /\ durable' = IF op.name = Published THEN durable \cup {op.gen} ELSE durable
        /\ transcribed' = IF op.name = Published
                          THEN {g \in transcribed \cup {op.gen} : g = op.gen => disk[<<"retry", "player">>] = g}
                          ELSE transcribed
        /\ UNCHANGED <<serves, final, mode, active, share, handled>>

(***************************************************************************)
(* The node deals or plays in the next ceremony and records it: the        *)
(* dealer's seed before its first message, the player's inputs before they *)
(* are acknowledged, and the dealer that plays on starts with its own      *)
(* dealing.  A dealer without its share fails before it deals.             *)
(***************************************************************************)
TakePart ==
    LET g == handled + 1
    IN  /\ Idle /\ g \in Generations /\ active = handled /\ ready # g
        /\ \E r \in {"dealer", "player"} :
             /\ r = "dealer" => g - 1 \in serves /\ (share \/ g \in serves)
             /\ r = "player" =>
                  /\ g \in serves
                  /\ g - 1 \in serves => share /\ disk[<<"retry", "dealer">>] = g
             /\ disk[<<"retry", r>>] # g
             /\ todo' = <<Put(<<"retry", r>>, g)>>
        /\ UNCHANGED <<serves, final, disk, mode, memory, history>>

(***************************************************************************)
(* Its result, or the output that a node without a part in the ceremony    *)
(* reads from the chain, is made durable.  A player that was sent nothing  *)
(* finds its share in the dealers' logs and has no transcript.             *)
(***************************************************************************)
CompleteDkg ==
    LET g == handled + 1
    IN  /\ Idle /\ g \in Generations /\ active = handled /\ ready # g
        /\ g - 1 \in serves => share /\ disk[<<"retry", "dealer">>] = g
        /\ {g - 1, g} \subseteq serves => disk[<<"retry", "player">>] = g
        /\ todo' = Persist(g)
        /\ UNCHANGED <<serves, final, disk, mode, memory, history>>

(* The published outcome is activated in memory, before its boundary. *)
ActivateDkg ==
    /\ Idle /\ ready = handled + 1 /\ active = handled
    /\ active' = ready /\ share' = (ready \in serves)
    /\ UNCHANGED <<serves, final, disk, todo, mode, ready, handled, history>>

(* The committee finalizes the next boundary, with or without this node. *)
FinalizeBoundary ==
    /\ final < MaxGeneration
    /\ final' = final + 1
    /\ UNCHANGED <<serves, disk, todo, mode, memory, history>>

(***************************************************************************)
(* take_committed_boundary_artifact, which answers only for the boundary   *)
(* that the process has published itself.  A node that runs with the       *)
(* output promotes its material, or has none to promote; one that does not *)
(* run with it exits, and retires first when the output leaves it out.  A  *)
(* node that publishes too late misses the activation deadline and ends,   *)
(* which is a crash here.                                                  *)
(***************************************************************************)
HandleCommitted ==
    LET g == handled + 1
    IN  /\ Idle /\ g <= final /\ ready = g
        /\ todo' = CASE active = g /\ g \in serves -> Promote(g)
                     [] g \notin serves -> Retire
                     [] OTHER -> <<>>
        /\ mode' = IF active = g THEN mode ELSE "exiting"
        /\ handled' = g
        /\ UNCHANGED <<serves, final, disk, active, share, ready, history>>

Forget == active' = 0 /\ share' = FALSE /\ ready' = 0 /\ handled' = 0

StorageCrash ==
    /\ mode \in {"starting", "running", "exiting"}
    /\ mode' = "down" /\ todo' = <<>> /\ Forget
    /\ UNCHANGED <<serves, final, disk, history>>

-----------------------------------------------------------------------------
(***************************************************************************)
(* Start.                                                                  *)
(***************************************************************************)

Refuse == mode' = "failed" /\ todo' = <<>> /\ Forget /\ UNCHANGED disk

(***************************************************************************)
(* recover_pending_dkg_boundary_snapshot.  A boundary that is finalized,   *)
(* or older than the finalized one, is retired; a newer one must come with *)
(* its private material and becomes the pending activation.                *)
(***************************************************************************)
RecoverPending ==
    LET g == disk[Boundary]
    IN  /\ mode \in {"down", "failed"}
        /\ \/ /\ g = 0
              /\ mode' = "starting" /\ UNCHANGED <<disk, todo, memory>>
           \/ /\ g \in 1 .. final - 1
              /\ mode' = "starting" /\ todo' = RecoverOlder /\ UNCHANGED <<disk, memory>>
           \/ /\ g = final
              /\ \/ /\ g \in serves => Complete(Pending, g)
                    /\ mode' = "starting" /\ todo' = RecoverExact(g) /\ UNCHANGED <<disk, memory>>
                 \/ g \in serves /\ ~Complete(Pending, g) /\ Refuse
           \/ /\ g > final
              /\ \/ /\ Complete(Pending, IF g \in serves THEN g ELSE 0)
                    /\ mode' = "starting" /\ ready' = g
                    /\ UNCHANGED <<disk, todo, active, share, handled>>
                 \/ ~Complete(Pending, IF g \in serves THEN g ELSE 0) /\ Refuse
        /\ UNCHANGED <<serves, final, history>>

(* obtain_threshold_material, pending material of the finalized boundary. *)
PromoteOnStart ==
    SaveAll("saved", final) \o RemovePending \o <<Drop(Boundary)>> \o ClearRetry

(***************************************************************************)
(* obtain_threshold_material: saved material of the finalized boundary, or *)
(* pending material of it, which is promoted.  Without either the node     *)
(* starts only as a verifier, if its operator gives it the public material *)
(* and the saved files, of whatever generation, load.  Starts from a share *)
(* given on the command line are left out.                                 *)
(***************************************************************************)
ObtainMaterial ==
    /\ mode = "starting" /\ todo = <<>>
    /\ \/ /\ Complete(Saved, final) \/ Complete(Pending, final)
          /\ mode' = "running" /\ active' = final /\ share' = TRUE /\ handled' = final
          /\ todo' = IF Complete(Saved, final) THEN <<>> ELSE PromoteOnStart
          /\ UNCHANGED <<disk, ready>>
       \/ /\ ~Complete(Saved, final) /\ ~Complete(Pending, final)
          /\ \E g \in 0 .. MaxGeneration : Complete(Saved, g)
          /\ mode' = "running" /\ active' = final /\ share' = FALSE /\ handled' = final
          /\ UNCHANGED <<disk, todo, ready>>
       \/ /\ ~Complete(Saved, final) /\ ~Complete(Pending, final)
          /\ Refuse
    /\ UNCHANGED <<serves, final, history>>

ExitProcess ==
    /\ mode = "exiting" /\ todo = <<>>
    /\ mode' = "down" /\ Forget
    /\ UNCHANGED <<serves, final, disk, todo, history>>

StorageNext ==
    \/ FileStep \/ TakePart \/ CompleteDkg \/ ActivateDkg \/ HandleCommitted \/ ExitProcess
    \/ FinalizeBoundary \/ StorageCrash \/ RecoverPending \/ ObtainMaterial

StorageSpec == StorageInit /\ [][StorageNext]_storageVars

-----------------------------------------------------------------------------
(***************************************************************************)
(* Material that was made durable is on disk, complete, until the chain    *)
(* has moved past its generation: no order of crashes, promotions,         *)
(* retirements and restarts loses the share of the committee in office or  *)
(* of the one about to be.  And the transcripts of a ceremony go only      *)
(* "after the matching DKG output has been durably promoted at its         *)
(* canonical activation boundary" (consensus/src/dkg_actor/recovery.rs).   *)
(***************************************************************************)
MaterialKept ==
    \A g \in serves \cap durable : g >= final =>
        /\ Complete(Saved, g) \/ Complete(Pending, g)
        /\ g \in transcribed /\ ~Complete(Saved, g) => disk[<<"retry", "player">>] = g

(***************************************************************************)
(* "Saved DKG state in `keys_dir` - restart precedence"                    *)
(* (engine/src/stack.rs:7750): a start does not fail while the saved       *)
(* material of the finalized boundary is complete.                         *)
(***************************************************************************)
SavedMaterialStarts == mode = "failed" => ~Complete(Saved, final)
=============================================================================
