------------------------------- MODULE MCDkg -------------------------------
(***************************************************************************)
(* The instances of DkgCeremony, DkgStorage and DkgHandoff.  They share no *)
(* variable; one run holds them side by side, and turn says which of them  *)
(* a behaviour is about.                                                   *)
(***************************************************************************)
EXTENDS MCCeremony, DkgStorage, DkgHandoff

CONSTANTS v1, v2, v3

VARIABLE turn

MCValidators == {v1, v2, v3}

dkgVars == <<turn, ceremonyVars, storageVars, handoffVars>>

DkgInit ==
    /\ turn \in {"ceremony", "storage", "handoff"}
    /\ CeremonyInit /\ (turn # "ceremony" => setup = Leaver)
    /\ StorageInit /\ (turn # "storage" => serves = Generations)
    /\ HandoffInit

DkgNext ==
    \/ turn = "ceremony" /\ CeremonyNext /\ UNCHANGED <<turn, storageVars, handoffVars>>
    \/ turn = "storage" /\ StorageNext /\ UNCHANGED <<turn, ceremonyVars, handoffVars>>
    \/ turn = "handoff" /\ HandoffNext /\ UNCHANGED <<turn, ceremonyVars, storageVars>>

(* The fairness of DkgCeremony and of DkgHandoff, each in its behaviours. *)
DkgFairness ==
    /\ \A n \in Nodes : /\ WF_ceremonyVars(turn = "ceremony" /\ Progress(n))
                        /\ WF_ceremonyVars(turn = "ceremony" /\ Retry(n))
                        /\ WF_ceremonyVars(turn = "ceremony" /\ ReceiveBundleFrom(n))
                        /\ WF_ceremonyVars(turn = "ceremony" /\ ReceiveAckFrom(n))
    /\ \A n \in Validators : WF_handoffVars(turn = "handoff" /\ HandoffStep(n))
    /\ WF_handoffVars(turn = "handoff" /\ FinalizeSome)

DkgSpec == DkgInit /\ [][DkgNext]_dkgVars /\ DkgFairness

(***************************************************************************)
(* Every member of the next committee ends a ceremony with its output, and *)
(* the handoffs go on to the last block: PlayersComplete of DkgCeremony    *)
(* and HandoffCompletes of DkgHandoff, in one formula for one search.      *)
(***************************************************************************)
DkgCompletes == <>(/\ turn = "ceremony" => PlayersHaveOutput
                   /\ turn = "handoff" => HandoffsDone)
=============================================================================
