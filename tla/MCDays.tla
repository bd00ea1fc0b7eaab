------------------------------- MODULE MCDays -------------------------------
(***************************************************************************)
(* Small instances of the two components that live by the calendar: "cycle"    *)
(* (ProtocolCycle) and "metadosis" (Metadosis).  turn chooses one of them at    *)
(* the start; the variables of the other keep their initial values.            *)
(***************************************************************************)
EXTENDS MCProtocolCycle, Metadosis

CONSTANTS
  Parts,            \* the components of an instance
  o1, o2, o3        \* the members that compute results

VARIABLE turn

Sixty == [d \in WwdNumbers |-> 60]

(* The first two days have more tributes than emission, the third too few for an  *)
(* allocation.                                                                   *)
FewTributes == [d \in WwdNumbers |-> IF d > 2 THEN 0 ELSE <<100, 300, 2>>[d + 1]]

(* The windows of the fourth and the eighth block leave something. *)
SmallResidue == [b \in 1..LastBlock |-> IF b % 4 = 0 THEN 1 ELSE 0]

(* The later job has the smaller id. *)
Descending == [d \in WwdNumbers |-> LastHour - d]

Three == {o1, o2, o3}

DaysInit == turn \in Parts /\ CycleInit /\ MetadosisInit

DaysNext ==
  /\ UNCHANGED turn
  /\ \/ turn = "cycle" /\ Next /\ UNCHANGED metadosisVars
     \/ turn = "metadosis" /\ MetadosisNext /\ UNCHANGED vars

DaysSpec == DaysInit /\ [][DaysNext]_<<vars, metadosisVars, turn>>

Symmetric == Permutations(Three)
=============================================================================
