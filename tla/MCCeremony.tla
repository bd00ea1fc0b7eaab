----------------------------- MODULE MCCeremony -----------------------------
(***************************************************************************)
(* Ceremonies of two nodes: one of two dealers leaves, a player joins, a   *)
(* dealer signs a log without valid content, and everybody is needed.      *)
(***************************************************************************)
EXTENDS DkgCeremony

CONSTANTS n1, n2

MCNodes == {n1, n2}

Setup(dealers, players, faulty, playerQuorum, logQuorum) ==
    [dealers |-> dealers, players |-> players, faulty |-> faulty,
     playerQuorum |-> playerQuorum, logQuorum |-> logQuorum]

Leaver == Setup({n1, n2}, {n1}, {}, 1, 1)
Joiner == Setup({n1}, {n1, n2}, {}, 1, 1)
OneBadLog == Setup({n1, n2}, {n1, n2}, {n2}, 2, 1)
Everybody == Setup({n1, n2}, {n1, n2}, {}, 2, 2)
MCSetups == {Leaver, Joiner, OneBadLog, Everybody}
=============================================================================
