--------------------------- MODULE MCProtocolCycle ---------------------------
(* Small instances of ProtocolCycle for TLC. *)
EXTENDS ProtocolCycle, TLC

CONSTANTS v1, v2, v3, v4

Four == {v1, v2, v3, v4}
OneCommittee == {Four}
Two == {v1, v2}
SmallCommittees == {{v1}, {v1, v2}}
FourSymmetry == Permutations(Four)
=============================================================================
