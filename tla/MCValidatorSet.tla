--------------------------- MODULE MCValidatorSet ---------------------------
(* Small instances of ValidatorSet for TLC. *)
EXTENDS ValidatorSet

CONSTANTS v1, v2
=============================================================================
