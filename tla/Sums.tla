-------------------------------- MODULE Sums --------------------------------
(* Totals kept by the accounting of several components. *)
EXTENDS Integers, FiniteSets, Folds

(* The total of f over the finite set S. *)
SumOver(f, S) ==
  MapThenFoldSet(+, 0, LAMBDA x : f[x], LAMBDA s : CHOOSE x \in s : TRUE, S)
=============================================================================
