------------------------- MODULE MCCategoryTargets -------------------------
(* Two or three requests over three months and two kinds, one of them with a due month. *)
EXTENDS CategoryTargets, TLC

Symmetry == Permutations(Txs)
=============================================================================
