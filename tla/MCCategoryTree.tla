--------------------------- MODULE MCCategoryTree ---------------------------
(* CategoryTree for TLC.                                                   *)
EXTENDS CategoryTree, TLC

Symmetry == Permutations(Ids) \cup Permutations(Handlers)
=============================================================================
