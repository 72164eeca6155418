--------------------------- MODULE MCCatalogSearch ---------------------------
(* CatalogSearch for TLC.                                                  *)
EXTENDS CatalogSearch, TLC

Symmetry == UNION {Permutations(S) : S \in {Products, Brands, Words, Names, Handlers}}
=============================================================================
