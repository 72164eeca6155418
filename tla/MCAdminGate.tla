---------------------------- MODULE MCAdminGate ----------------------------
(* AdminGate for TLC.                                                      *)
EXTENDS AdminGate, TLC

Symmetry == Permutations(Sessions) \cup Permutations(Tabs)
=============================================================================
