--------------------------- MODULE MCProductEdits ---------------------------
(* ProductEdits for TLC: every pair of prices at and beyond the bounds,    *)
(* and every other field beyond its bounds on an otherwise good form.      *)
(* JSONB puts the keys of specs in the order "ab".                         *)
EXTENDS ProductEdits, TLC

Good == [priceToman |-> 1, salePriceToman |-> Null, stockQty |-> 0,
         weightGrams |-> Null, availability |-> "in_stock", specs |-> "ab", isActive |-> TRUE]
Raw == {Null, Text, -1, 0, 1, 2}

(* The requests are alike. *)
Symmetry == Permutations(Handlers)

MCCanonical == [ab |-> "ab", ba |-> "ab", a |-> "a"]

MCBodies ==
  {[Good EXCEPT !.priceToman = p, !.salePriceToman = s] : p \in Raw, s \in Raw}
  \cup {[Good EXCEPT !.availability = a] : a \in {Null, Text}}
  \cup {[Good EXCEPT !.stockQty = q, !.availability = "on_order", !.specs = "a"] : q \in Raw \ {0}}
  \cup {[Good EXCEPT !.weightGrams = w, !.priceToman = 0, !.specs = "ba"] : w \in Raw \ {Null}}
=============================================================================
