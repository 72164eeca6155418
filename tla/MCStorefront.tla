---------------------------- MODULE MCStorefront ----------------------------
(* Storefront for TLC: three products on pages of one or two rows, two of  *)
(* them found by the number and two by the name; one brand with products   *)
(* in two categories, of which one is in stock.                            *)
EXTENDS Storefront

MCCategoryOf == [p \in Products |-> IF p = 3 THEN "pads" ELSE "filters"]
MCPerPages   == [products |-> {1, 2}, category |-> {2}, brand |-> {2}, search |-> {1}]
MCBrandOf    == [p \in Products |-> IF p = 1 THEN "none" ELSE "bosch"]
MCAvailabilityOf == [p \in Products |-> IF p = 2 THEN "in_stock" ELSE "on_order"]
=============================================================================
