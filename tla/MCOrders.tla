------------------------------ MODULE MCOrders ------------------------------
(***************************************************************************)
(* Orders for TLC.  Requests, orders, numbers and keys are interchangeable *)
(* and are symmetry sets in the runs that check invariants.                *)
(***************************************************************************)
EXTENDS Orders, TLC

Symmetry == Permutations(Requests) \union Permutations(Orders)
                \union Permutations(Numbers) \union Permutations(Keys)
=============================================================================
