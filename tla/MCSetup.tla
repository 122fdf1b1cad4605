------------------------------- MODULE MCSetup -------------------------------
(* Instances of Setup for TLC: two menus of the same dish in different       *)
(* categories, so that they collide in the second INSERT.  All properties    *)
(* are invariants, so the requests may be interchanged.                      *)
EXTENDS Setup, TLC

Menus == {[category |-> "lunch", dish |-> "pizza"], [category |-> "dinner", dish |-> "pizza"]}

Symmetry == Permutations(Tasks)
=============================================================================
