---------------------------- MODULE MCOnboarding ----------------------------
(* Instances of Onboarding for TLC: two restaurants whose names make the    *)
(* same slug and a third of the same owner; three roles of the catalog,     *)
(* two of which share a permission.                                         *)
EXTENDS Onboarding, TLC

CONSTANTS roma, roma2, bistro

Slugs  == [r \in Restaurants |-> IF r = bistro THEN "bistro" ELSE "roma"]
Emails == [r \in Restaurants |-> IF r = roma2 THEN "b" ELSE "a"]

Roles3 == [r \in {"owner", "operator", "cook"} |->
    CASE r = "owner"    -> {"*"}
      [] r = "operator" -> {"orders.read", "orders.write"}
      [] OTHER          -> {"orders.read", "orders.status.kitchen"}]
=============================================================================
