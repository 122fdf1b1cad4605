----------------------------- MODULE MCPayments -----------------------------
(* Instances of Payments for TLC: two orders of one user, with loyalty     *)
(* points spent on them or not, and o3, an order of nobody.                *)
EXTENDS Payments, TLC

CONSTANTS o1, o2, o3, u1

GuestOrders  == [o \in Orders |-> IF o = o3 THEN NoUser ELSE u1]
Amounts      == [o \in Orders |-> 2]
UsedByNone   == [o \in Orders |-> 0]
UsedByAll    == [o \in Orders |-> 1]
UsedByGuests == [o \in Orders |-> IF o = o3 THEN 0 ELSE 1]

Symmetry == Permutations(Tasks) \cup Permutations(Payments) \cup Permutations({o1, o2})
=============================================================================
