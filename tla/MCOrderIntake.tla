--------------------------- MODULE MCOrderIntake ---------------------------
(* Instances of OrderIntake for TLC: two dishes that need the same two      *)
(* ingredients in opposite orders, one request that spends points and one   *)
(* with an old price.                                                       *)
EXTENDS OrderIntake, TLC

CONSTANTS r1, r2, spender, stale, i1, i2, u1

Line2(i, n, j, m) == <<[ing |-> i, need |-> n], [ing |-> j, need |-> m]>>

Recipes == [r \in Requests |->
    CASE r = r1 -> Line2(i1, 2, i2, 1)
      [] r = r2 -> Line2(i2, 1, i1, 2)
      [] r = spender -> <<[ing |-> i1, need |-> 1]>>
      [] OTHER -> << >>]
Totals    == [r \in Requests |-> 4]
PointsOf  == [r \in Requests |-> IF r = spender THEN 2 ELSE 0]
OneUser   == [r \in Requests |-> u1]
Priced    == Requests \ {stale}
Stocked   == [i \in Ingredients |-> IF i = i1 THEN 3 ELSE 2]
Plenty    == [i \in Ingredients |-> 9]
Rich      == [u \in Users |-> 5]
Poor      == [u \in Users |-> 1]
=============================================================================
