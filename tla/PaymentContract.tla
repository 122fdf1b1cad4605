-------------------------- MODULE PaymentContract --------------------------
(***************************************************************************)
(* What the payment worker promises the rest of the system: each order is  *)
(* settled once and for good, and the loyalty balance moves in the same    *)
(* step as the order, if the order earns somebody points.  With            *)
(* ExactlyOnce no repetition of a notification moves points; without it a  *)
(* repetition may credit again, but it still cannot change the outcome.    *)
(***************************************************************************)
EXTENDS Naturals

CONSTANTS
    Orders,
    Earning,        \* orders of a user who has a balance
    Used,           \* points spent on each order
    ExactlyOnce

VARIABLES
    ledger,     \* outcome of each order: pending, paid or failed
    credits     \* bonuses and refunds credited for each order

vars == <<ledger, credits>>

Init ==
    /\ ledger = [o \in Orders |-> "pending"]
    /\ credits = [o \in Orders |-> [accrued |-> 0, refunded |-> 0]]

\* Outcomes an order may still have when it is settled as outcome.
Open(outcome) == IF ExactlyOnce THEN {"pending"} ELSE {"pending", outcome}

Pay(o) ==
    /\ ledger[o] \in Open("paid")
    /\ ledger' = [ledger EXCEPT ![o] = "paid"]
    /\ credits' = IF o \in Earning
                  THEN [credits EXCEPT ![o].accrued = @ + 1] ELSE credits

Cancel(o) ==
    /\ ledger[o] \in Open("failed")
    /\ ledger' = [ledger EXCEPT ![o] = "failed"]
    /\ credits' = IF o \in Earning /\ Used[o] > 0
                  THEN [credits EXCEPT ![o].refunded = @ + 1] ELSE credits

Next == \E o \in Orders : Pay(o) \/ Cancel(o)

Spec == Init /\ [][Next]_vars
=============================================================================
