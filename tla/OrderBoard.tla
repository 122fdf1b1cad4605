----------------------------- MODULE OrderBoard -----------------------------
(***************************************************************************)
(* What backend/orders/service.py promises those who follow the orders of  *)
(* a restaurant: a change is announced on the channel before it is in the  *)
(* database, the database takes the change that was announced last and no  *)
(* other, the log of an order begins with its creation and ends where the  *)
(* order stands, and a cook moves orders through the kitchen only.  A      *)
(* change that is announced may still come to nothing.                     *)
(***************************************************************************)
EXTENDS Sequences

CONSTANTS Orders, Changes

VARIABLES
    status,     \* committed status of each order
    history,    \* committed changes, oldest first
    published,  \* changes announced
    board       \* status announced last

vars == <<status, history, published, board>>

Init ==
    /\ status = [o \in Orders |-> "absent"]
    /\ history = [o \in Orders |-> << >>]
    /\ published = [o \in Orders |-> {}]
    /\ board = [o \in Orders |-> "absent"]

Announce(o, e) ==
    /\ published' = [published EXCEPT ![o] = @ \cup {e}]
    /\ board' = [board EXCEPT ![o] = e.to]
    /\ UNCHANGED <<status, history>>

Record(o, e) ==
    /\ e \in published[o]
    /\ e.to = board[o]
    /\ (e.from = "none") = (history[o] = << >>)
    /\ e.by = "cook" => e.to \in {"preparing", "ready"}
    /\ status' = [status EXCEPT ![o] = e.to]
    /\ history' = [history EXCEPT ![o] = Append(@, e)]
    /\ UNCHANGED <<published, board>>

Next == \E o \in Orders, e \in Changes : Announce(o, e) \/ Record(o, e)

Spec == Init /\ [][Next]_vars
=============================================================================
