--------------------------- MODULE MCReservations ---------------------------
(* Instances of Reservations for TLC: bookings of one table that overlap,   *)
(* that contain each other, that touch and that run backwards, and one of   *)
(* another table.                                                           *)
EXTENDS Reservations, TLC

CONSTANTS early, late, long, inner, back, other

Tables == [b \in Bookings |-> IF b = other THEN 2 ELSE 1]
Starts == [b \in Bookings |->
    CASE b = early -> 1 [] b = late -> 2 [] b = long -> 0 [] b = inner -> 1
      [] b = back -> 3 [] OTHER -> 1]
Ends == [b \in Bookings |->
    CASE b = early -> 2 [] b = late -> 4 [] b = long -> 4 [] b = inner -> 3
      [] b = back -> 1 [] OTHER -> 3]
=============================================================================
