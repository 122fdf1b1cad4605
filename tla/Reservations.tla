---------------------------- MODULE Reservations ----------------------------
(***************************************************************************)
(* create_reservation of api/routes/bookings.py on PostgreSQL in READ      *)
(* COMMITTED mode: a SELECT looks for an overlapping reservation and an    *)
(* INSERT follows.  Nothing locks the table, its rows have no exclusion    *)
(* constraint, and a SELECT does not see what others have not committed.   *)
(*                                                                         *)
(* A booking is one request; a client that sends a request again makes     *)
(* another booking with the same data.  Times are not validated: the end   *)
(* of a booking may precede its start.                                     *)
(***************************************************************************)
EXTENDS Integers, FiniteSets

CONSTANTS
    Bookings, Handlers, NoBooking,
    TableOf,        \* booking -> table_id
    StartOf, EndOf, \* booking -> start_time, end_time
    MaxLosses       \* bound: lost connections

ASSUME ReservationsAssumption ==
    /\ NoBooking \notin Bookings
    /\ IsFiniteSet(Bookings)
    /\ IsFiniteSet(Handlers)
    /\ StartOf \in [Bookings -> Int]
    /\ EndOf \in [Bookings -> Int]
    /\ MaxLosses \in Nat

VARIABLES
    rows,       \* committed reservations, all of them confirmed
    handler,    \* local state of each handler
    requested,  \* bookings that clients have sent
    refused,    \* bookings answered 409
    losses

bookingVars == <<rows, handler, requested, refused, losses>>

TaskState == [pc: {"idle", "check", "insert"}, booking: Bookings \cup {NoBooking}]

IdleHandler == [pc |-> "idle", booking |-> NoBooking]

BookingInit ==
    /\ rows = {}
    /\ handler = [t \in Handlers |-> IdleHandler]
    /\ requested = {}
    /\ refused = {}
    /\ losses = 0

-----------------------------------------------------------------------------
OverlapsStart(a, b) ==                                              \* mutant
    /\ TableOf[a] = TableOf[b]
    /\ StartOf[a] <= StartOf[b] /\ EndOf[a] > StartOf[b]

\* The WHERE clause of the SELECT: row a is in the way of booking b.
Overlaps(a, b) ==
    /\ TableOf[a] = TableOf[b]
    /\ StartOf[a] < EndOf[b] /\ EndOf[a] > StartOf[b]

Request(t, b) ==
    /\ handler[t].pc = "idle"
    /\ b \notin requested
    /\ requested' = requested \cup {b}
    /\ handler' = [handler EXCEPT ![t] = [pc |-> "check", booking |-> b]]
    /\ UNCHANGED <<rows, refused, losses>>

Conflict(t) == \E a \in rows : Overlaps(a, handler[t].booking)

Refuse(t) ==
    /\ handler[t].pc = "check"
    /\ Conflict(t)
    /\ refused' = refused \cup {handler[t].booking}
    /\ handler' = [handler EXCEPT ![t] = IdleHandler]
    /\ UNCHANGED <<rows, requested, losses>>

Accept(t) ==
    /\ handler[t].pc = "check"
    /\ ~Conflict(t)
    /\ handler' = [handler EXCEPT ![t].pc = "insert"]
    /\ UNCHANGED <<rows, requested, refused, losses>>

\* INSERT and COMMIT: nobody sees the row in between.
Insert(t) ==
    /\ handler[t].pc = "insert"
    /\ rows' = rows \cup {handler[t].booking}
    /\ handler' = [handler EXCEPT ![t] = IdleHandler]
    /\ UNCHANGED <<requested, refused, losses>>

FailBooking(t) ==
    /\ handler[t].pc # "idle"
    /\ losses < MaxLosses
    /\ losses' = losses + 1
    /\ handler' = [handler EXCEPT ![t] = IdleHandler]
    /\ UNCHANGED <<rows, requested, refused>>

BookingNext ==
    \E t \in Handlers :
        \/ \E b \in Bookings : Request(t, b)
        \/ Refuse(t)
        \/ Accept(t)
        \/ Insert(t)
        \/ FailBooking(t)

BookingSpec == BookingInit /\ [][BookingNext]_bookingVars

-----------------------------------------------------------------------------
(* Properties                                                              *)

Covers(b, table, x) == TableOf[b] = table /\ StartOf[b] <= x /\ x < EndOf[b]

\* The reservations of a table at a moment, committed or about to be.
BookedAt(table, x) == {b \in rows : Covers(b, table, x)}
PendingAt(table, x) ==
    {t \in Handlers :
        handler[t].pc = "insert" /\ Covers(handler[t].booking, table, x)}

BookingTypeOK ==
    /\ rows \subseteq requested
    /\ requested \subseteq Bookings
    /\ refused \subseteq requested \ rows
    /\ handler \in [Handlers -> TaskState]
    /\ \A t \in Handlers : handler[t].pc # "idle" =>
          handler[t].booking \in requested \ (rows \cup refused)
    /\ losses \in 0..MaxLosses

\* How far the check can be overtaken: at no moment has a table more guests
\* than there are handlers that work at the same time; with one handler no
\* table is booked twice.
OverbookingBounded ==
    \A b \in Bookings :
        Cardinality(BookedAt(TableOf[b], StartOf[b])) <= Cardinality(Handlers)

\* No two reservations of a table overlap.
NoDoubleBooking == \A a, b \in rows : a # b => ~Overlaps(a, b)

AtWork == {t \in Handlers : handler[t].pc # "idle"}

\* As long as requests come one at a time the SELECT keeps them apart.
NoDoubleBookingIfSerial == [](Cardinality(AtWork) <= 1) => []NoDoubleBooking
=============================================================================
