--------------------------- MODULE OrderLifecycle ---------------------------
(***************************************************************************)
(* Orders of the widget and of the admin panel: backend/orders/service.py  *)
(* as apps/public_api and apps/admin_api call it.  The middleware opens    *)
(* one transaction per request and commits it after the handler returned,  *)
(* so the handler publishes on Redis what is not committed yet.            *)
(*                                                                         *)
(* A task is one request.  It takes a step for the middleware's prologue,  *)
(* for the SELECTs its decision rests on, for the flush (where the UPDATE  *)
(* takes the row lock), for the publication and for COMMIT.  The audit row *)
(* is added with the event row in every path: history stands for both.     *)
(***************************************************************************)
EXTENDS Naturals, Sequences, FiniteSets, SequencesExt

CONSTANTS
    Orders, Tasks, NoOrder,
    Roles,          \* roles of the employees that are logged in
    Dishes,         \* menu items
    Available,      \* those with is_available
    Baskets,        \* item lists customers send, as sequences of dishes
    BeginRaises,    \* session.begin() raises once a SELECT has begun one
    MaxRequests,    \* bound: requests
    MaxFailures     \* bound: lost connections, to the database or to Redis

ASSUME OrderLifecycleAssumption ==
    /\ IsFiniteSet(Tasks)
    /\ NoOrder \notin Orders
    /\ Roles \subseteq {"owner", "manager", "operator", "cook"}
    /\ Available \subseteq Dishes
    /\ Baskets \subseteq Seq(Dishes) \ {<< >>}
    /\ BeginRaises \in BOOLEAN
    /\ MaxRequests \in Nat /\ MaxFailures \in Nat

VARIABLES
    status,         \* committed orders.status; "absent" before the INSERT
    closed,         \* committed orders.closed_at is set
    history,        \* committed order_events, oldest first
    published,      \* events sent to the channel tenant:<id>:orders
    board,          \* what a subscriber believes an order's status is
    task,           \* local state of each request handler
    replies,        \* [role, code] pairs that clients have received
    refused,        \* baskets refused as unavailable
    session,        \* the guest holds the token of a committed guest session
    requests, failures

vars == <<status, closed, history, published, board, task, replies, refused,
          session, requests, failures>>

Statuses == {"new", "accepted", "preparing", "ready", "delivering",
             "completed", "cancelled"}
Codes == {"200", "201", "403", "404", "422", "500"}
Steps == {"idle", "session", "load", "create", "flush", "publish", "commit"}
Kinds == {"status", "manual", "widget", "session"}

Events == [from: Statuses \cup {"none"}, to: Statuses, by: Roles \cup {"guest"}]
NoEvent == [from |-> "none", to |-> "none", by |-> "guest"]

Idle == [pc |-> "idle", kind |-> "widget", order |-> NoOrder, basket |-> << >>,
         event |-> NoEvent]

Init ==
    /\ status = [o \in Orders |-> "absent"]
    /\ closed = [o \in Orders |-> FALSE]
    /\ history = [o \in Orders |-> << >>]
    /\ published = [o \in Orders |-> {}]
    /\ board = [o \in Orders |-> "absent"]
    /\ task = [t \in Tasks |-> Idle]
    /\ replies = {}
    /\ refused = {}
    /\ session = FALSE
    /\ requests = 0
    /\ failures = 0

-----------------------------------------------------------------------------
Allowed == [s \in Statuses |->
    CASE s = "new"        -> {"accepted", "cancelled"}
      [] s = "accepted"   -> {"preparing", "cancelled"}
      [] s = "preparing"  -> {"ready"}
      [] s = "ready"      -> {"delivering", "completed"}
      [] s = "delivering" -> {"completed"}
      [] OTHER            -> {}]

\* PERMISSION_MATRIX, the part that concerns orders.
Permissions == [r \in {"owner", "manager", "operator", "cook"} |->
    CASE r = "owner" -> {"*"}
      [] r = "cook"  -> {"orders.read", "orders.status.kitchen"}
      [] OTHER       -> {"orders.read", "orders.write"}]

May(role, permission) == {"*", permission} \cap Permissions[role] # {}

NeededIgnoresOrder(to, seen) ==                                     \* mutant
    IF seen \in {"accepted", "preparing"}
    THEN "orders.status.kitchen" ELSE "orders.write"

Needed(to, seen) ==
    IF to \in {"preparing", "ready"} /\ seen \in {"accepted", "preparing"}
    THEN "orders.status.kitchen" ELSE "orders.write"

InitialStatus(kind) == IF kind = "manual" THEN "accepted" ELSE "new"

Answer(t, code) ==
    /\ task' = [task EXCEPT ![t] = Idle]
    /\ replies' = replies \cup {[role |-> task[t].event.by, code |-> code]}

-----------------------------------------------------------------------------
(* A request arrives.                                                      *)

Accept(t) ==
    /\ task[t].pc = "idle"
    /\ requests < MaxRequests
    /\ requests' = requests + 1
    /\ UNCHANGED <<status, closed, history, published, board, refused, session,
                   failures>>

Raised(role) ==
    /\ replies' = replies \cup {[role |-> role, code |-> "500"]}
    /\ UNCHANGED task

Dispatch(t, local) ==
    /\ task' = [task EXCEPT ![t] = local]
    /\ UNCHANGED replies

\* Middleware of the admin panel: the SELECT of the tenant, then begin().
EnterAdmin(t, local) ==
    /\ Accept(t)
    /\ IF BeginRaises THEN Raised(local.event.by) ELSE Dispatch(t, local)

\* Middleware of the widget: begin() first.  The token names the session.
EnterPublic(t, local) ==
    /\ session
    /\ Accept(t)
    /\ Dispatch(t, local)

PatchOrderStatus(t, o, to, role) ==
    EnterAdmin(t, [pc |-> "load", kind |-> "status", order |-> o, basket |-> << >>,
                   event |-> [from |-> "none", to |-> to, by |-> role]])

CreateManualOrder(t, basket, role) ==
    EnterAdmin(t, [pc |-> "create", kind |-> "manual", order |-> NoOrder,
                   basket |-> basket,
                   event |-> [from |-> "none", to |-> InitialStatus("manual"), by |-> role]])

CreateWidgetOrder(t, basket) ==
    EnterPublic(t, [pc |-> "create", kind |-> "widget", order |-> NoOrder,
                    basket |-> basket,
                    event |-> [from |-> "none", to |-> InitialStatus("widget"), by |-> "guest"]])

\* POST /session: no middleware; the handler has the SELECT before begin().
CreateSession(t) ==
    /\ ~session
    /\ Accept(t)
    /\ IF BeginRaises THEN Raised("guest")
       ELSE Dispatch(t, [Idle EXCEPT !.pc = "session", !.kind = "session"])

\* Its COMMIT, after which the token is made.
CommitSession(t) ==
    /\ task[t].pc = "session"
    /\ session' = TRUE
    /\ Answer(t, "201")
    /\ UNCHANGED <<status, closed, history, published, board, refused, requests,
                   failures>>

-----------------------------------------------------------------------------
(* update_order_status up to its flush: the order is read without a lock,  *)
(* then permission and transition are checked against what was read.       *)

RefusalUnlessFinal(to, seen, role) ==                               \* mutant
    IF seen = "absent" THEN "404"
    ELSE IF ~May(role, Needed(to, seen)) THEN "403"
    ELSE IF Allowed[seen] # {} /\ to \notin Allowed[seen] THEN "422"
    ELSE "none"

Refusal(to, seen, role) ==
    IF seen = "absent" THEN "404"
    ELSE IF ~May(role, Needed(to, seen)) THEN "403"
    ELSE IF to \notin Allowed[seen] THEN "422"
    ELSE "none"

LoadOrder(t) ==
    LET seen == status[task[t].order]
        code == Refusal(task[t].event.to, seen, task[t].event.by)
    IN  /\ task[t].pc = "load"
        /\ UNCHANGED <<status, closed, history, published, board, refused,
                       session, requests, failures>>
        /\ \/ /\ code # "none"
              /\ Answer(t, code)
           \/ /\ code = "none"
              /\ task' = [task EXCEPT ![t].pc = "flush", ![t].event.from = seen]
              /\ UNCHANGED replies

\* The menu rows found are compared with the list of the ids sent.
Orderable(basket) == Cardinality(ToSet(basket) \cap Available) = Len(basket)

Taken(o) == status[o] # "absent" \/ \E t \in Tasks : task[t].order = o

\* The route's dependency; the widget has none.
Forbidden(t) == task[t].kind = "manual" /\ ~May(task[t].event.by, "orders.write")

CheckBasket(t) ==
    /\ task[t].pc = "create"
    /\ UNCHANGED <<status, closed, history, published, board, session, requests,
                   failures>>
    /\ \/ /\ Forbidden(t)
          /\ Answer(t, "403")
          /\ UNCHANGED refused
       \/ /\ ~Forbidden(t)
          /\ ~Orderable(task[t].basket)
          /\ Answer(t, "500")
          /\ refused' = refused \cup {task[t].basket}
       \/ /\ ~Forbidden(t)
          /\ Orderable(task[t].basket)
          /\ \E o \in Orders :
                /\ ~Taken(o)
                /\ task' = [task EXCEPT ![t].pc = "flush", ![t].order = o]
          /\ UNCHANGED <<replies, refused>>

-----------------------------------------------------------------------------
(* Flush, publication and COMMIT                                           *)

Holds(t, o) == task[t].order = o /\ task[t].pc \in {"publish", "commit"}

FlushAtCommit(t) ==                                                 \* mutant
    /\ task[t].pc = "flush"
    /\ task' = [task EXCEPT ![t].pc = "publish"]
    /\ UNCHANGED <<status, closed, history, published, board, replies, refused,
                   session, requests, failures>>

\* The row lock is taken here and kept until the transaction ends.
Flush(t) ==
    /\ task[t].pc = "flush"
    /\ \A u \in Tasks : ~Holds(u, task[t].order)
    /\ task' = [task EXCEPT ![t].pc = "publish"]
    /\ UNCHANGED <<status, closed, history, published, board, replies, refused,
                   session, requests, failures>>

Sent(t) ==
    /\ published' = [published EXCEPT ![task[t].order] = @ \cup {task[t].event}]
    /\ board' = [board EXCEPT ![task[t].order] = task[t].event.to]

PublishBestEffort(t) ==                                             \* mutant
    /\ task[t].pc = "publish"
    /\ Sent(t) \/ UNCHANGED <<published, board>>
    /\ task' = [task EXCEPT ![t].pc = "commit"]
    /\ UNCHANGED <<status, closed, history, replies, refused, session, requests,
                   failures>>

PublishOrderEvent(t) ==
    /\ task[t].pc = "publish"
    /\ Sent(t)
    /\ task' = [task EXCEPT ![t].pc = "commit"]
    /\ UNCHANGED <<status, closed, history, replies, refused, session, requests,
                   failures>>

\* orders.closed_at as the transaction leaves it.
ClosedAt(t) == closed[task[t].order] \/ task[t].event.to = "completed"

Write(t) ==
    LET o == task[t].order
        e == task[t].event
    IN  /\ status' = [status EXCEPT ![o] = e.to]
        /\ closed' = [closed EXCEPT ![o] = ClosedAt(t)]

\* The event row, and with it the row of write_audit_log.
Logged(o, event) == [history EXCEPT ![o] = Append(@, event)]

Commit(t) ==
    LET o == task[t].order
    IN  /\ task[t].pc = "commit"
        /\ Write(t)
        /\ history' = Logged(o, task[t].event)
        /\ Answer(t, IF task[t].kind = "status" THEN "200" ELSE "201")
        /\ UNCHANGED <<published, board, refused, session, requests, failures>>

Breaks(t) ==
    /\ task[t].pc # "idle"
    /\ failures < MaxFailures
    /\ failures' = failures + 1
    /\ Answer(t, "500")

FailKeepsUpdate(t) ==                                               \* mutant
    /\ Breaks(t)
    /\ IF task[t].pc = "commit" THEN Write(t) ELSE UNCHANGED <<status, closed>>
    /\ UNCHANGED <<history, published, board, refused, session,
                   requests>>

\* An exception: the middleware rolls back; what is published stays so.
Fail(t) ==
    /\ Breaks(t)
    /\ UNCHANGED <<status, closed, history, published, board, refused, session,
                   requests>>

-----------------------------------------------------------------------------
HandlerStep(t) ==
    \/ CommitSession(t)
    \/ LoadOrder(t)
    \/ CheckBasket(t)
    \/ Flush(t)
    \/ PublishOrderEvent(t)
    \/ Commit(t)

Receive(t) ==
    \/ \E o \in Orders, to \in Statuses, role \in Roles :
          PatchOrderStatus(t, o, to, role)
    \/ \E basket \in Baskets, role \in Roles : CreateManualOrder(t, basket, role)
    \/ CreateSession(t)
    \/ \E basket \in Baskets : CreateWidgetOrder(t, basket)

Next == \E t \in Tasks : Receive(t) \/ HandlerStep(t) \/ Fail(t)

Spec == Init /\ [][Next]_vars

-----------------------------------------------------------------------------
(* Properties                                                              *)

Local == [pc: Steps, kind: Kinds, order: Orders \cup {NoOrder},
          basket: Baskets \cup {<< >>}, event: Events \cup {NoEvent}]

TypeOK ==
    /\ status \in [Orders -> Statuses \cup {"absent"}]
    /\ closed \in [Orders -> BOOLEAN]
    /\ history \in [Orders -> Seq(Events)]
    /\ published \in [Orders -> SUBSET Events]
    /\ board \in [Orders -> Statuses \cup {"absent"}]
    /\ task \in [Tasks -> Local]
    /\ replies \subseteq [role: Roles \cup {"guest"}, code: Codes]
    /\ refused \subseteq Baskets
    /\ session \in BOOLEAN
    /\ requests \in 0..MaxRequests
    /\ failures \in 0..MaxFailures

\* The event log tells where an order stands: its first entry is the
\* creation and its last entry the committed status, whatever failed.
HistoryTellsStatus ==
    \A o \in Orders :
        IF history[o] = << >> THEN status[o] = "absent"
        ELSE /\ \A i \in DOMAIN history[o] : (history[o][i].from = "none") = (i = 1)
             /\ Last(history[o]).to = status[o]

\* Whatever is committed was announced, and announced last: a subscriber
\* misses no change, and none overtakes another between flush and COMMIT.
Board == INSTANCE OrderBoard WITH Changes <- Events

ImplementsBoard == Board!Spec

\* The row lock is held from the flush over the publication to COMMIT, so
\* changes are announced in the order in which they are committed: when no
\* request works on an order and none failed, subscribers know its status.
BoardConverges ==
    failures = 0 =>
        \A o \in Orders :
            (\A t \in Tasks : ~Holds(t, o)) => board[o] = status[o]

\* closed_at marks the completed orders.
ClosedIffCompleted == \A o \in Orders : closed[o] = (status[o] = "completed")

\* Each committed change of status is one that ALLOWED_TRANSITIONS has, from
\* the status that the change before it left.
HistoryFollowsPolicy ==
    \A o \in Orders : \A i \in DOMAIN history[o] \ {1} :
        history[o][i].to \in Allowed[history[o][i - 1].to]

AtWork == {t \in Tasks : task[t].pc # "idle"}

\* The checks of update_order_status are enough as long as requests come one
\* at a time.  Two employees who press a button at the same time break it.
PolicyHoldsIfSerial ==
    [](Cardinality(AtWork) <= 1) => [](HistoryFollowsPolicy /\ ClosedIffCompleted)

\* What is announced as a new order or a changed status is in the database
\* as soon as the request has ended.
PublishedWasCommitted ==
    \A o \in Orders :
        (\A t \in Tasks : ~Holds(t, o)) => published[o] \subseteq ToSet(history[o])

\* A cook only moves orders through the kitchen.
CookStaysInKitchen ==
    \A o \in Orders : \A e \in ToSet(history[o]) :
        e.by = "cook" => e.to \in {"preparing", "ready"}

\* A manager is never refused a change of status for lack of permission.
ManagerHasFullAccess == [role |-> "manager", code |-> "403"] \notin replies

\* A basket is refused as unavailable only if it holds such a dish.
RefusedOnlyIfUnavailable ==
    \A b \in refused : ~(ToSet(b) \subseteq Available)

\* Without a lost connection no request of an employee ends in an error 500
\* raised by the middleware itself.
MiddlewareServes ==
    (failures = 0 /\ refused = {}) =>
        \A role \in Roles : [role |-> role, code |-> "500"] \notin replies
=============================================================================
