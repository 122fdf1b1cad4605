------------------------------ MODULE Payments ------------------------------
(***************************************************************************)
(* The payment worker of the restaurant backend (payments/worker.py) and   *)
(* the webhook endpoint that calls it (api/routes/payments.py), run        *)
(* against PostgreSQL in READ COMMITTED mode and against the payment       *)
(* provider YooKassa.                                                      *)
(*                                                                         *)
(* A task is one coroutine with a pooled connection: a checkout            *)
(* (process_payment), a webhook delivery (handle_webhook) or the polling   *)
(* fallback (poll_payment_status, which calls handle_webhook).  A task     *)
(* takes one step per SQL statement or remote call, the points at which    *)
(* other tasks run.  A SELECT reads the committed rows and takes no lock;  *)
(* an UPDATE waits until no other transaction holds its row and holds it   *)
(* until COMMIT, so what it writes is published by the commit step alone.  *)
(*                                                                         *)
(* The balance users.loyalty_points only ever receives "+ bonus" and       *)
(* "+ loyalty_used" here, evaluated in place by the database: the model    *)
(* keeps it as the number of bonuses and refunds each order has credited.  *)
(* orders.user_id may be NULL or name nobody in users, and the number of   *)
(* rows an UPDATE hits is not looked at: such an order credits nobody.     *)
(*                                                                         *)
(* orders.status is written by the admin panel as well, by requests that   *)
(* decide on what they read before: it may hold any of the panel's         *)
(* statuses at any time, of which the model tells only "cancelled".        *)
(***************************************************************************)
EXTENDS Naturals, FiniteSets

CONSTANTS
    Orders,         \* orders rows of one tenant schema
    Users,          \* users rows
    Payments,       \* payment ids YooKassa may hand out
    Tasks,          \* coroutines of the worker and API processes
    NoOrder, NoPayment, NoUser,
    UserOf,         \* the users row of orders.user_id, or NoUser
    Amount,         \* orders.amount
    Used,           \* orders.loyalty_used
    Named,          \* orders whose every item in items_json has a "name"
    Signed,         \* YOOKASSA_WEBHOOK_SECRET is set (None by default)
    PollAttempts,   \* attempts of poll_payment_status (12 in the code)
    MaxDuplicates,  \* bound: notifications per payment beyond the needed ones
    MaxFailures,    \* bound: exceptions and process crashes
    SingleCheckout, \* TRUE: the client opens one checkout per order
    ExactlyOnce     \* what is asked of the contract (see PaymentContract)

ASSUME PaymentsAssumption ==
    /\ IsFiniteSet(Tasks)
    /\ NoOrder \notin Orders
    /\ NoPayment \notin Payments
    /\ NoUser \notin Users
    /\ UserOf \in [Orders -> Users \cup {NoUser}]
    /\ Amount \in [Orders -> Nat]
    /\ Used \in [Orders -> Nat]
    /\ Named \subseteq Orders
    /\ Signed \in BOOLEAN
    /\ PollAttempts \in Nat \ {0}
    /\ MaxDuplicates \in Nat
    /\ MaxFailures \in Nat
    /\ SingleCheckout \in BOOLEAN
    /\ ExactlyOnce \in BOOLEAN

VARIABLES
    orders,     \* committed orders rows
    credits,    \* committed credits to users.loyalty_points, by order
    provider,   \* YooKassa's payments
    acked,      \* payments whose final notification was answered 200
    dups,       \* notifications sent beyond the needed ones, by payment
    polled,     \* payments whose polling was started
    task,       \* local state of each coroutine
    failures    \* exceptions and crashes so far

vars == <<orders, credits, provider, acked, dups, polled, task, failures>>

Succeeded == "payment.succeeded"
Canceled  == "payment.canceled"
OtherEvent == "payment.waiting_for_capture"
Final     == {Succeeded, Canceled}

OrderRow ==
    [payment_status: {"pending", "paid", "failed"},
     status: {"open", "confirmed", "cancelled"},   \* "open": any other
     payment_id: Payments \cup {NoPayment}]

ProviderRow ==
    [order: Orders \cup {NoOrder},
     status: {"none", "pending"} \cup Final,
     url: BOOLEAN]          \* the client has the confirmation URL

Steps == {"idle", "create", "store", "stored", "poll",
          "read", "mark", "accrue", "refund", "fail", "commit"}

TaskState ==
    [pc: Steps,
     order: Orders \cup {NoOrder},
     payment: Payments \cup {NoPayment},
     event: Final \cup {OtherEvent},
     tries: 0..PollAttempts]   \* polling attempts left, 0 outside polling

Idle == [pc |-> "idle", order |-> NoOrder, payment |-> NoPayment,
         event |-> OtherEvent, tries |-> 0]

Init ==
    /\ orders = [o \in Orders |-> [payment_status |-> "pending",
                                   status |-> "open",
                                   payment_id |-> NoPayment]]
    /\ credits = [o \in Orders |-> [accrued |-> 0, refunded |-> 0]]
    /\ provider = [p \in Payments |->
                      [order |-> NoOrder, status |-> "none", url |-> FALSE]]
    /\ acked = {}
    /\ dups = [p \in Payments |-> 0]
    /\ polled = {}
    /\ task = [t \in Tasks |-> Idle]
    /\ failures = 0

\* Orders whose points go to somebody.
Earning == {o \in Orders : UserOf[o] # NoUser}

-----------------------------------------------------------------------------
(* Row locks.                                                              *)

\* The rows a task has updated and not yet committed.
Held(t) ==
    LET o == task[t].order
        pc == task[t].pc
    IN  (IF pc \in {"stored", "accrue", "commit"}
         THEN {<<"order", o>>} ELSE {})
        \cup
        (IF /\ o \in Earning
            /\ \/ pc = "commit" /\ task[t].event = Succeeded
               \/ pc \in {"fail", "commit"} /\ Used[o] > 0 /\ task[t].event # Succeeded
         THEN {<<"user", UserOf[o]>>} ELSE {})

\* The row the next UPDATE of a task must lock.
NextRow(t) ==
    IF task[t].pc \in {"accrue", "refund"}
    THEN <<"user", UserOf[task[t].order]>>
    ELSE <<"order", task[t].order>>

AtUpdate(t) == task[t].pc \in {"store", "mark", "accrue", "refund", "fail"}

Granted(t) == \A k \in Tasks \ {t} : NextRow(t) \notin Held(k)

\* One UPDATE: wait for the row, hold it, go on to the next statement.
Update(t, from, to) ==
    /\ task[t].pc = from
    /\ Granted(t)
    /\ task' = [task EXCEPT ![t].pc = to]
    /\ UNCHANGED <<orders, credits, provider, acked, dups, polled, failures>>

\* PostgreSQL aborts a transaction that waits in a cycle of lock waits.
InWaitCycle(t) ==
    \E S \in SUBSET Tasks :
        /\ t \in S
        /\ \A k \in S : /\ AtUpdate(k)
                        /\ \E j \in S \ {k} : NextRow(k) \in Held(j)

-----------------------------------------------------------------------------
(* The admin panel sets an order's status; its transaction holds no other  *)
(* row that the worker waits for, so it is one step here.                  *)

PanelSetsStatus(o, status) ==
    /\ orders[o].status # status
    /\ \A t \in Tasks : <<"order", o>> \notin Held(t)
    /\ orders' = [orders EXCEPT ![o].status = status]
    /\ UNCHANGED <<credits, provider, acked, dups, polled, task, failures>>

-----------------------------------------------------------------------------
(* process_payment                                                         *)

\* With SingleCheckout the client opens no second checkout for an order.
FirstCheckout(o) ==
    /\ \A p \in Payments : provider[p].order # o
    /\ \A t \in Tasks : task[t].pc = "create" => task[t].order # o

\* Bound: checkouts are started while payment ids are left for them.
SpareId ==
    Cardinality({t \in Tasks : task[t].pc = "create"})
        < Cardinality({p \in Payments : provider[p].status = "none"})

\* SELECT of the order and the checks before the remote call; a row that
\* fails a check raises and changes nothing.
StartCheckout(t, o) ==
    /\ task[t].pc = "idle"
    /\ SpareId
    /\ SingleCheckout => FirstCheckout(o)
    /\ orders[o].payment_status = "pending"
    /\ Amount[o] > Used[o]
    /\ o \in Named
    /\ task' = [task EXCEPT ![t] = [Idle EXCEPT !.pc = "create", !.order = o]]
    /\ UNCHANGED <<orders, credits, provider, acked, dups, polled, failures>>

\* Payment.create: every call carries a fresh key, so every call makes a
\* new payment at the provider.
CreatePayment(t) ==
    /\ task[t].pc = "create"
    /\ \E p \in Payments :
          /\ provider[p].status = "none"
          /\ provider' = [provider EXCEPT ![p] =
                [order |-> task[t].order, status |-> "pending", url |-> FALSE]]
          /\ task' = [task EXCEPT ![t].pc = "store", ![t].payment = p]
    /\ UNCHANGED <<orders, credits, acked, dups, polled, failures>>

StorePaymentId(t) == Update(t, "store", "stored")

\* COMMIT, and the confirmation URL is returned to the client.
CommitCheckout(t) ==
    LET p == task[t].payment IN
    /\ task[t].pc = "stored"
    /\ orders' = [orders EXCEPT ![task[t].order].payment_id = p]
    /\ provider' = [provider EXCEPT ![p].url = TRUE]
    /\ task' = [task EXCEPT ![t] = Idle]
    /\ UNCHANGED <<credits, acked, dups, polled, failures>>

-----------------------------------------------------------------------------
(* YooKassa                                                                *)

\* The client pays only at the confirmation URL; the provider cancels a
\* payment that is declined or expires.
Settle(p, outcome) ==
    /\ provider[p].status = "pending"
    /\ outcome = Succeeded => provider[p].url
    /\ provider' = [provider EXCEPT ![p].status = outcome]
    /\ UNCHANGED <<orders, credits, acked, dups, polled, task, failures>>

Delivering(p) ==
    \E t \in Tasks : /\ task[t].pc # "idle"
                     /\ task[t].payment = p
                     /\ task[t].tries = 0
                     /\ task[t].event \in Final

\* What YooKassa itself has to say of a payment.
Genuine(p, event) == event \in Final => event = provider[p].status

\* A request reaches the webhook endpoint.  With a secret a request whose
\* signature does not match is answered 400 and changes nothing; without one
\* the endpoint takes whatever is posted for what the provider says.
Receive(t, p, event) ==
    /\ task[t].pc = "idle"
    /\ Signed => Genuine(p, event)
    /\ task' = [task EXCEPT ![t] =
          [Idle EXCEPT !.pc = "read", !.payment = p, !.event = event]]

\* The notification of the final status, repeated until it is answered 200.
Notify(t, p) ==
    /\ provider[p].status \in Final
    /\ p \notin acked
    /\ ~Delivering(p)
    /\ Receive(t, p, provider[p].status)
    /\ UNCHANGED <<orders, credits, provider, acked, dups, polled, failures>>

\* A duplicate of it, a late notification of another event, or a request
\* that the provider did not send.
NotifyAgain(t, p, event) ==
    /\ provider[p].status # "none"
    /\ dups[p] < MaxDuplicates
    /\ dups' = [dups EXCEPT ![p] = @ + 1]
    /\ Receive(t, p, event)
    /\ UNCHANGED <<orders, credits, provider, acked, polled, failures>>

-----------------------------------------------------------------------------
(* poll_payment_status                                                     *)

\* The caller of process_payment polls the payment it got a URL for.
StartPolling(t, p) ==
    /\ task[t].pc = "idle"
    /\ provider[p].url
    /\ p \notin polled
    /\ polled' = polled \cup {p}
    /\ task' = [task EXCEPT ![t] =
          [Idle EXCEPT !.pc = "poll", !.payment = p, !.tries = PollAttempts]]
    /\ UNCHANGED <<orders, credits, provider, acked, dups, failures>>

\* The state of a polling task after an attempt that settled nothing.
NextAttempt(t) ==
    IF task[t].tries = 1 THEN Idle
    ELSE [Idle EXCEPT !.pc = "poll", !.payment = task[t].payment,
                      !.tries = task[t].tries - 1]

\* (mutant: polling that gives up reports a cancellation)
PollGivesUpAsCanceled(t) ==
    LET status == provider[task[t].payment].status IN
    /\ task[t].pc = "poll"
    /\ task' = [task EXCEPT ![t] =
          IF status \in Final \/ task[t].tries = 1
          THEN [task[t] EXCEPT !.pc = "read",
                    !.event = IF status \in Final THEN status ELSE Canceled]
          ELSE NextAttempt(t)]
    /\ UNCHANGED <<orders, credits, provider, acked, dups, polled, failures>>

\* One Payment.find_one: hand a final status to handle_webhook, else sleep.
Poll(t) ==
    LET status == provider[task[t].payment].status IN
    /\ task[t].pc = "poll"
    /\ task' = [task EXCEPT ![t] =
          IF status \in Final
          THEN [task[t] EXCEPT !.pc = "read", !.event = status]
          ELSE NextAttempt(t)]
    /\ UNCHANGED <<orders, credits, provider, acked, dups, polled, failures>>

-----------------------------------------------------------------------------
(* handle_webhook                                                          *)

\* The handler returns: a delivery is answered 200, polling ends.
Return(t) ==
    LET p == task[t].payment IN
    /\ task' = [task EXCEPT ![t] = Idle]
    /\ acked' = IF task[t].tries = 0 /\ task[t].event = provider[p].status
                THEN acked \cup {p} ELSE acked

\* The events that have a branch in the code.
Handled == Final

\* The idempotency guard.
NeverDuplicate(o, event) == FALSE       \* (mutant: no guard)
Duplicate(o, event) ==
    orders[o].payment_status = "paid" /\ event = Succeeded

\* The statement after the SELECT: the orders UPDATE comes first for a
\* success and last for a cancellation.
FirstUpdate(o, event) ==
    IF event = Succeeded THEN "mark"
    ELSE IF Used[o] > 0 THEN "refund" ELSE "fail"

\* SELECT ... WHERE payment_id = $1, the guard and the choice of branch.
ReadOrder(t) ==
    LET found == {o \in Orders : orders[o].payment_id = task[t].payment}
        event == task[t].event
    IN
    /\ task[t].pc = "read"
    /\ \/ /\ \/ found = {}
             \/ event \notin Handled
             \/ \E o \in found : Duplicate(o, event)
          /\ Return(t)
       \/ \E o \in found :
             /\ event \in Handled
             /\ ~Duplicate(o, event)
             /\ task' = [task EXCEPT ![t].pc = FirstUpdate(o, event),
                                     ![t].order = o]
             /\ UNCHANGED acked
    /\ UNCHANGED <<orders, credits, provider, dups, polled, failures>>

\* What the transactions of a success and of a cancellation write.
PaidRow(row)   == [row EXCEPT !.payment_status = "paid", !.status = "confirmed"]
FailedKeepsPayment(row) == [row EXCEPT !.status = "cancelled"]    \* (mutant)
FailedRow(row) == [row EXCEPT !.payment_status = "failed", !.status = "cancelled"]

\* (mutant: the UPDATE is committed on its own, outside the transaction)
RefundAutocommit(t) ==
    /\ task[t].pc = "refund"
    /\ Granted(t)
    /\ task' = [task EXCEPT ![t].pc = "fail"]
    /\ credits' = [credits EXCEPT ![task[t].order].refunded = @ + 1]
    /\ UNCHANGED <<orders, provider, acked, dups, polled, failures>>

MarkPaid(t)     == Update(t, "mark", "accrue")
AccrueBonus(t)  == Update(t, "accrue", "commit")
RefundPoints(t) == Update(t, "refund", "fail")
MarkFailed(t)   == Update(t, "fail", "commit")

\* The UPDATEs of users, which hit no row for an order that earns nobody
\* points.
Accrued(o, credit) ==
    IF o \in Earning THEN [credit EXCEPT !.accrued = @ + 1] ELSE credit
Refunded(o, credit) ==
    IF o \in Earning /\ Used[o] > 0 THEN [credit EXCEPT !.refunded = @ + 1] ELSE credit

CommitWebhook(t) ==
    LET o == task[t].order IN
    /\ task[t].pc = "commit"
    /\ \/ /\ task[t].event = Succeeded
          /\ orders' = [orders EXCEPT ![o] = PaidRow(@)]
          /\ credits' = [credits EXCEPT ![o] = Accrued(o, @)]
       \/ /\ task[t].event # Succeeded
          /\ orders' = [orders EXCEPT ![o] = FailedRow(@)]
          /\ credits' = [credits EXCEPT ![o] = Refunded(o, @)]
    /\ Return(t)
    /\ UNCHANGED <<provider, dups, polled, failures>>

-----------------------------------------------------------------------------
(* Failures                                                                *)

\* (mutant: the endpoint answers 200 although the handler raised)
AbortAcknowledged(t) ==
    /\ task' = [task EXCEPT ![t] =
          IF task[t].tries > 0 THEN NextAttempt(t) ELSE Idle]
    /\ acked' = acked \cup ({task[t].payment} \ {NoPayment})
    /\ UNCHANGED <<orders, credits, provider, dups, polled>>

\* An exception: the transaction rolls back.  A webhook answers 500; polling
\* swallows it and goes on with the next attempt.
Abort(t) ==
    /\ task' = [task EXCEPT ![t] =
          IF task[t].tries > 0 THEN NextAttempt(t) ELSE Idle]
    /\ UNCHANGED <<orders, credits, provider, acked, dups, polled>>

Fail(t) ==
    /\ task[t].pc # "idle"
    /\ failures < MaxFailures
    /\ failures' = failures + 1
    /\ Abort(t)

DeadlockVictim(t) ==
    /\ InWaitCycle(t)
    /\ Abort(t)
    /\ UNCHANGED failures

\* The process dies with all its coroutines and connections.
Crash ==
    /\ failures < MaxFailures
    /\ failures' = failures + 1
    /\ task' = [t \in Tasks |-> Idle]
    /\ UNCHANGED <<orders, credits, provider, acked, dups, polled>>

-----------------------------------------------------------------------------
CheckoutStep(t) ==
    \/ CreatePayment(t)
    \/ StorePaymentId(t)
    \/ CommitCheckout(t)

HandlerStep(t) ==
    \/ ReadOrder(t)
    \/ MarkPaid(t)
    \/ AccrueBonus(t)
    \/ RefundPoints(t)
    \/ MarkFailed(t)
    \/ CommitWebhook(t)

Next ==
    \/ \E t \in Tasks :
          \/ CheckoutStep(t)
          \/ Poll(t)
          \/ HandlerStep(t)
          \/ Fail(t)
          \/ DeadlockVictim(t)
    \/ \E t \in Tasks, o \in Orders : StartCheckout(t, o)
    \/ \E t \in Tasks, p \in Payments : Notify(t, p)
    \/ \E t \in Tasks, p \in Payments, event \in Final \cup {OtherEvent} :
          NotifyAgain(t, p, event)
    \/ \E t \in Tasks, p \in Payments : StartPolling(t, p)
    \/ \E p \in Payments, outcome \in Final : Settle(p, outcome)
    \/ \E o \in Orders, status \in {"open", "cancelled"} : PanelSetsStatus(o, status)
    \/ Crash

Spec == Init /\ [][Next]_vars

(* The event loop runs every coroutine that is ready, PostgreSQL grants a  *)
(* free row and breaks wait cycles, YooKassa repeats an unanswered         *)
(* notification.  Nobody has to open a checkout, pay, poll or fail.        *)
Fairness ==
    /\ \A t \in Tasks : /\ WF_vars(CheckoutStep(t))
                        /\ WF_vars(Poll(t))
                        /\ WF_vars(HandlerStep(t))
                        /\ WF_vars(DeadlockVictim(t))
    /\ \A p \in Payments : WF_vars(\E t \in Tasks : Notify(t, p))

FairSpec == Spec /\ Fairness

-----------------------------------------------------------------------------
(* Properties                                                              *)

TypeOK ==
    /\ orders \in [Orders -> OrderRow]
    /\ credits \in [Orders -> [accrued: Nat, refunded: Nat]]
    /\ provider \in [Payments -> ProviderRow]
    /\ acked \subseteq Payments
    /\ dups \in [Payments -> 0..MaxDuplicates]
    /\ polled \subseteq Payments
    /\ task \in [Tasks -> TaskState]
    /\ failures \in 0..MaxFailures

\* The payment status and the loyalty balance change together or not at all,
\* whatever crashes or interleaves between the UPDATEs of handle_webhook: a
\* pending order has moved no points, a paid one has its bonus and a failed one
\* its points back, if its user_id names somebody to give them to.
StatusAgreesWithCredits ==
    \A o \in Orders :
        /\ orders[o].payment_status = "pending" =>
              /\ credits[o].accrued = 0
              /\ credits[o].refunded = 0
        /\ orders[o].payment_status = "paid" /\ o \in Earning =>
              credits[o].accrued > 0
        /\ orders[o].payment_status = "failed" /\ o \in Earning /\ Used[o] > 0 =>
              credits[o].refunded > 0

\* What the orders table says happened, happened at YooKassa, to a payment
\* that was made for this very order: no order is marked paid (or failed) by a
\* notification about another order or another outcome.  Only a webhook that
\* verifies signatures can promise that.
StatusIsBacked ==
    Signed => \A o \in Orders :
        /\ orders[o].payment_status = "paid" =>
              \E p \in Payments : /\ provider[p].order = o
                                  /\ provider[p].status = Succeeded
        /\ orders[o].payment_status = "failed" =>
              \E p \in Payments : /\ provider[p].order = o
                                  /\ provider[p].status = Canceled

\* The bonus of an order is accrued once, however often its success is
\* notified (the guard of handle_webhook).
BonusAccruedOnce == \A o \in Orders : credits[o].accrued <= 1

Handling == {t \in Tasks : task[t].pc \in {"read", "mark", "accrue", "refund",
                                          "fail", "commit"}}

\* The guard of handle_webhook is enough as long as no two events are handled
\* at the same time: then no repetition, crash or retry accrues a second bonus.
BonusOnceIfSerial == [](Cardinality(Handling) <= 1) => []BonusAccruedOnce

Contract == INSTANCE PaymentContract
    WITH ledger <- [o \in Orders |-> orders[o].payment_status]

\* The worker implements its contract: the outcome of an order and the
\* loyalty credits change as one step of PaymentContract or not at all.
ImplementsContract == Contract!Spec

\* Each delivery of a cancellation returns the points once at most: what is
\* refunded to an order is covered by the notifications YooKassa needed, the
\* repetitions and the polls of its payments, whatever failed in between.
RefundsCounted ==
    LET Told(p) == 1 + dups[p] + (IF p \in polled THEN 1 ELSE 0)
        Deliveries == {d \in Payments \X (1..MaxDuplicates + 2) : d[2] <= Told(d[1])}
    IN  \A o \in Orders :
            credits[o].refunded <= Cardinality({d \in Deliveries : provider[d[1]].order = o})

\* A paid order has its bonus.  (Not so: orders of the widget have no user_id,
\* those of the panel have the employee's.)
PaidOrderHasBonus ==
    \A o \in Orders : orders[o].payment_status = "paid" => credits[o].accrued > 0

\* orders.status holds one of the statuses that the blueprint lists, from
\* which the panel knows the way on.
StatusAsDocumented == \A o \in Orders : orders[o].status # "confirmed"

\* Duplicates of a cancellation return the points once.
PointsRefundedOnce == \A o \in Orders : credits[o].refunded <= 1

\* An order is charged for once.
ChargedOnce ==
    \A o \in Orders :
        Cardinality({p \in Payments : /\ provider[p].order = o
                                      /\ provider[p].status = Succeeded}) <= 1

\* A paid order stays paid: neither a late notification nor the expiry of
\* anything takes it back.
PaidIsFinal ==
    [][\A o \in Orders : orders[o].payment_status = "paid" =>
                         orders'[o].payment_status = "paid"]_vars

\* A charge is recorded: once a payment has succeeded its order is
\* eventually marked paid, through crashes, failed deliveries and lost polls.
ChargeIsRecorded ==
    \A p \in Payments, o \in Orders :
        (provider[p].order = o /\ provider[p].status = Succeeded)
            ~> (orders[o].payment_status = "paid")
=============================================================================
