--------------------------- MODULE PaymentsProofs ---------------------------
(***************************************************************************)
(* Proofs about Payments, for every value of its constants.                *)
(***************************************************************************)
EXTENDS Payments, FiniteSetTheorems, TLAPS

\* What a coroutine knows at each statement: the payment it stores was made
\* for its order, the row it updates is the row of the order the payment was made
\* for and, if webhooks are verified, the event it applies is the state of that
\* payment.
Knows(me) ==
    /\ me.pc = "create" => me.order \in Orders
    /\ me.pc \in {"store", "stored"} =>
          /\ me.order \in Orders
          /\ me.payment \in Payments
          /\ provider[me.payment].order = me.order
          /\ provider[me.payment].status # "none"
    /\ me.tries > 0 => me.payment \in Payments
    /\ me.pc = "poll" => me.tries > 0
    /\ me.pc = "read" =>
          /\ me.payment \in Payments
          /\ Signed => Genuine(me.payment, me.event)
    /\ me.pc \in {"mark", "accrue", "refund", "fail", "commit"} =>
          /\ me.order \in Orders
          /\ me.payment \in Payments
          /\ me.event \in Final
          /\ provider[me.payment].order = me.order
          /\ provider[me.payment].status # "none"
          /\ Signed => provider[me.payment].status = me.event

TasksKnow == \A t \in Tasks : Knows(task[t])

\* The payment id stored in a row belongs to a payment made for that row.
RowsKnow ==
    \A o \in Orders :
        LET p == orders[o].payment_id IN
        p # NoPayment => /\ provider[p].order = o
                         /\ provider[p].status # "none"

IInv ==
    /\ TypeOK
    /\ TasksKnow
    /\ RowsKnow
    /\ StatusAgreesWithCredits
    /\ StatusIsBacked

USE DEF Succeeded, Canceled, OtherEvent, Final, Handled, Genuine

-----------------------------------------------------------------------------
LEMMA InitIInv == Init => IInv
<1> SUFFICES ASSUME Init PROVE IInv
  OBVIOUS
<1> USE PaymentsAssumption DEF Init
<1>1. TypeOK
  BY DEF TypeOK, OrderRow, ProviderRow, TaskState, Steps, Idle
<1>2. TasksKnow
  BY DEF TasksKnow, Knows, Idle
<1>3. RowsKnow
  BY DEF RowsKnow
<1>4. StatusAgreesWithCredits
  BY DEF StatusAgreesWithCredits
<1>5. StatusIsBacked
  BY DEF StatusIsBacked
<1> QED
  BY <1>1, <1>2, <1>3, <1>4, <1>5 DEF IInv

\* A step that only moves one coroutine keeps the invariant when the
\* coroutine knows afterwards what it must.
LEMMA MoveKeepsIInv ==
  ASSUME IInv, NEW t \in Tasks, NEW me \in TaskState, Knows(me),
         task' = [task EXCEPT ![t] = me],
         UNCHANGED <<orders, credits, provider>>,
         acked' \subseteq Payments, dups' \in [Payments -> 0..MaxDuplicates],
         polled' \subseteq Payments, failures' \in 0..MaxFailures
  PROVE  IInv'
<1>1. TypeOK'
  BY DEF IInv, TypeOK
<1>2. TasksKnow'
  <2> SUFFICES ASSUME NEW k \in Tasks PROVE Knows(task[k])'
    BY DEF TasksKnow
  <2>1. (task[k])' = IF k = t THEN me ELSE task[k]
    BY DEF IInv, TypeOK
  <2>2. Knows(task[k])
    BY DEF IInv, TasksKnow
  <2> QED
    BY <2>1, <2>2 DEF Knows
<1>3. RowsKnow' /\ StatusAgreesWithCredits' /\ StatusIsBacked'
  BY DEF IInv, RowsKnow, StatusAgreesWithCredits, StatusIsBacked
<1> QED
  BY <1>1, <1>2, <1>3 DEF IInv

LEMMA IdleKnows ==
  /\ Idle \in TaskState /\ Knows(Idle)
  /\ Idle.pc = "idle" /\ Idle.event = OtherEvent /\ Idle.tries = 0
BY PaymentsAssumption DEF Idle, TaskState, Steps, Knows

LEMMA UpdateKeepsIInv ==
  ASSUME IInv, NEW t \in Tasks, NEW from, NEW to, Update(t, from, to),
         \/ from = "store" /\ to = "stored"
         \/ from = "mark" /\ to = "accrue"
         \/ from = "accrue" /\ to = "commit"
         \/ from = "refund" /\ to = "fail"
         \/ from = "fail" /\ to = "commit"
  PROVE  IInv'
<1> DEFINE me == [task[t] EXCEPT !.pc = to]
<1>1. task[t] \in TaskState /\ Knows(task[t])
  BY DEF IInv, TypeOK, TasksKnow
<1>2. me \in TaskState
  BY <1>1 DEF TaskState, Steps
<1>3. Knows(me)
  BY <1>1 DEF Knows, Update, TaskState
<1>4. task' = [task EXCEPT ![t] = me]
  BY DEF Update
<1>5. /\ UNCHANGED <<orders, credits, provider>>
      /\ acked' \subseteq Payments /\ dups' \in [Payments -> 0..MaxDuplicates]
      /\ polled' \subseteq Payments /\ failures' \in 0..MaxFailures
  BY DEF Update, IInv, TypeOK
<1> HIDE DEF me
<1> QED
  BY <1>2, <1>3, <1>4, <1>5, MoveKeepsIInv

-----------------------------------------------------------------------------
LEMMA StartCheckoutKeepsIInv ==
  ASSUME IInv, NEW t \in Tasks, NEW o \in Orders, StartCheckout(t, o)
  PROVE  IInv'
<1> DEFINE me == [Idle EXCEPT !.pc = "create", !.order = o]
<1>1. me \in TaskState /\ Knows(me)
  <2>1. me \in TaskState /\ me.pc = "create" /\ me.order = o /\ me.tries = 0
    BY IdleKnows, PaymentsAssumption DEF TaskState, Steps
  <2> HIDE DEF me
  <2> QED
    BY <2>1, PaymentsAssumption DEF Knows
<1> HIDE DEF me
<1>2. task' = [task EXCEPT ![t] = me]
  BY DEF StartCheckout, me
<1>3. /\ UNCHANGED <<orders, credits, provider>>
      /\ acked' \subseteq Payments /\ dups' \in [Payments -> 0..MaxDuplicates]
      /\ polled' \subseteq Payments /\ failures' \in 0..MaxFailures
  BY DEF StartCheckout, IInv, TypeOK
<1> QED
  BY <1>1, <1>2, <1>3, MoveKeepsIInv

LEMMA CreatePaymentKeepsIInv ==
  ASSUME IInv, NEW t \in Tasks, CreatePayment(t)
  PROVE  IInv'
<1>1. PICK p \in Payments :
        /\ provider[p].status = "none"
        /\ provider' = [provider EXCEPT ![p] =
             [order |-> task[t].order, status |-> "pending", url |-> FALSE]]
        /\ task' = [task EXCEPT ![t].pc = "store", ![t].payment = p]
  BY DEF CreatePayment
<1> DEFINE me == [task[t] EXCEPT !.pc = "store", !.payment = p]
           row == [order |-> task[t].order, status |-> "pending", url |-> FALSE]
<1>2. task[t] \in TaskState /\ Knows(task[t]) /\ task[t].order \in Orders
  BY DEF IInv, TypeOK, TasksKnow, CreatePayment, Knows
<1>3. me \in TaskState /\ me.pc = "store" /\ me.payment = p
        /\ me.order = task[t].order
  BY <1>2 DEF TaskState, Steps
<1>4. task' = [task EXCEPT ![t] = me]
  BY <1>1
<1>5. row \in ProviderRow
  BY <1>2 DEF ProviderRow
<1> HIDE DEF me
<1>6. TypeOK'
  <2>1. provider' \in [Payments -> ProviderRow]
    BY <1>1, <1>5 DEF IInv, TypeOK
  <2>2. task' \in [Tasks -> TaskState]
    BY <1>3, <1>4 DEF IInv, TypeOK
  <2> QED
    BY <2>1, <2>2 DEF IInv, TypeOK, CreatePayment
<1>7. \A q \in Payments : q # p => provider'[q] = provider[q]
  BY <1>1 DEF IInv, TypeOK
<1>8. provider'[p] = row
  BY <1>1 DEF IInv, TypeOK
<1>9. TasksKnow'
  <2> SUFFICES ASSUME NEW k \in Tasks PROVE Knows(task[k])'
    BY DEF TasksKnow
  <2>1. (task[k])' = IF k = t THEN me ELSE task[k]
    BY <1>4 DEF IInv, TypeOK
  <2>2. Knows(task[k])
    BY DEF IInv, TasksKnow
  <2>3. CASE k = t
    BY <2>1, <2>3, <1>2, <1>3, <1>8 DEF Knows
  <2>4. CASE k # t
    BY <2>1, <2>2, <2>4, <1>1, <1>7 DEF Knows
  <2> QED
    BY <2>3, <2>4
<1>10. RowsKnow'
  BY <1>1, <1>7, <1>8 DEF IInv, TypeOK, OrderRow, RowsKnow, CreatePayment
<1>11. StatusAgreesWithCredits'
  BY DEF IInv, StatusAgreesWithCredits, CreatePayment
<1>12. StatusIsBacked'
  BY <1>1, <1>7 DEF IInv, StatusIsBacked, CreatePayment
<1> QED
  BY <1>6, <1>9, <1>10, <1>11, <1>12 DEF IInv

LEMMA CommitCheckoutKeepsIInv ==
  ASSUME IInv, NEW t \in Tasks, CommitCheckout(t)
  PROVE  IInv'
<1> DEFINE o == task[t].order
           p == task[t].payment
<1>1. /\ task[t] \in TaskState /\ o \in Orders /\ p \in Payments
      /\ provider[p].order = o /\ provider[p].status # "none"
  BY DEF IInv, TypeOK, TasksKnow, CommitCheckout, Knows
<1>2. orders' = [orders EXCEPT ![o] = [orders[o] EXCEPT !.payment_id = p]]
  BY DEF CommitCheckout
<1>3. provider' = [provider EXCEPT ![p] = [provider[p] EXCEPT !.url = TRUE]]
  BY DEF CommitCheckout
<1> DEFINE row == [orders[o] EXCEPT !.payment_id = p]
           pay == [provider[p] EXCEPT !.url = TRUE]
<1>4. /\ row \in OrderRow /\ row.payment_id = p
      /\ row.payment_status = orders[o].payment_status
      /\ row.status = orders[o].status
  BY <1>1 DEF IInv, TypeOK, OrderRow
<1>5. /\ pay \in ProviderRow /\ pay.order = provider[p].order
      /\ pay.status = provider[p].status
  BY <1>1 DEF IInv, TypeOK, ProviderRow
<1> HIDE DEF row, pay
<1>6. \A r \in Orders : orders'[r] = IF r = o THEN row ELSE orders[r]
  BY <1>2 DEF IInv, TypeOK, row
<1>7. \A q \in Payments : provider'[q] = IF q = p THEN pay ELSE provider[q]
  BY <1>3 DEF IInv, TypeOK, pay
<1>8. \A q \in Payments : /\ provider'[q].order = provider[q].order
                          /\ provider'[q].status = provider[q].status
  BY <1>5, <1>7
<1>9. TypeOK'
  <2>1. orders' \in [Orders -> OrderRow]
    BY <1>1, <1>2, <1>4 DEF IInv, TypeOK, row
  <2>2. provider' \in [Payments -> ProviderRow]
    BY <1>1, <1>3, <1>5 DEF IInv, TypeOK, pay
  <2>3. task' \in [Tasks -> TaskState]
    BY IdleKnows DEF IInv, TypeOK, CommitCheckout
  <2> QED
    BY <2>1, <2>2, <2>3 DEF IInv, TypeOK, CommitCheckout
<1>10. TasksKnow'
  <2> SUFFICES ASSUME NEW k \in Tasks PROVE Knows(task[k])'
    BY DEF TasksKnow
  <2>1. (task[k])' = IF k = t THEN Idle ELSE task[k]
    BY DEF CommitCheckout, IInv, TypeOK
  <2>2. Knows(task[k])
    BY DEF IInv, TasksKnow
  <2> QED
    BY <2>1, <2>2, <1>8 DEF Knows, Idle
<1>11. RowsKnow'
  BY <1>1, <1>4, <1>6, <1>8 DEF IInv, TypeOK, OrderRow, RowsKnow
<1>12. StatusAgreesWithCredits'
  BY <1>4, <1>6 DEF IInv, StatusAgreesWithCredits, CommitCheckout
<1>13. StatusIsBacked'
  BY <1>4, <1>6, <1>8 DEF IInv, StatusIsBacked
<1> QED
  BY <1>9, <1>10, <1>11, <1>12, <1>13 DEF IInv

-----------------------------------------------------------------------------
LEMMA SettleKeepsIInv ==
  ASSUME IInv, NEW p \in Payments, NEW outcome \in Final, Settle(p, outcome)
  PROVE  IInv'
<1> DEFINE pay == [provider[p] EXCEPT !.status = outcome]
<1>1. provider' = [provider EXCEPT ![p] = pay]
  BY DEF Settle
<1>2. pay \in ProviderRow /\ pay.order = provider[p].order /\ pay.status = outcome
  BY DEF IInv, TypeOK, ProviderRow
<1> HIDE DEF pay
<1>3. \A q \in Payments : provider'[q] = IF q = p THEN pay ELSE provider[q]
  BY <1>1 DEF IInv, TypeOK
<1>4. \A q \in Payments :
        /\ provider'[q].order = provider[q].order
        /\ provider[q].status \in Final => provider'[q].status = provider[q].status
        /\ provider[q].status # "none" => provider'[q].status # "none"
  BY <1>2, <1>3 DEF Settle
<1>5. TypeOK'
  BY <1>1, <1>2 DEF IInv, TypeOK, Settle
<1>6. TasksKnow'
  <2> SUFFICES ASSUME NEW k \in Tasks PROVE Knows(task[k])'
    BY DEF TasksKnow
  <2>1. Knows(task[k])
    BY DEF IInv, TasksKnow
  <2> QED
    BY <2>1, <1>4 DEF Knows, Settle
<1>7. RowsKnow'
  BY <1>4 DEF IInv, TypeOK, OrderRow, RowsKnow, Settle
<1>8. StatusAgreesWithCredits'
  BY DEF IInv, StatusAgreesWithCredits, Settle
<1>9. StatusIsBacked'
  BY <1>4 DEF IInv, StatusIsBacked, Settle
<1> QED
  BY <1>5, <1>6, <1>7, <1>8, <1>9 DEF IInv

LEMMA NotifyKeepsIInv ==
  ASSUME IInv, NEW t \in Tasks, NEW p \in Payments, NEW event \in Final \cup {OtherEvent},
         \/ Notify(t, p) /\ event = provider[p].status
         \/ NotifyAgain(t, p, event)
  PROVE  IInv'
<1> DEFINE me == [Idle EXCEPT !.pc = "read", !.payment = p, !.event = event]
<1>1. Signed => Genuine(p, event)
  BY DEF Notify, NotifyAgain, Receive
<1>2. me \in TaskState /\ Knows(me)
  <2>1. me \in TaskState /\ me.pc = "read" /\ me.payment = p /\ me.event = event
    BY IdleKnows, PaymentsAssumption DEF TaskState, Steps
  <2> HIDE DEF me
  <2> QED
    BY <2>1, <1>1, PaymentsAssumption DEF Knows
<1>3. task' = [task EXCEPT ![t] = me]
  BY DEF Notify, NotifyAgain, Receive
<1>4. /\ UNCHANGED <<orders, credits, provider>>
      /\ acked' \subseteq Payments /\ polled' \subseteq Payments
      /\ failures' \in 0..MaxFailures
  BY DEF Notify, NotifyAgain, IInv, TypeOK
<1>5. dups' \in [Payments -> 0..MaxDuplicates]
  BY PaymentsAssumption DEF Notify, NotifyAgain, IInv, TypeOK
<1> HIDE DEF me
<1> QED
  BY <1>2, <1>3, <1>4, <1>5, MoveKeepsIInv

LEMMA StartPollingKeepsIInv ==
  ASSUME IInv, NEW t \in Tasks, NEW p \in Payments, StartPolling(t, p)
  PROVE  IInv'
<1> DEFINE me == [Idle EXCEPT !.pc = "poll", !.payment = p, !.tries = PollAttempts]
<1>1. me \in TaskState /\ Knows(me)
  <2> DEFINE ready == [Idle EXCEPT !.pc = "poll", !.payment = p]
  <2>1. ready \in TaskState /\ ready.pc = "poll" /\ ready.payment = p
    BY IdleKnows DEF TaskState, Steps
  <2>2. PollAttempts \in 0..PollAttempts /\ PollAttempts > 0
    BY PaymentsAssumption
  <2>3. me = [ready EXCEPT !.tries = PollAttempts]
    OBVIOUS
  <2> HIDE DEF ready
  <2>4. /\ me \in TaskState /\ me.pc = "poll" /\ me.payment = p
        /\ me.tries = PollAttempts
    BY <2>1, <2>2, <2>3 DEF TaskState
  <2> HIDE DEF me
  <2> QED
    BY <2>2, <2>4 DEF Knows
<1>2. task' = [task EXCEPT ![t] = me]
  BY DEF StartPolling
<1>3. /\ UNCHANGED <<orders, credits, provider>>
      /\ acked' \subseteq Payments /\ dups' \in [Payments -> 0..MaxDuplicates]
      /\ polled' \subseteq Payments /\ failures' \in 0..MaxFailures
  BY DEF StartPolling, IInv, TypeOK
<1> HIDE DEF me
<1> QED
  BY <1>1, <1>2, <1>3, MoveKeepsIInv

\* A polling coroutine stays one, or is done.
LEMMA NextAttemptKnows ==
  ASSUME IInv, NEW t \in Tasks,
         task[t].tries > 0, task[t].payment \in Payments
  PROVE  NextAttempt(t) \in TaskState /\ Knows(NextAttempt(t))
<1>1. CASE task[t].tries = 1
  BY <1>1, IdleKnows DEF NextAttempt
<1>2. CASE task[t].tries # 1
  <2> DEFINE p == task[t].payment
             n == task[t].tries - 1
             ready == [Idle EXCEPT !.pc = "poll", !.payment = p]
             me == [ready EXCEPT !.tries = n]
  <2>1. n \in 0..PollAttempts /\ n > 0
    BY <1>2, PaymentsAssumption DEF IInv, TypeOK, TaskState
  <2>2. NextAttempt(t) = me
    BY <1>2 DEF NextAttempt
  <2>3. p \in Payments
    OBVIOUS
  <2> HIDE DEF p, n
  <2>4. ready \in TaskState /\ ready.pc = "poll" /\ ready.payment = p
    BY <2>3, IdleKnows DEF TaskState, Steps
  <2> HIDE DEF ready
  <2>5. me \in TaskState /\ me.pc = "poll" /\ me.payment = p /\ me.tries = n
    BY <2>1, <2>4 DEF TaskState
  <2> HIDE DEF me
  <2> QED
    BY <2>1, <2>2, <2>3, <2>5 DEF Knows
<1> QED
  BY <1>1, <1>2

LEMMA PollKeepsIInv ==
  ASSUME IInv, NEW t \in Tasks, Poll(t)
  PROVE  IInv'
<1> DEFINE status == provider[task[t].payment].status
           me == IF status \in Final
                 THEN [task[t] EXCEPT !.pc = "read", !.event = status]
                 ELSE NextAttempt(t)
<1>1. /\ task[t] \in TaskState /\ Knows(task[t])
      /\ task[t].tries > 0 /\ task[t].payment \in Payments
  BY DEF Poll, IInv, TypeOK, TasksKnow, Knows
<1>2. me \in TaskState /\ Knows(me)
  <2>1. CASE status \in Final
    <3> DEFINE now == [task[t] EXCEPT !.pc = "read", !.event = status]
    <3>1. /\ now \in TaskState /\ now.pc = "read"
          /\ now.payment = task[t].payment /\ now.event = status
      BY <1>1, <2>1 DEF TaskState, Steps
    <3> HIDE DEF now
    <3>2. Knows(now)
      BY <1>1, <3>1 DEF Knows
    <3> QED
      BY <2>1, <3>1, <3>2 DEF now
  <2>2. CASE status \notin Final
    BY <2>2, <1>1, NextAttemptKnows
  <2> QED
    BY <2>1, <2>2
<1>3. task' = [task EXCEPT ![t] = me]
  BY DEF Poll
<1>4. /\ UNCHANGED <<orders, credits, provider>>
      /\ acked' \subseteq Payments /\ dups' \in [Payments -> 0..MaxDuplicates]
      /\ polled' \subseteq Payments /\ failures' \in 0..MaxFailures
  BY DEF Poll, IInv, TypeOK
<1> HIDE DEF me
<1> QED
  BY <1>2, <1>3, <1>4, MoveKeepsIInv

-----------------------------------------------------------------------------
LEMMA ReadOrderKeepsIInv ==
  ASSUME IInv, NEW t \in Tasks, ReadOrder(t)
  PROVE  IInv'
<1>1. /\ task[t] \in TaskState /\ Knows(task[t])
      /\ task[t].pc = "read" /\ task[t].payment \in Payments
  BY DEF ReadOrder, IInv, TypeOK, TasksKnow, Knows
<1>2. /\ UNCHANGED <<orders, credits, provider>>
      /\ dups' \in [Payments -> 0..MaxDuplicates]
      /\ polled' \subseteq Payments /\ failures' \in 0..MaxFailures
  BY DEF ReadOrder, IInv, TypeOK
<1>3. CASE Return(t)
  <2>1. task' = [task EXCEPT ![t] = Idle] /\ acked' \subseteq Payments
    BY <1>1, <1>3 DEF Return, IInv, TypeOK
  <2> QED
    BY <1>2, <2>1, IdleKnows, MoveKeepsIInv
<1>4. ASSUME NEW o \in Orders, orders[o].payment_id = task[t].payment,
             task[t].event \in Final,
             task' = [task EXCEPT ![t].pc = FirstUpdate(o, task[t].event),
                                  ![t].order = o],
             UNCHANGED acked
      PROVE  IInv'
  <2> DEFINE to == FirstUpdate(o, task[t].event)
             me == [task[t] EXCEPT !.pc = to, !.order = o]
  <2>1. to \in {"mark", "refund", "fail"}
    BY DEF FirstUpdate
  <2>2. task' = [task EXCEPT ![t] = me]
    BY <1>4
  <2>3. provider[task[t].payment].order = o /\ provider[task[t].payment].status # "none"
    BY <1>1, <1>4, PaymentsAssumption DEF IInv, RowsKnow
  <2> HIDE DEF to
  <2>4. /\ me \in TaskState /\ me.pc = to /\ me.order = o
        /\ me.payment = task[t].payment /\ me.event = task[t].event
        /\ me.tries = task[t].tries
    BY <1>1, <2>1 DEF TaskState, Steps
  <2> HIDE DEF me
  <2>5. Knows(me)
    BY <1>1, <1>4, <2>1, <2>3, <2>4 DEF Knows
  <2>6. acked' \subseteq Payments
    BY <1>4 DEF IInv, TypeOK
  <2> QED
    BY <1>2, <2>2, <2>4, <2>5, <2>6, MoveKeepsIInv
<1> QED
  BY <1>3, <1>4 DEF ReadOrder

\* The row a successful webhook commits, and the one a cancellation commits.
LEMMA CommitWebhookKeepsIInv ==
  ASSUME IInv, NEW t \in Tasks, CommitWebhook(t)
  PROVE  IInv'
<1> DEFINE o == task[t].order
           p == task[t].payment
           ok == task[t].event = Succeeded
           row == IF ok THEN PaidRow(orders[o]) ELSE FailedRow(orders[o])
           credit == IF ok THEN Accrued(o, credits[o]) ELSE Refunded(o, credits[o])
<1>1. /\ task[t] \in TaskState /\ o \in Orders /\ p \in Payments
      /\ task[t].event \in Final
      /\ provider[p].order = o
      /\ Signed => provider[p].status = task[t].event
  BY DEF IInv, TypeOK, TasksKnow, CommitWebhook, Knows
<1>2. /\ orders' = [orders EXCEPT ![o] = row]
      /\ credits' = [credits EXCEPT ![o] = credit]
  BY DEF CommitWebhook
<1>3. /\ task' = [task EXCEPT ![t] = Idle]
      /\ acked' \subseteq Payments
      /\ UNCHANGED <<provider, dups, polled, failures>>
  BY <1>1 DEF CommitWebhook, Return, IInv, TypeOK
<1>4. /\ row \in OrderRow /\ row.payment_id = orders[o].payment_id
      /\ ok => row.payment_status = "paid" /\ row.status = "confirmed"
      /\ ~ok => row.payment_status = "failed" /\ row.status = "cancelled"
  BY <1>1 DEF IInv, TypeOK, OrderRow, PaidRow, FailedRow
<1>5. /\ credit \in [accrued: Nat, refunded: Nat]
      /\ ok /\ o \in Earning => credit.accrued > 0
      /\ ~ok /\ o \in Earning /\ Used[o] > 0 => credit.refunded > 0
  BY <1>1 DEF IInv, TypeOK, Accrued, Refunded
<1> HIDE DEF row, credit
<1>6. \A r \in Orders : /\ orders'[r] = IF r = o THEN row ELSE orders[r]
                        /\ credits'[r] = IF r = o THEN credit ELSE credits[r]
  BY <1>2 DEF IInv, TypeOK
<1>7. TypeOK'
  <2>1. orders' \in [Orders -> OrderRow]
    BY <1>2, <1>4 DEF IInv, TypeOK
  <2>2. credits' \in [Orders -> [accrued: Nat, refunded: Nat]]
    BY <1>2, <1>5 DEF IInv, TypeOK
  <2>3. task' \in [Tasks -> TaskState]
    BY <1>3, IdleKnows DEF IInv, TypeOK
  <2> QED
    BY <1>3, <2>1, <2>2, <2>3 DEF IInv, TypeOK
<1>8. TasksKnow'
  <2> SUFFICES ASSUME NEW k \in Tasks PROVE Knows(task[k])'
    BY DEF TasksKnow
  <2>1. (task[k])' = IF k = t THEN Idle ELSE task[k]
    BY <1>3 DEF IInv, TypeOK
  <2>2. Knows(task[k]) /\ Knows(Idle)
    BY IdleKnows DEF IInv, TasksKnow
  <2> QED
    BY <2>1, <2>2, <1>3 DEF Knows
<1>9. RowsKnow'
  BY <1>1, <1>3, <1>4, <1>6 DEF IInv, RowsKnow
<1>10. StatusAgreesWithCredits'
  BY <1>4, <1>5, <1>6 DEF IInv, StatusAgreesWithCredits
<1>11. StatusIsBacked'
  BY <1>1, <1>3, <1>4, <1>6 DEF IInv, StatusIsBacked
<1> QED
  BY <1>7, <1>8, <1>9, <1>10, <1>11 DEF IInv

-----------------------------------------------------------------------------
LEMMA AbortKeepsIInv ==
  ASSUME IInv, NEW t \in Tasks, Abort(t), failures' \in 0..MaxFailures
  PROVE  IInv'
<1> DEFINE me == IF task[t].tries > 0 THEN NextAttempt(t) ELSE Idle
<1>1. me \in TaskState /\ Knows(me)
  <2>1. Knows(task[t])
    BY DEF IInv, TasksKnow
  <2>2. CASE task[t].tries > 0
    BY <2>1, <2>2, NextAttemptKnows DEF Knows
  <2>3. CASE ~(task[t].tries > 0)
    BY <2>3, IdleKnows
  <2> QED
    BY <2>2, <2>3
<1>2. task' = [task EXCEPT ![t] = me]
  BY DEF Abort
<1>3. /\ UNCHANGED <<orders, credits, provider>>
      /\ acked' \subseteq Payments /\ dups' \in [Payments -> 0..MaxDuplicates]
      /\ polled' \subseteq Payments
  BY DEF Abort, IInv, TypeOK
<1> HIDE DEF me
<1> QED
  BY <1>1, <1>2, <1>3, MoveKeepsIInv

LEMMA PanelKeepsIInv ==
  ASSUME IInv, NEW o \in Orders, NEW status \in {"open", "cancelled"},
         PanelSetsStatus(o, status)
  PROVE  IInv'
<1> DEFINE row == [orders[o] EXCEPT !.status = status]
<1>1. orders' = [orders EXCEPT ![o] = row]
  BY DEF PanelSetsStatus
<1>2. /\ row \in OrderRow /\ row.payment_id = orders[o].payment_id
      /\ row.payment_status = orders[o].payment_status
  BY DEF IInv, TypeOK, OrderRow
<1> HIDE DEF row
<1>3. \A r \in Orders : /\ orders'[r].payment_id = orders[r].payment_id
                        /\ orders'[r].payment_status = orders[r].payment_status
  BY <1>1, <1>2 DEF IInv, TypeOK
<1>4. UNCHANGED <<credits, provider, acked, dups, polled, task, failures>>
  BY DEF PanelSetsStatus
<1>5. TypeOK'
  BY <1>1, <1>2, <1>4 DEF IInv, TypeOK
<1>6. TasksKnow'
  BY <1>4 DEF IInv, TasksKnow, Knows
<1>7. RowsKnow' /\ StatusAgreesWithCredits' /\ StatusIsBacked'
  BY <1>3, <1>4 DEF IInv, RowsKnow, StatusAgreesWithCredits, StatusIsBacked
<1> QED
  BY <1>5, <1>6, <1>7 DEF IInv

LEMMA CrashKeepsIInv ==
  ASSUME IInv, Crash
  PROVE  IInv'
<1>1. TypeOK'
  BY IdleKnows, PaymentsAssumption DEF IInv, TypeOK, Crash
<1>2. TasksKnow'
  BY IdleKnows DEF TasksKnow, Knows, Crash
<1>3. RowsKnow' /\ StatusAgreesWithCredits' /\ StatusIsBacked'
  BY DEF IInv, Crash, RowsKnow, StatusAgreesWithCredits, StatusIsBacked
<1> QED
  BY <1>1, <1>2, <1>3 DEF IInv

LEMMA NextIInv == IInv /\ [Next]_vars => IInv'
<1> SUFFICES ASSUME IInv, [Next]_vars PROVE IInv'
  OBVIOUS
<1>1. ASSUME NEW t \in Tasks, CheckoutStep(t) PROVE IInv'
  BY <1>1, CreatePaymentKeepsIInv, UpdateKeepsIInv, CommitCheckoutKeepsIInv
     DEF CheckoutStep, StorePaymentId
<1>2. ASSUME NEW t \in Tasks, Poll(t) PROVE IInv'
  BY <1>2, PollKeepsIInv
<1>3. ASSUME NEW t \in Tasks, HandlerStep(t) PROVE IInv'
  BY <1>3, ReadOrderKeepsIInv, UpdateKeepsIInv, CommitWebhookKeepsIInv
     DEF HandlerStep, MarkPaid, AccrueBonus, RefundPoints, MarkFailed
<1>4. ASSUME NEW t \in Tasks, Fail(t) PROVE IInv'
  <2>1. failures' \in 0..MaxFailures
    BY <1>4, PaymentsAssumption DEF Fail, IInv, TypeOK
  <2> QED
    BY <1>4, <2>1, AbortKeepsIInv DEF Fail
<1>5. ASSUME NEW t \in Tasks, DeadlockVictim(t) PROVE IInv'
  <2>1. failures' \in 0..MaxFailures
    BY <1>5 DEF DeadlockVictim, IInv, TypeOK
  <2> QED
    BY <1>5, <2>1, AbortKeepsIInv DEF DeadlockVictim
<1>6. ASSUME NEW t \in Tasks, NEW o \in Orders, StartCheckout(t, o) PROVE IInv'
  BY <1>6, StartCheckoutKeepsIInv
<1>7. ASSUME NEW t \in Tasks, NEW p \in Payments, Notify(t, p) PROVE IInv'
  <2>1. provider[p].status \in Final \cup {OtherEvent}
    BY <1>7 DEF Notify
  <2> QED
    BY <1>7, <2>1, NotifyKeepsIInv
<1>8. ASSUME NEW t \in Tasks, NEW p \in Payments,
             NEW event \in Final \cup {OtherEvent}, NotifyAgain(t, p, event)
      PROVE  IInv'
  BY <1>8, NotifyKeepsIInv
<1>9. ASSUME NEW t \in Tasks, NEW p \in Payments, StartPolling(t, p) PROVE IInv'
  BY <1>9, StartPollingKeepsIInv
<1>10. ASSUME NEW p \in Payments, NEW outcome \in Final, Settle(p, outcome)
       PROVE  IInv'
  BY <1>10, SettleKeepsIInv
<1>11. CASE Crash
  BY <1>11, CrashKeepsIInv
<1>12. CASE UNCHANGED vars
  BY <1>12 DEF vars, IInv, TypeOK, TasksKnow, Knows, RowsKnow,
               StatusAgreesWithCredits, StatusIsBacked
<1>13. ASSUME NEW o \in Orders, NEW status \in {"open", "cancelled"},
              PanelSetsStatus(o, status)
       PROVE  IInv'
  BY <1>13, PanelKeepsIInv
<1> QED
  BY <1>1, <1>2, <1>3, <1>4, <1>5, <1>6, <1>7, <1>8, <1>9, <1>10, <1>11, <1>12, <1>13
     DEF Next

-----------------------------------------------------------------------------
(* Theorems                                                                *)

LEMMA Invariant == Spec => []IInv
BY InitIInv, NextIInv, PTL DEF Spec

\* Every variable keeps its type, whatever fails and however often the
\* provider repeats itself.
THEOREM TypeCorrect == Spec => []TypeOK
<1>1. IInv => TypeOK
  BY DEF IInv
<1> QED
  BY <1>1, Invariant, PTL

\* process_payment and handle_webhook, in any number and any interleaving,
\* with any number of payments per order, exceptions and crashes, and whatever
\* is posted to the webhook: the payment status of an order and its loyalty
\* points change together or not at all, if the order earns somebody points.
THEOREM SettlementIsAtomic == Spec => []StatusAgreesWithCredits
<1>1. IInv => StatusAgreesWithCredits
  BY DEF IInv
<1> QED
  BY <1>1, Invariant, PTL

\* Where the webhook verifies signatures, an order is recorded as paid (failed)
\* only if YooKassa charged (canceled) a payment that process_payment made for
\* that order.
THEOREM OutcomeIsBacked == Spec => []StatusIsBacked
<1>1. IInv => StatusIsBacked
  BY DEF IInv
<1> QED
  BY <1>1, Invariant, PTL

-----------------------------------------------------------------------------
(* One checkout per order.                                                 *)

\* With one checkout per order, an order has one payment at most, and none
\* as long as the only coroutine that is creating it has not.
OnePayment ==
    /\ \A p, q \in Payments :
          provider[p].order \in Orders /\ provider[q].order = provider[p].order => q = p
    /\ \A t \in Tasks : task[t].pc = "create" =>
          /\ \A p \in Payments : provider[p].order # task[t].order
          /\ \A u \in Tasks :
                task[u].pc = "create" /\ task[u].order = task[t].order => u = t

\* A step that makes no coroutine create a payment and gives no payment to an
\* order leaves this as it is.
LEMMA QuietKeepsOnePayment ==
  ASSUME OnePayment,
         \A p \in Payments : provider'[p].order = provider[p].order,
         \A t \in Tasks : task'[t].pc = "create" => task'[t] = task[t]
  PROVE  OnePayment'
<1>1. /\ \A p, q \in Payments :
            (provider[p].order)' \in Orders /\ (provider[q].order)' = (provider[p].order)' => q = p
  BY DEF OnePayment
<1>2. ASSUME NEW t \in Tasks, task'[t].pc = "create"
      PROVE  /\ \A p \in Payments : provider'[p].order # task'[t].order
             /\ \A u \in Tasks :
                   task'[u].pc = "create" /\ task'[u].order = task'[t].order => u = t
  BY <1>2 DEF OnePayment
<1> QED
  BY <1>1, <1>2 DEF OnePayment

LEMMA MoveKeepsOnePayment ==
  ASSUME OnePayment, TypeOK, NEW t \in Tasks, NEW me,
         task' = [task EXCEPT ![t] = me], me.pc # "create",
         \A p \in Payments : provider'[p].order = provider[p].order
  PROVE  OnePayment'
<1>1. \A k \in Tasks : task'[k].pc = "create" => task'[k] = task[k]
  BY DEF TypeOK
<1> QED
  BY <1>1, QuietKeepsOnePayment

LEMMA IdleMoveKeepsOnePayment ==
  ASSUME OnePayment, TypeOK, NEW t \in Tasks, task' = [task EXCEPT ![t] = Idle],
         \A p \in Payments : provider'[p].order = provider[p].order
  PROVE  OnePayment'
<1>1. Idle.pc # "create"
  BY DEF Idle
<1> QED
  BY <1>1, MoveKeepsOnePayment

LEMMA StartCheckoutKeepsOnePayment ==
  ASSUME IInv, OnePayment, SingleCheckout,
         NEW t \in Tasks, NEW o \in Orders, StartCheckout(t, o)
  PROVE  OnePayment'
<1> DEFINE me == [Idle EXCEPT !.pc = "create", !.order = o]
<1>1. me.pc = "create" /\ me.order = o
  BY DEF Idle
<1>2. task' = [task EXCEPT ![t] = me] /\ provider' = provider
  BY DEF StartCheckout
<1> HIDE DEF me
<1>3. \A k \in Tasks : task'[k] = IF k = t THEN me ELSE task[k]
  BY <1>2 DEF IInv, TypeOK
<1>4. FirstCheckout(o)
  BY DEF StartCheckout
<1> QED
  BY <1>1, <1>2, <1>3, <1>4 DEF OnePayment, FirstCheckout

LEMMA CreatePaymentKeepsOnePayment ==
  ASSUME IInv, OnePayment, NEW t \in Tasks, CreatePayment(t)
  PROVE  OnePayment'
<1>1. PICK p \in Payments :
        /\ provider' = [provider EXCEPT ![p] =
             [order |-> task[t].order, status |-> "pending", url |-> FALSE]]
        /\ task' = [task EXCEPT ![t].pc = "store", ![t].payment = p]
  BY DEF CreatePayment
<1>2. \A q \in Payments :
        provider'[q].order = IF q = p THEN task[t].order ELSE provider[q].order
  BY <1>1 DEF IInv, TypeOK
<1> DEFINE me == [task[t] EXCEPT !.pc = "store", !.payment = p]
<1>3. task[t].pc = "create" /\ me.pc = "store"
  BY DEF CreatePayment, IInv, TypeOK, TaskState
<1>4. task' = [task EXCEPT ![t] = me]
  BY <1>1
<1> HIDE DEF me
<1>5. \A k \in Tasks : task'[k] = IF k = t THEN me ELSE task[k]
  BY <1>4 DEF IInv, TypeOK
<1>6. \A q, r \in Payments :
        provider'[q].order \in Orders /\ provider'[r].order = provider'[q].order => r = q
  BY <1>2, <1>3 DEF OnePayment
<1>7. ASSUME NEW k \in Tasks, task'[k].pc = "create"
      PROVE  /\ \A q \in Payments : provider'[q].order # task'[k].order
             /\ \A u \in Tasks :
                   task'[u].pc = "create" /\ task'[u].order = task'[k].order => u = k
  <2>1. k # t /\ task'[k] = task[k]
    BY <1>3, <1>5, <1>7
  <2>2. task[k].order # task[t].order
    BY <1>3, <1>7, <2>1 DEF OnePayment
  <2>3. \A q \in Payments : provider'[q].order # task'[k].order
    BY <1>2, <1>7, <2>1, <2>2 DEF OnePayment
  <2>4. ASSUME NEW u \in Tasks, task'[u].pc = "create", task'[u].order = task'[k].order
        PROVE  u = k
    <3>1. u # t /\ task'[u] = task[u]
      BY <1>3, <1>5, <2>4
    <3> QED
      BY <1>7, <2>1, <2>4, <3>1 DEF OnePayment
  <2> QED
    BY <2>3, <2>4
<1> QED
  BY <1>6, <1>7 DEF OnePayment

\* What the steps other than a COMMIT of handle_webhook leave alone.
LEMMA StepsKeepLedger ==
  ASSUME IInv, [Next]_vars
  PROVE  \/ \E t \in Tasks : CommitWebhook(t)
         \/ /\ credits' = credits
            /\ \A o \in Orders : orders'[o].payment_status = orders[o].payment_status
<1>1. CASE UNCHANGED <<orders, credits>>
  BY <1>1
<1>2. ASSUME NEW t \in Tasks, CommitCheckout(t)
      PROVE  /\ credits' = credits
             /\ \A o \in Orders : orders'[o].payment_status = orders[o].payment_status
  BY <1>2 DEF CommitCheckout, IInv, TypeOK, OrderRow
<1>3. ASSUME NEW t \in Tasks,
             \/ CreatePayment(t) \/ StorePaymentId(t) \/ Poll(t)
             \/ ReadOrder(t) \/ MarkPaid(t) \/ AccrueBonus(t)
             \/ RefundPoints(t) \/ MarkFailed(t)
             \/ Fail(t) \/ DeadlockVictim(t)
      PROVE  UNCHANGED <<orders, credits>>
  BY <1>3 DEF CreatePayment, StorePaymentId, Poll, ReadOrder, MarkPaid, AccrueBonus,
              RefundPoints, MarkFailed, Update, Fail, DeadlockVictim, Abort
<1>4. CASE \/ \E t \in Tasks, o \in Orders : StartCheckout(t, o)
           \/ \E t \in Tasks, p \in Payments : Notify(t, p)
           \/ \E t \in Tasks, p \in Payments, event \in Final \cup {OtherEvent} :
                 NotifyAgain(t, p, event)
           \/ \E t \in Tasks, p \in Payments : StartPolling(t, p)
           \/ \E p \in Payments, outcome \in Final : Settle(p, outcome)
           \/ Crash
           \/ UNCHANGED vars
  BY <1>1, <1>4 DEF StartCheckout, Notify, NotifyAgain, StartPolling, Settle, Crash, vars
<1>5. ASSUME NEW o \in Orders, NEW status, PanelSetsStatus(o, status)
      PROVE  /\ credits' = credits
             /\ \A r \in Orders : orders'[r].payment_status = orders[r].payment_status
  BY <1>5 DEF PanelSetsStatus, IInv, TypeOK, OrderRow
<1> QED
  BY <1>1, <1>2, <1>3, <1>4, <1>5 DEF Next, CheckoutStep, HandlerStep

\* Only CreatePayment gives a payment to an order.
LEMMA OnePaymentStep ==
  ASSUME IInv, OnePayment, SingleCheckout, [Next]_vars
  PROVE  OnePayment'
<1>0. TypeOK
  BY DEF IInv
<1>1. ASSUME NEW t \in Tasks, CreatePayment(t) PROVE OnePayment'
  BY <1>1, CreatePaymentKeepsOnePayment
<1>2. ASSUME NEW t \in Tasks, NEW o \in Orders, StartCheckout(t, o) PROVE OnePayment'
  BY <1>2, StartCheckoutKeepsOnePayment
<1>3. ASSUME NEW t \in Tasks, CommitCheckout(t) PROVE OnePayment'
  <2>1. \A p \in Payments : provider'[p].order = provider[p].order
    BY <1>0, <1>3 DEF CommitCheckout, TypeOK, ProviderRow
  <2>2. task' = [task EXCEPT ![t] = Idle]
    BY <1>3 DEF CommitCheckout
  <2> QED
    BY <1>0, <2>1, <2>2, IdleMoveKeepsOnePayment
<1>4. ASSUME NEW t \in Tasks, NEW from, NEW to, to # "create", Update(t, from, to)
      PROVE  OnePayment'
  <2> DEFINE me == [task[t] EXCEPT !.pc = to]
  <2>1. task' = [task EXCEPT ![t] = me] /\ provider' = provider
    BY <1>4 DEF Update
  <2>2. me.pc # "create"
    BY <1>0, <1>4 DEF TypeOK, TaskState
  <2> HIDE DEF me
  <2> QED
    BY <1>0, <2>1, <2>2, MoveKeepsOnePayment
<1>5. \A t \in Tasks : NextAttempt(t).pc # "create"
  BY DEF NextAttempt, Idle
<1>6. ASSUME NEW t \in Tasks, Poll(t) PROVE OnePayment'
  <2> DEFINE status == provider[task[t].payment].status
             read == [task[t] EXCEPT !.pc = "read", !.event = status]
  <2>0. read.pc # "create"
    BY <1>0 DEF TypeOK, TaskState
  <2>1. PICK me : task' = [task EXCEPT ![t] = me] /\ me.pc # "create"
    <3>1. CASE task' = [task EXCEPT ![t] = read]
      BY <2>0, <3>1
    <3>2. CASE task' = [task EXCEPT ![t] = NextAttempt(t)]
      BY <1>5, <3>2
    <3> QED
      BY <1>6, <3>1, <3>2 DEF Poll
  <2> QED
    BY <1>0, <1>6, <2>1, MoveKeepsOnePayment DEF Poll
<1>7. ASSUME NEW t \in Tasks, ReadOrder(t) PROVE OnePayment'
  <2>1. PICK me : task' = [task EXCEPT ![t] = me] /\ me.pc # "create"
    <3>1. CASE Return(t)
      BY <3>1, IdleKnows DEF Return
    <3>2. ASSUME NEW o \in Orders,
                 task' = [task EXCEPT ![t].pc = FirstUpdate(o, task[t].event),
                                      ![t].order = o]
          PROVE  \E me : task' = [task EXCEPT ![t] = me] /\ me.pc # "create"
      <4> DEFINE me == [task[t] EXCEPT !.pc = FirstUpdate(o, task[t].event), !.order = o]
      <4>1. task' = [task EXCEPT ![t] = me]
        BY <3>2
      <4>2. me.pc # "create"
        BY <1>0 DEF TypeOK, TaskState, FirstUpdate
      <4> HIDE DEF me
      <4> QED
        BY <4>1, <4>2
    <3> QED
      BY <1>7, <3>1, <3>2 DEF ReadOrder
  <2> QED
    BY <1>0, <1>7, <2>1, MoveKeepsOnePayment DEF ReadOrder
<1>8. ASSUME NEW t \in Tasks, CommitWebhook(t) PROVE OnePayment'
  BY <1>0, <1>8, IdleMoveKeepsOnePayment DEF CommitWebhook, Return
<1>9. ASSUME NEW t \in Tasks, Fail(t) \/ DeadlockVictim(t) PROVE OnePayment'
  <2>1. PICK me : task' = [task EXCEPT ![t] = me] /\ me.pc # "create"
    BY <1>5, <1>9 DEF Fail, DeadlockVictim, Abort, Idle
  <2> QED
    BY <1>0, <1>9, <2>1, MoveKeepsOnePayment DEF Fail, DeadlockVictim, Abort
<1>10. ASSUME NEW t \in Tasks, NEW p \in Payments, NEW event, Receive(t, p, event),
              provider' = provider
       PROVE  OnePayment'
  <2> DEFINE me == [Idle EXCEPT !.pc = "read", !.payment = p, !.event = event]
  <2>1. me.pc # "create"
    BY DEF Idle
  <2>2. task' = [task EXCEPT ![t] = me]
    BY <1>10 DEF Receive
  <2> HIDE DEF me
  <2> QED
    BY <1>0, <1>10, <2>1, <2>2, MoveKeepsOnePayment
<1>11. ASSUME NEW t \in Tasks, NEW p \in Payments, StartPolling(t, p) PROVE OnePayment'
  <2> DEFINE me == [Idle EXCEPT !.pc = "poll", !.payment = p, !.tries = PollAttempts]
  <2>1. me.pc # "create"
    BY DEF Idle
  <2>2. task' = [task EXCEPT ![t] = me] /\ provider' = provider
    BY <1>11 DEF StartPolling
  <2> HIDE DEF me
  <2> QED
    BY <1>0, <2>1, <2>2, MoveKeepsOnePayment
<1>12. ASSUME NEW p \in Payments, NEW outcome \in Final, Settle(p, outcome)
       PROVE  OnePayment'
  <2>1. \A q \in Payments : provider'[q].order = provider[q].order
    BY <1>0, <1>12 DEF Settle, TypeOK, ProviderRow
  <2> QED
    BY <1>12, <2>1, QuietKeepsOnePayment DEF Settle
<1>13. CASE Crash
  BY <1>13, QuietKeepsOnePayment DEF Crash, Idle
<1>14. CASE UNCHANGED vars \/ \E o \in Orders, s \in {"open", "cancelled"} : PanelSetsStatus(o, s)
  BY <1>14, QuietKeepsOnePayment DEF vars, PanelSetsStatus
<1>15. ASSUME NEW t \in Tasks, HandlerStep(t) PROVE OnePayment'
  BY <1>4, <1>7, <1>8, <1>15
     DEF HandlerStep, MarkPaid, AccrueBonus, RefundPoints, MarkFailed
<1>16. ASSUME NEW t \in Tasks, CheckoutStep(t) PROVE OnePayment'
  BY <1>1, <1>3, <1>4, <1>16 DEF CheckoutStep, StorePaymentId
<1>17. CASE \/ \E t \in Tasks, p \in Payments : Notify(t, p)
            \/ \E t \in Tasks, p \in Payments, event \in Final \cup {OtherEvent} :
                  NotifyAgain(t, p, event)
  BY <1>10, <1>17 DEF Notify, NotifyAgain
<1> QED
  BY <1>2, <1>6, <1>9, <1>11, <1>12, <1>13, <1>14, <1>15, <1>16, <1>17 DEF Next

LEMMA InitOnePayment == Init => OnePayment
BY PaymentsAssumption DEF Init, OnePayment, Idle

LEMMA OnePaymentInvariant ==
  ASSUME SingleCheckout
  PROVE  Spec => [](IInv /\ OnePayment)
<1>1. IInv /\ OnePayment /\ [Next]_vars => (IInv /\ OnePayment)'
  BY NextIInv, OnePaymentStep
<1> QED
  BY <1>1, InitIInv, InitOnePayment, PTL DEF Spec

\* With one payment the order never has the outcome opposite to the one that
\* is being committed.
LEMMA OutcomeStays ==
  ASSUME Signed, IInv, OnePayment, NEW t \in Tasks, task[t].pc = "commit"
  PROVE  /\ task[t].order \in Orders /\ task[t].event \in Final
         /\ orders[task[t].order].payment_status # "paid" \/ task[t].event = Succeeded
         /\ orders[task[t].order].payment_status # "failed" \/ task[t].event = Canceled
<1>1. /\ task[t].order \in Orders /\ task[t].payment \in Payments
      /\ task[t].event \in Final
      /\ provider[task[t].payment].order = task[t].order
      /\ provider[task[t].payment].status = task[t].event
  BY DEF IInv, TasksKnow, Knows
<1>2. \A p \in Payments : provider[p].order = task[t].order => p = task[t].payment
  BY <1>1 DEF OnePayment
<1> QED
  BY <1>1, <1>2 DEF IInv, StatusIsBacked

-----------------------------------------------------------------------------
(* The contract.                                                           *)

LEMMA CommitImplements ==
  ASSUME Signed, IInv, OnePayment, ~ExactlyOnce, NEW t \in Tasks, CommitWebhook(t)
  PROVE  Contract!Next
<1>0. PICK o \in Orders : o = task[t].order
  BY OutcomeStays DEF CommitWebhook
<1> DEFINE ledger == [r \in Orders |-> orders[r].payment_status]
<1>1. /\ o \in Orders /\ task[t].event \in Final
      /\ orders[o].payment_status # "paid" \/ task[t].event = Succeeded
      /\ orders[o].payment_status # "failed" \/ task[t].event = Canceled
      /\ orders[o].payment_status \in {"pending", "paid", "failed"}
  BY <1>0, OutcomeStays DEF CommitWebhook, IInv, TypeOK, OrderRow
<1>2. ASSUME task[t].event = Succeeded PROVE Contract!Pay(o)
  <2>1. ledger[o] \in Contract!Open("paid")
    BY <1>1, <1>2 DEF Contract!Open
  <2>2. orders' = [orders EXCEPT ![o] = PaidRow(@)] /\ credits' = [credits EXCEPT ![o] = Accrued(o, @)]
    BY <1>0, <1>2 DEF CommitWebhook
  <2>3. PaidRow(orders[o]).payment_status = "paid"
    BY <1>1 DEF IInv, TypeOK, OrderRow, PaidRow
  <2>4. ledger' = [ledger EXCEPT ![o] = "paid"]
    BY <1>1, <2>2, <2>3 DEF IInv, TypeOK
  <2>5. credits' = IF o \in Earning
                   THEN [credits EXCEPT ![o].accrued = @ + 1] ELSE credits
    BY <1>1, <2>2 DEF Accrued, IInv, TypeOK
  <2> QED
    BY <2>1, <2>4, <2>5 DEF Contract!Pay
<1>3. ASSUME task[t].event # Succeeded PROVE Contract!Cancel(o)
  <2>1. ledger[o] \in Contract!Open("failed")
    BY <1>1, <1>3 DEF Contract!Open
  <2>2. /\ orders' = [orders EXCEPT ![o] = FailedRow(@)]
        /\ credits' = [credits EXCEPT ![o] = Refunded(o, @)]
    BY <1>0, <1>3 DEF CommitWebhook
  <2>3. FailedRow(orders[o]).payment_status = "failed"
    BY <1>1 DEF IInv, TypeOK, OrderRow, FailedRow
  <2>4. ledger' = [ledger EXCEPT ![o] = "failed"]
    BY <1>1, <2>2, <2>3 DEF IInv, TypeOK
  <2>5. credits' = IF o \in Earning /\ Used[o] > 0
                   THEN [credits EXCEPT ![o].refunded = @ + 1] ELSE credits
    BY <1>1, <2>2 DEF Refunded, IInv, TypeOK
  <2> QED
    BY <2>1, <2>4, <2>5 DEF Contract!Cancel
<1>4. CASE task[t].event = Succeeded
  BY <1>1, <1>2, <1>4 DEF Contract!Next
<1>5. CASE task[t].event # Succeeded
  BY <1>1, <1>3, <1>5 DEF Contract!Next
<1> QED
  BY <1>4, <1>5

LEMMA StepImplements ==
  ASSUME Signed, IInv, OnePayment, ~ExactlyOnce, [Next]_vars
  PROVE  [Contract!Next]_(Contract!vars)
<1>1. CASE \E t \in Tasks : CommitWebhook(t)
  BY <1>1, CommitImplements
<1>2. CASE /\ credits' = credits
           /\ \A o \in Orders : orders'[o].payment_status = orders[o].payment_status
  BY <1>2 DEF Contract!vars
<1> QED
  BY <1>1, <1>2, StepsKeepLedger

\* With one checkout per order and verified webhooks the worker keeps its
\* contract: an order is settled in one step with its points, and what it was settled as stays,
\* through duplicates, crashes and notifications handled at the same time.
THEOREM ContractImplemented ==
  ASSUME SingleCheckout, Signed, ~ExactlyOnce
  PROVE  Spec => ImplementsContract
<1>1. Init => Contract!Init
  BY DEF Init, Contract!Init
<1>2. IInv /\ OnePayment /\ [Next]_vars => [Contract!Next]_(Contract!vars)
  BY StepImplements
<1> QED
  BY <1>1, <1>2, OnePaymentInvariant, PTL DEF Spec, ImplementsContract, Contract!Spec

-----------------------------------------------------------------------------
(* The bonus.                                                              *)

\* Where a handler is once it has read the order and chosen its branch.
Applying == {"mark", "accrue", "refund", "fail", "commit"}

\* An accrued bonus belongs to a paid order; a handler that is accruing one
\* read the order before it was paid.
BonusOwed ==
    /\ \A o \in Orders : /\ credits[o].accrued <= 1
                         /\ credits[o].accrued = 1 => orders[o].payment_status = "paid"
    /\ \A t \in Tasks :
          task[t].pc \in Applying /\ task[t].event = Succeeded
              => credits[task[t].order].accrued = 0

\* In a set of one element at most, any two are the same.
LEMMA OnlyOne ==
  ASSUME NEW S, IsFiniteSet(S), Cardinality(S) <= 1, NEW t \in S, NEW u \in S
  PROVE  t = u
<1>1. /\ IsFiniteSet(S \ {t}) /\ Cardinality(S \ {t}) \in Nat /\ Cardinality(S) \in Nat
      /\ Cardinality(S \ {t}) = Cardinality(S) - 1
  BY FS_RemoveElement, FS_CardinalityType
<1>2. Cardinality(S \ {t}) = 0
  BY <1>1
<1>3. S \ {t} = {}
  BY <1>1, <1>2, FS_EmptySet
<1> QED
  BY <1>3

LEMMA QuietKeepsBonusOwed ==
  ASSUME BonusOwed, credits' = credits,
         \A o \in Orders : orders'[o].payment_status = orders[o].payment_status,
         \A t \in Tasks :
            task'[t].pc \in Applying /\ task'[t].event = Succeeded
              => \/ credits[task'[t].order].accrued = 0
                 \/ /\ task[t].pc \in Applying
                    /\ task[t].event = Succeeded /\ task'[t].order = task[t].order
  PROVE  BonusOwed'
BY DEF BonusOwed

\* The state of the coroutine that a step of the coroutine t leads to.
LEMMA MoveKeepsBonusOwed ==
  ASSUME TypeOK, BonusOwed, NEW t \in Tasks, NEW me,
         task' = [task EXCEPT ![t] = me], credits' = credits,
         \A o \in Orders : orders'[o].payment_status = orders[o].payment_status,
         \/ me.pc \notin Applying
         \/ me.event # Succeeded
         \/ credits[me.order].accrued = 0
         \/ /\ task[t].pc \in Applying
            /\ task[t].event = Succeeded /\ me.order = task[t].order
  PROVE  BonusOwed'
<1>1. \A k \in Tasks : task'[k] = IF k = t THEN me ELSE task[k]
  BY DEF TypeOK
<1>2. \A k \in Tasks :
         task'[k].pc \in Applying /\ task'[k].event = Succeeded
           => \/ credits[task'[k].order].accrued = 0
              \/ /\ task[k].pc \in Applying
                 /\ task[k].event = Succeeded /\ task'[k].order = task[k].order
  BY <1>1 DEF BonusOwed
<1> QED
  BY <1>2, QuietKeepsBonusOwed

LEMMA IdleMoveKeepsBonusOwed ==
  ASSUME TypeOK, BonusOwed, NEW t \in Tasks,
         task' = [task EXCEPT ![t] = Idle], credits' = credits,
         \A o \in Orders : orders'[o].payment_status = orders[o].payment_status
  PROVE  BonusOwed'
BY IdleKnows, MoveKeepsBonusOwed

\* The handler that commits is the only one, and its order is not paid: it
\* accrues the first bonus, or returns the points of an order without one.
LEMMA CommitKeepsBonusOwed ==
  ASSUME Signed, IInv, OnePayment, BonusOwed, Cardinality(Handling) <= 1,
         NEW t \in Tasks, CommitWebhook(t)
  PROVE  BonusOwed'
<1> DEFINE o == task[t].order
<1>1. /\ o \in Orders /\ task[t].event \in Final /\ task[t].pc = "commit"
      /\ orders[o].payment_status # "paid" \/ task[t].event = Succeeded
  BY OutcomeStays DEF CommitWebhook
<1>2. credits[o].accrued = 0
  <2>1. credits[o].accrued \in Nat
    BY <1>1 DEF IInv, TypeOK
  <2> QED
    BY <1>1, <2>1 DEF BonusOwed, Applying
<1>3. \A k \in Tasks \ {t} : task[k].pc \notin Applying
  <2> SUFFICES ASSUME NEW k \in Tasks, task[k].pc \in Applying
               PROVE  k = t
    OBVIOUS
  <2>1. IsFiniteSet(Handling)
    BY PaymentsAssumption, FS_Subset DEF Handling
  <2>2. k \in Handling /\ t \in Handling
    BY <1>1 DEF Handling, Applying
  <2> QED
    BY <2>1, <2>2, OnlyOne
<1>4. task' = [task EXCEPT ![t] = Idle]
  BY DEF CommitWebhook, Return
<1>5. \A k \in Tasks : task'[k].pc \notin Applying
  <2>1. \A k \in Tasks : task'[k] = IF k = t THEN Idle ELSE task[k]
    BY <1>4 DEF IInv, TypeOK
  <2> QED
    BY <1>3, <2>1, IdleKnows DEF Applying
<1>6. \A r \in Orders : /\ credits'[r].accrued <= 1
                        /\ credits'[r].accrued = 1 => orders'[r].payment_status = "paid"
  <2>1. CASE task[t].event = Succeeded
    <3>1. /\ credits' = [credits EXCEPT ![o] = Accrued(o, @)]
          /\ orders' = [orders EXCEPT ![o] = PaidRow(@)]
      BY <2>1 DEF CommitWebhook
    <3>2. Accrued(o, credits[o]).accrued \in {0, 1} /\ PaidRow(orders[o]).payment_status = "paid"
      BY <1>1, <1>2 DEF IInv, TypeOK, OrderRow, Accrued, PaidRow
    <3>3. \A r \in Orders \ {o} : credits'[r] = credits[r] /\ orders'[r] = orders[r]
      BY <3>1 DEF IInv, TypeOK
    <3>4. credits'[o].accrued \in {0, 1} /\ orders'[o].payment_status = "paid"
      BY <1>1, <3>1, <3>2 DEF IInv, TypeOK
    <3> QED
      BY <3>3, <3>4 DEF BonusOwed
  <2>2. CASE task[t].event # Succeeded
    <3>1. /\ credits' = [credits EXCEPT ![o] = Refunded(o, @)]
          /\ orders' = [orders EXCEPT ![o] = FailedRow(@)]
      BY <2>2 DEF CommitWebhook
    <3>2. Refunded(o, credits[o]).accrued = 0
      BY <1>1, <1>2 DEF IInv, TypeOK, Refunded
    <3>3. \A r \in Orders \ {o} : credits'[r] = credits[r] /\ orders'[r] = orders[r]
      BY <3>1 DEF IInv, TypeOK
    <3>4. credits'[o].accrued = 0
      BY <1>1, <3>1, <3>2 DEF IInv, TypeOK
    <3> QED
      BY <3>3, <3>4 DEF BonusOwed
  <2> QED
    BY <2>1, <2>2
<1> QED
  BY <1>5, <1>6 DEF BonusOwed

\* A handler begins to accrue only for an order that is not paid.
LEMMA ReadKeepsBonusOwed ==
  ASSUME IInv, BonusOwed, NEW t \in Tasks, ReadOrder(t)
  PROVE  BonusOwed'
<1>0. TypeOK /\ credits' = credits /\ orders' = orders
  BY DEF IInv, ReadOrder
<1>1. CASE Return(t)
  BY <1>0, <1>1, IdleMoveKeepsBonusOwed DEF Return
<1>2. ASSUME NEW o \in Orders, ~Duplicate(o, task[t].event),
             task' = [task EXCEPT ![t].pc = FirstUpdate(o, task[t].event), ![t].order = o]
      PROVE  BonusOwed'
  <2> DEFINE me == [task[t] EXCEPT !.pc = FirstUpdate(o, task[t].event), !.order = o]
  <2>1. task' = [task EXCEPT ![t] = me]
    BY <1>2
  <2>2. me.event = task[t].event /\ me.order = o
    BY <1>0 DEF TypeOK, TaskState
  <2> HIDE DEF me
  <2>3. me.event # Succeeded \/ credits[me.order].accrued = 0
    <3>1. credits[o].accrued \in Nat
      BY <1>0 DEF TypeOK
    <3> QED
      BY <1>2, <2>2, <3>1 DEF BonusOwed, Duplicate
  <2> QED
    BY <1>0, <2>1, <2>3, MoveKeepsBonusOwed
<1> QED
  BY <1>1, <1>2 DEF ReadOrder

LEMMA UpdateKeepsBonusOwed ==
  ASSUME IInv, BonusOwed, NEW t \in Tasks, NEW from, NEW to, Update(t, from, to),
         from \in Applying \/ to \notin Applying
  PROVE  BonusOwed'
<1> DEFINE me == [task[t] EXCEPT !.pc = to]
<1>0. TypeOK /\ credits' = credits /\ orders' = orders /\ task[t].pc = from
  BY DEF IInv, Update
<1>1. task' = [task EXCEPT ![t] = me]
  BY DEF Update
<1>2. me.pc = to /\ me.event = task[t].event /\ me.order = task[t].order
  BY <1>0 DEF TypeOK, TaskState
<1> HIDE DEF me
<1> QED
  BY <1>0, <1>1, <1>2, MoveKeepsBonusOwed

\* As long as no two events are handled at a time.
LEMMA BonusOwedStep ==
  ASSUME Signed, IInv, OnePayment, BonusOwed, [Next]_vars, Cardinality(Handling) <= 1
  PROVE  BonusOwed'
<1>0. TypeOK
  BY DEF IInv
<1>1. ASSUME NEW t \in Tasks, CommitWebhook(t) PROVE BonusOwed'
  BY <1>1, CommitKeepsBonusOwed
<1>2. ASSUME NEW t \in Tasks, ReadOrder(t) PROVE BonusOwed'
  BY <1>2, ReadKeepsBonusOwed
<1>3. ASSUME NEW t \in Tasks,
             \/ StorePaymentId(t) \/ MarkPaid(t) \/ AccrueBonus(t)
             \/ RefundPoints(t) \/ MarkFailed(t)
      PROVE  BonusOwed'
  BY <1>3, UpdateKeepsBonusOwed
     DEF StorePaymentId, MarkPaid, AccrueBonus, RefundPoints, MarkFailed, Applying
<1>4. ASSUME NEW t \in Tasks, CreatePayment(t) \/ CommitCheckout(t) PROVE BonusOwed'
  <2>1. \A o \in Orders : orders'[o].payment_status = orders[o].payment_status
    BY <1>0, <1>4 DEF CreatePayment, CommitCheckout, TypeOK, OrderRow
  <2>2. PICK me : task' = [task EXCEPT ![t] = me] /\ me.pc \notin Applying
    <3>1. CASE CommitCheckout(t)
      BY <3>1, IdleKnows DEF CommitCheckout, Applying
    <3>2. CASE CreatePayment(t)
      <4>1. PICK p \in Payments : task' = [task EXCEPT ![t].pc = "store", ![t].payment = p]
        BY <3>2 DEF CreatePayment
      <4> DEFINE me == [task[t] EXCEPT !.pc = "store", !.payment = p]
      <4>2. task' = [task EXCEPT ![t] = me]
        BY <4>1
      <4>3. me.pc \notin Applying
        BY <1>0 DEF TypeOK, TaskState, Applying
      <4> HIDE DEF me
      <4> QED
        BY <4>2, <4>3
    <3> QED
      BY <1>4, <3>1, <3>2
  <2> QED
    BY <1>0, <1>4, <2>1, <2>2, MoveKeepsBonusOwed DEF CreatePayment, CommitCheckout
<1>5. \A t \in Tasks : NextAttempt(t).pc \notin Applying
  BY DEF NextAttempt, Idle, Applying
<1>6. ASSUME NEW t \in Tasks, Poll(t) PROVE BonusOwed'
  <2> DEFINE status == provider[task[t].payment].status
             read == [task[t] EXCEPT !.pc = "read", !.event = status]
  <2>1. read.pc \notin Applying
    BY <1>0 DEF TypeOK, TaskState, Applying
  <2>2. PICK me : task' = [task EXCEPT ![t] = me] /\ me.pc \notin Applying
    <3>1. CASE task' = [task EXCEPT ![t] = read]
      BY <2>1, <3>1
    <3>2. CASE task' = [task EXCEPT ![t] = NextAttempt(t)]
      BY <1>5, <3>2
    <3> QED
      BY <1>6, <3>1, <3>2 DEF Poll
  <2> QED
    BY <1>0, <1>6, <2>2, MoveKeepsBonusOwed DEF Poll
<1>7. ASSUME NEW t \in Tasks, Fail(t) \/ DeadlockVictim(t) PROVE BonusOwed'
  <2>1. PICK me : task' = [task EXCEPT ![t] = me] /\ me.pc \notin Applying
    BY <1>5, <1>7, IdleKnows DEF Fail, DeadlockVictim, Abort, Applying
  <2> QED
    BY <1>0, <1>7, <2>1, MoveKeepsBonusOwed DEF Fail, DeadlockVictim, Abort
<1>8. ASSUME NEW t \in Tasks, NEW p \in Payments, NEW event, Receive(t, p, event),
             UNCHANGED <<orders, credits>>
      PROVE  BonusOwed'
  <2> DEFINE me == [Idle EXCEPT !.pc = "read", !.payment = p, !.event = event]
  <2>1. me.pc \notin Applying
    BY DEF Idle, Applying
  <2>2. task' = [task EXCEPT ![t] = me]
    BY <1>8 DEF Receive
  <2> HIDE DEF me
  <2> QED
    BY <1>0, <1>8, <2>1, <2>2, MoveKeepsBonusOwed
<1>9. ASSUME NEW t \in Tasks, NEW p \in Payments, StartPolling(t, p) PROVE BonusOwed'
  <2> DEFINE me == [Idle EXCEPT !.pc = "poll", !.payment = p, !.tries = PollAttempts]
  <2>1. me.pc \notin Applying
    BY DEF Idle, Applying
  <2>2. task' = [task EXCEPT ![t] = me] /\ orders' = orders /\ credits' = credits
    BY <1>9 DEF StartPolling
  <2> HIDE DEF me
  <2> QED
    BY <1>0, <2>1, <2>2, MoveKeepsBonusOwed
<1>10. ASSUME NEW t \in Tasks, NEW o \in Orders, StartCheckout(t, o) PROVE BonusOwed'
  <2> DEFINE me == [Idle EXCEPT !.pc = "create", !.order = o]
  <2>1. me.pc \notin Applying
    BY DEF Idle, Applying
  <2>2. task' = [task EXCEPT ![t] = me] /\ orders' = orders /\ credits' = credits
    BY <1>10 DEF StartCheckout
  <2> HIDE DEF me
  <2> QED
    BY <1>0, <2>1, <2>2, MoveKeepsBonusOwed
<1>11. CASE Crash
  BY <1>11, IdleKnows DEF Crash, BonusOwed, Applying
<1>12. CASE UNCHANGED vars \/ \E p \in Payments, outcome \in Final : Settle(p, outcome)
  BY <1>12 DEF vars, Settle, BonusOwed
<1>13. CASE \/ \E t \in Tasks, p \in Payments : Notify(t, p)
            \/ \E t \in Tasks, p \in Payments, event \in Final \cup {OtherEvent} :
                  NotifyAgain(t, p, event)
  BY <1>8, <1>13 DEF Notify, NotifyAgain
<1>14. ASSUME NEW t \in Tasks, CheckoutStep(t) \/ HandlerStep(t) PROVE BonusOwed'
  BY <1>1, <1>2, <1>3, <1>4, <1>14 DEF CheckoutStep, HandlerStep
<1>15. ASSUME NEW o \in Orders, NEW status, PanelSetsStatus(o, status) PROVE BonusOwed'
  <2>1. \A r \in Orders : orders'[r].payment_status = orders[r].payment_status
    BY <1>0, <1>15 DEF PanelSetsStatus, TypeOK, OrderRow
  <2> QED
    BY <1>15, <2>1, QuietKeepsBonusOwed DEF PanelSetsStatus
<1> QED
  BY <1>6, <1>7, <1>9, <1>10, <1>11, <1>12, <1>13, <1>14, <1>15 DEF Next

\* While events are handled one at a time the guard of handle_webhook is
\* enough: no duplicate, retry or crash accrues a second bonus.
THEOREM SerialBonusOnce ==
  ASSUME SingleCheckout, Signed
  PROVE  Spec => BonusOnceIfSerial
<1> DEFINE Serial == Cardinality(Handling) <= 1
           SInv == IInv /\ OnePayment /\ BonusOwed
<1>1. Init => BonusOwed
  BY DEF Init, BonusOwed, Idle, Applying
<1>2. SInv /\ Serial /\ [Next]_vars => SInv'
  BY NextIInv, OnePaymentStep, BonusOwedStep
<1>3. SInv => BonusAccruedOnce
  BY DEF BonusOwed, BonusAccruedOnce
<1>4. Init => SInv
  BY <1>1, InitIInv, InitOnePayment
<1> HIDE DEF Serial, SInv
<1>5. Spec /\ []Serial => []BonusAccruedOnce
  BY <1>2, <1>3, <1>4, PTL DEF Spec
<1> QED
  BY <1>5, PTL DEF BonusOnceIfSerial, Serial
=============================================================================
