------------------------ MODULE OrderLifecycleProofs ------------------------
(***************************************************************************)
(* Proofs about OrderLifecycle: type correctness, the invariants of the    *)
(* log and of the board, and that the service implements OrderBoard.       *)
(*                                                                         *)
(* None of it is inductive by itself.  That what is recorded was announced *)
(* last needs that one request at a time is between its flush and its      *)
(* COMMIT on an order (Exclusive); that the log begins with the creation   *)
(* needs that a request that creates an order is alone with it (Creators)  *)
(* and that the other requests have found the order in the database        *)
(* (TaskOK).                                                               *)
(***************************************************************************)
EXTENDS OrderLifecycle, FiniteSetTheorems, TLAPS

InHand == {"flush", "publish", "commit"}
Creating == {"manual", "widget"}
Kitchen == {"preparing", "ready"}

\* What a request has established by the step it is about to take.
TaskOK(t) ==
    /\ task[t].pc = "load" =>
          task[t].kind = "status" /\ task[t].order \in Orders
    /\ task[t].pc = "create" =>
          /\ task[t].kind \in Creating
          /\ task[t].event.from = "none"
          /\ task[t].kind = "widget" => task[t].event.by = "guest"
    /\ task[t].pc \in {"load", "create"} \cup InHand => task[t].event \in Events
    /\ task[t].pc \in InHand =>
          /\ task[t].order \in Orders
          /\ (task[t].event.from = "none") = (status[task[t].order] = "absent")
          /\ (task[t].kind \in Creating) = (status[task[t].order] = "absent")
          /\ task[t].event.by = "cook" => task[t].event.to \in Kitchen

\* A request that creates an order is the only one that does.
Creators ==
    \A t, u \in Tasks :
        /\ task[t].pc \in InHand /\ task[t].kind \in Creating
        /\ task[u].pc \in InHand /\ task[u].kind \in Creating
        /\ task[t].order = task[u].order
        => t = u

\* The row lock.
Exclusive ==
    \A t, u \in Tasks : \A o \in Orders : Holds(t, o) /\ Holds(u, o) => t = u

\* What is about to be committed is what was announced last.
Announced ==
    \A t \in Tasks : task[t].pc = "commit" =>
        /\ task[t].event \in published[task[t].order]
        /\ task[t].event.to = board[task[t].order]

\* The log of one order.
LogOK(o) ==
    /\ (history[o] = << >>) = (status[o] = "absent")
    /\ \A i \in DOMAIN history[o] : (history[o][i].from = "none") = (i = 1)
    /\ history[o] # << >> => history[o][Len(history[o])].to = status[o]
    /\ \A i \in DOMAIN history[o] :
          history[o][i].by = "cook" => history[o][i].to \in Kitchen

\* Between a publication and its COMMIT alone the board is ahead.
BoardOK ==
    failures = 0 =>
        \A o \in Orders :
            (\A t \in Tasks : ~(task[t].order = o /\ task[t].pc = "commit"))
                => board[o] = status[o]

IInv ==
    /\ TypeOK
    /\ \A t \in Tasks : TaskOK(t)
    /\ Creators
    /\ Exclusive
    /\ Announced
    /\ \A o \in Orders : LogOK(o)
    /\ BoardOK

-----------------------------------------------------------------------------
\* Steps that leave the orders and what is known of them alone.
Quiet == UNCHANGED <<status, closed, history, published, board>>

LEMMA IdleLocal == Idle \in Local
BY DEF Idle, Local, Steps, Kinds, NoEvent

\* A request that arrives comes to a task that was idle.
LEMMA ArrivalTypes ==
  ASSUME TypeOK, NEW t \in Tasks, NEW local \in Local, NEW by \in Roles \cup {"guest"},
         Accept(t), Dispatch(t, local) \/ Raised(by)
  PROVE  TypeOK'
<1>1. requests' \in 0..MaxRequests
  BY OrderLifecycleAssumption DEF TypeOK, Accept
<1>2. task' \in [Tasks -> Local]
  BY DEF TypeOK, Dispatch, Raised
<1>3. replies' \subseteq [role: Roles \cup {"guest"}, code: Codes]
  BY DEF TypeOK, Dispatch, Raised, Codes
<1> QED
  BY <1>1, <1>2, <1>3 DEF TypeOK, Accept

\* The local states with which requests begin.
LEMMA Arrivals ==
  ASSUME NEW t \in Tasks, Receive(t)
  PROVE  \E local \in Local, by \in Roles \cup {"guest"} :
            /\ Accept(t)
            /\ Dispatch(t, local) \/ Raised(by)
            /\ local.pc \in {"load", "create", "session"}
            /\ local.pc = "load" => local.kind = "status" /\ local.order \in Orders
            /\ local.pc = "create" =>
                  /\ local.kind \in Creating
                  /\ local.event.from = "none"
                  /\ local.event.to \in {"new", "accepted"}
                  /\ local.kind = "widget" => local.event.by = "guest"
            /\ local.pc \in {"load", "create"} => local.event \in Events
<1>1. ASSUME NEW o \in Orders, NEW to \in Statuses, NEW role \in Roles,
             PatchOrderStatus(t, o, to, role)
      PROVE  LET local == [pc |-> "load", kind |-> "status", order |-> o, basket |-> << >>,
                           event |-> [from |-> "none", to |-> to, by |-> role]]
             IN  /\ local \in Local /\ local.event \in Events
                 /\ Accept(t) /\ (Dispatch(t, local) \/ Raised(role))
  BY <1>1 DEF PatchOrderStatus, EnterAdmin, Local, Steps, Kinds, Events
<1>2. ASSUME NEW basket \in Baskets, NEW role \in Roles, CreateManualOrder(t, basket, role)
      PROVE  LET local == [pc |-> "create", kind |-> "manual", order |-> NoOrder,
                           basket |-> basket,
                           event |-> [from |-> "none", to |-> "accepted", by |-> role]]
             IN  /\ local \in Local /\ local.event \in Events
                 /\ Accept(t) /\ (Dispatch(t, local) \/ Raised(role))
  BY <1>2 DEF CreateManualOrder, EnterAdmin, InitialStatus, Local, Steps, Kinds, Events, Statuses
<1>3. ASSUME NEW basket \in Baskets, CreateWidgetOrder(t, basket)
      PROVE  LET local == [pc |-> "create", kind |-> "widget", order |-> NoOrder,
                           basket |-> basket,
                           event |-> [from |-> "none", to |-> "new", by |-> "guest"]]
             IN  /\ local \in Local /\ local.event \in Events
                 /\ Accept(t) /\ Dispatch(t, local)
  BY <1>3 DEF CreateWidgetOrder, EnterPublic, InitialStatus, Local, Steps, Kinds, Events, Statuses
<1>4. ASSUME CreateSession(t)
      PROVE  LET local == [Idle EXCEPT !.pc = "session", !.kind = "session"]
             IN  /\ local \in Local /\ local.pc = "session"
                 /\ Accept(t) /\ (Dispatch(t, local) \/ Raised("guest"))
  BY <1>4 DEF CreateSession, Idle, Local, Steps, Kinds, NoEvent
<1> QED
  BY <1>1, <1>2, <1>3, <1>4 DEF Receive, Creating

\* An answer leaves the task idle.
LEMMA AnswerTypes ==
  ASSUME TypeOK, NEW t \in Tasks, NEW code \in Codes, Answer(t, code)
  PROVE  /\ task' \in [Tasks -> Local]
         /\ replies' \subseteq [role: Roles \cup {"guest"}, code: Codes]
<1>1. task[t].event.by \in Roles \cup {"guest"}
  BY DEF TypeOK, Local, Events, NoEvent
<1> QED
  BY <1>1, IdleLocal DEF TypeOK, Answer

LEMMA TypeStep ==
  ASSUME TypeOK, \A t \in Tasks : TaskOK(t), [Next]_vars
  PROVE  TypeOK'
<1>1. ASSUME NEW t \in Tasks, Receive(t) PROVE TypeOK'
  BY <1>1, Arrivals, ArrivalTypes
<1>2. ASSUME NEW t \in Tasks, CommitSession(t) PROVE TypeOK'
  <2>1. Answer(t, "201")
    BY <1>2 DEF CommitSession
  <2>2. /\ task' \in [Tasks -> Local]
        /\ replies' \subseteq [role: Roles \cup {"guest"}, code: Codes]
    BY <2>1, AnswerTypes DEF Codes
  <2> QED
    BY <1>2, <2>2 DEF CommitSession, TypeOK
<1>3. ASSUME NEW t \in Tasks, LoadOrder(t) PROVE TypeOK'
  <2> DEFINE seen == status[task[t].order]
             code == Refusal(task[t].event.to, seen, task[t].event.by)
  <2>1. Quiet /\ UNCHANGED <<refused, session, requests, failures>>
    BY <1>3 DEF LoadOrder, Quiet
  <2>2. CASE code # "none"
    <3>1. Answer(t, code)
      BY <1>3, <2>2 DEF LoadOrder
    <3>2. code \in Codes
      BY <2>2 DEF Refusal, Codes
    <3>3. /\ task' \in [Tasks -> Local]
          /\ replies' \subseteq [role: Roles \cup {"guest"}, code: Codes]
      BY <3>1, <3>2, AnswerTypes
    <3> QED
      BY <2>1, <3>3 DEF TypeOK, Quiet
  <2>3. CASE code = "none"
    <3>1. task[t].order \in Orders /\ task[t].event \in Events /\ task[t] \in Local
      BY <1>3 DEF LoadOrder, TaskOK, TypeOK
    <3>2. seen \in Statuses
      BY <2>3, <3>1 DEF Refusal, TypeOK
    <3>3. /\ task' = [task EXCEPT ![t].pc = "flush", ![t].event.from = seen]
          /\ replies' = replies
      BY <1>3, <2>3 DEF LoadOrder
    <3>4. [task[t] EXCEPT !.pc = "flush", !.event.from = seen] \in Local
      BY <3>1, <3>2 DEF Local, Events, Steps
    <3>5. task' \in [Tasks -> Local]
      BY <3>3, <3>4 DEF TypeOK
    <3> QED
      BY <2>1, <3>3, <3>5 DEF TypeOK, Quiet
  <2> QED
    BY <2>2, <2>3
<1>4. ASSUME NEW t \in Tasks, CheckBasket(t) PROVE TypeOK'
  <2>1. Quiet /\ UNCHANGED <<session, requests, failures>>
    BY <1>4 DEF CheckBasket, Quiet
  <2>2. task[t] \in Local
    BY DEF TypeOK
  <2>3. CASE ~Forbidden(t) /\ Orderable(task[t].basket)
    <3>1. /\ \E o \in Orders : task' = [task EXCEPT ![t].pc = "flush", ![t].order = o]
          /\ UNCHANGED <<replies, refused>>
      BY <1>4, <2>3 DEF CheckBasket
    <3>2. PICK o \in Orders : task' = [task EXCEPT ![t].pc = "flush", ![t].order = o]
      BY <3>1
    <3>3. [task[t] EXCEPT !.pc = "flush", !.order = o] \in Local
      BY <2>2 DEF Local, Steps
    <3>4. task' \in [Tasks -> Local]
      BY <3>2, <3>3 DEF TypeOK
    <3> QED
      BY <2>1, <3>1, <3>4 DEF TypeOK, Quiet
  <2>4. CASE ~(~Forbidden(t) /\ Orderable(task[t].basket))
    <3>1. Answer(t, "403") \/ Answer(t, "500")
      BY <1>4, <2>4 DEF CheckBasket
    <3>2. /\ task' \in [Tasks -> Local]
          /\ replies' \subseteq [role: Roles \cup {"guest"}, code: Codes]
      BY <3>1, AnswerTypes DEF Codes
    <3>3. Orderable(<< >>)
      <4>1. ToSet(<< >>) \cap Available = {}
        BY DEF ToSet
      <4> QED
        BY <4>1, FS_EmptySet DEF Orderable
    <3>4. task[t].basket \in Baskets \cup {<< >>}
      BY <2>2 DEF Local
    <3>5. refused' \subseteq Baskets
      BY <1>4, <2>4, <3>3, <3>4 DEF CheckBasket, TypeOK
    <3> QED
      BY <2>1, <3>2, <3>5 DEF TypeOK, Quiet
  <2> QED
    BY <2>3, <2>4
<1>5. ASSUME NEW t \in Tasks, Flush(t) \/ PublishOrderEvent(t) PROVE TypeOK'
  <2>1. PICK pc \in {"publish", "commit"} : task' = [task EXCEPT ![t].pc = pc]
    BY <1>5 DEF Flush, PublishOrderEvent
  <2>a. [task[t] EXCEPT !.pc = pc] \in Local
    BY <2>1 DEF TypeOK, Local, Steps
  <2>2. task' \in [Tasks -> Local]
    BY <2>1, <2>a DEF TypeOK
  <2>3. published' \in [Orders -> SUBSET Events] /\ board' \in [Orders -> Statuses \cup {"absent"}]
    <3>1. CASE Flush(t)
      BY <3>1 DEF Flush, TypeOK
    <3>2. CASE PublishOrderEvent(t)
      <4>1. task[t].order \in Orders /\ task[t].event \in Events
        BY <3>2 DEF PublishOrderEvent, TaskOK, InHand
      <4> QED
        BY <3>2, <4>1 DEF PublishOrderEvent, Sent, TypeOK, Events
    <3> QED
      BY <1>5, <3>1, <3>2
  <2> QED
    BY <1>5, <2>2, <2>3 DEF TypeOK, Flush, PublishOrderEvent
<1>6. ASSUME NEW t \in Tasks, Commit(t) PROVE TypeOK'
  <2>1. task[t].order \in Orders /\ task[t].event \in Events
    BY <1>6 DEF Commit, TaskOK, InHand
  <2>2. /\ task' \in [Tasks -> Local]
        /\ replies' \subseteq [role: Roles \cup {"guest"}, code: Codes]
    BY <1>6, AnswerTypes DEF Commit, Codes
  <2>3. status' \in [Orders -> Statuses \cup {"absent"}] /\ closed' \in [Orders -> BOOLEAN]
    BY <1>6, <2>1 DEF Commit, Write, ClosedAt, TypeOK, Events
  <2>4. history' \in [Orders -> Seq(Events)]
    BY <1>6, <2>1 DEF Commit, Logged, TypeOK
  <2> QED
    BY <1>6, <2>2, <2>3, <2>4 DEF Commit, TypeOK
<1>7. ASSUME NEW t \in Tasks, Fail(t) PROVE TypeOK'
  <2>1. /\ task' \in [Tasks -> Local]
        /\ replies' \subseteq [role: Roles \cup {"guest"}, code: Codes]
    BY <1>7, AnswerTypes DEF Fail, Breaks, Codes
  <2>2. failures' \in 0..MaxFailures
    BY <1>7, OrderLifecycleAssumption DEF Fail, Breaks, TypeOK
  <2> QED
    BY <1>7, <2>1, <2>2 DEF Fail, TypeOK
<1>8. CASE UNCHANGED vars
  BY <1>8 DEF TypeOK, vars
<1> QED
  BY <1>1, <1>2, <1>3, <1>4, <1>5, <1>6, <1>7, <1>8 DEF Next, HandlerStep
-----------------------------------------------------------------------------
\* What the requests have in hand.
Hands ==
    /\ \A t \in Tasks : TaskOK(t)
    /\ Creators
    /\ Exclusive
    /\ Announced

\* A quiet step after which the task does not hold a row.
LEMMA MoveHands ==
  ASSUME TypeOK, Hands, Quiet, NEW t \in Tasks, NEW local \in Local,
         task' = [task EXCEPT ![t] = local],
         local.pc \notin {"publish", "commit"},
         local.pc = "load" =>
            local.kind = "status" /\ local.order \in Orders,
         local.pc = "create" =>
            /\ local.kind \in Creating
            /\ local.event.from = "none"
            /\ local.kind = "widget" => local.event.by = "guest",
         local.pc \in {"load", "create", "flush"} => local.event \in Events,
         local.pc = "flush" =>
            /\ local.order \in Orders
            /\ (local.event.from = "none") = (status[local.order] = "absent")
            /\ (local.kind \in Creating) = (status[local.order] = "absent")
            /\ local.event.by = "cook" => local.event.to \in Kitchen
            /\ local.kind \in Creating =>
                  \A u \in Tasks \ {t} : task[u].order # local.order
  PROVE  Hands'
<1>1. task'[t] = local /\ \A u \in Tasks \ {t} : task'[u] = task[u]
  BY DEF TypeOK
<1>2. status' = status /\ published' = published /\ board' = board
  BY DEF Quiet
<1>3. ASSUME NEW u \in Tasks PROVE TaskOK(u)'
  <2>1. CASE u = t
    BY <1>1, <1>2, <2>1 DEF TaskOK, InHand
  <2>2. CASE u # t
    BY <1>1, <1>2, <2>2 DEF Hands, TaskOK
  <2> QED
    BY <2>1, <2>2
<1>4. Creators'
  BY <1>1 DEF Hands, Creators, InHand
<1>5. Exclusive'
  BY <1>1 DEF Hands, Exclusive, Holds
<1>6. Announced'
  BY <1>1, <1>2 DEF Hands, Announced
<1> QED
  BY <1>3, <1>4, <1>5, <1>6 DEF Hands

LEMMA IdleHands ==
  ASSUME TypeOK, Hands, Quiet, NEW t \in Tasks, NEW code, Answer(t, code)
  PROVE  Hands'
<1>1. task' = [task EXCEPT ![t] = Idle] /\ Idle.pc = "idle"
  BY DEF Answer, Idle
<1> QED
  BY <1>1, IdleLocal, MoveHands

LEMMA HandsStep ==
  ASSUME TypeOK, Hands, [Next]_vars
  PROVE  Hands'
<1>1. ASSUME NEW t \in Tasks, Receive(t) PROVE Hands'
  <2>1. PICK local \in Local, by \in Roles \cup {"guest"} :
            /\ Accept(t)
            /\ Dispatch(t, local) \/ Raised(by)
            /\ local.pc \in {"load", "create", "session"}
            /\ local.pc = "load" => local.kind = "status" /\ local.order \in Orders
            /\ local.pc = "create" =>
                  /\ local.kind \in Creating
                  /\ local.event.from = "none"
                  /\ local.kind = "widget" => local.event.by = "guest"
            /\ local.pc \in {"load", "create"} => local.event \in Events
    BY <1>1, Arrivals
  <2>2. Quiet
    BY <2>1 DEF Accept, Quiet
  <2>3. CASE Dispatch(t, local)
    BY <2>1, <2>2, <2>3, MoveHands DEF Dispatch
  <2>4. CASE Raised(by)
    BY <2>2, <2>4 DEF Raised, Quiet, Hands, TaskOK, Creators, Exclusive, Announced, Holds
  <2> QED
    BY <2>1, <2>3, <2>4
<1>2. ASSUME NEW t \in Tasks, CommitSession(t) PROVE Hands'
  BY <1>2, IdleHands DEF CommitSession, Quiet
<1>3. ASSUME NEW t \in Tasks, LoadOrder(t) PROVE Hands'
  <2> DEFINE seen == status[task[t].order]
             code == Refusal(task[t].event.to, seen, task[t].event.by)
             local == [task[t] EXCEPT !.pc = "flush", !.event.from = seen]
  <2>1. Quiet
    BY <1>3 DEF LoadOrder, Quiet
  <2>2. CASE code # "none"
    BY <1>3, <2>1, <2>2, IdleHands DEF LoadOrder
  <2>3. CASE code = "none"
    <3>1. task' = [task EXCEPT ![t] = local]
      BY <1>3, <2>3 DEF LoadOrder, TypeOK
    <3>2. /\ task[t] \in Local /\ task[t].event \in Events
          /\ task[t].order \in Orders /\ task[t].kind = "status"
      BY <1>3 DEF LoadOrder, TypeOK, Hands, TaskOK
    <3>3. seen \in Statuses
      BY <2>3, <3>2 DEF Refusal, TypeOK
    <3>4. task[t].event.by = "cook" => task[t].event.to \in Kitchen
      BY <2>3 DEF Refusal, May, Permissions, Needed, Kitchen
    <3>5. /\ local \in Local /\ local.pc = "flush" /\ local.event \in Events
          /\ local.order = task[t].order /\ local.kind = "status"
          /\ local.event.from = seen
          /\ local.event.by = task[t].event.by /\ local.event.to = task[t].event.to
      BY <3>2, <3>3 DEF Local, Events, Steps
    <3>6. seen # "none" /\ seen # "absent" /\ local.kind \notin Creating
      BY <3>3, <3>5 DEF Statuses, Creating
    <3>7. /\ (local.event.from = "none") = (status[local.order] = "absent")
          /\ (local.kind \in Creating) = (status[local.order] = "absent")
      BY <3>5, <3>6
    <3> HIDE DEF local
    <3> QED
      BY <2>1, <3>1, <3>2, <3>4, <3>5, <3>6, <3>7, MoveHands
  <2> QED
    BY <2>2, <2>3
<1>4. ASSUME NEW t \in Tasks, CheckBasket(t) PROVE Hands'
  <2>1. Quiet
    BY <1>4 DEF CheckBasket, Quiet
  <2>2. CASE ~(~Forbidden(t) /\ Orderable(task[t].basket))
    BY <1>4, <2>1, <2>2, IdleHands DEF CheckBasket
  <2>3. CASE ~Forbidden(t) /\ Orderable(task[t].basket)
    <3>1. PICK o \in Orders : /\ ~Taken(o)
                              /\ task' = [task EXCEPT ![t].pc = "flush", ![t].order = o]
      BY <1>4, <2>3 DEF CheckBasket
    <3> DEFINE local == [task[t] EXCEPT !.pc = "flush", !.order = o]
    <3>2. task' = [task EXCEPT ![t] = local]
      BY <3>1 DEF TypeOK
    <3>3. /\ task[t] \in Local /\ task[t].event \in Events
          /\ task[t].kind \in Creating /\ task[t].event.from = "none"
          /\ task[t].kind = "widget" => task[t].event.by = "guest"
      BY <1>4 DEF CheckBasket, TypeOK, Hands, TaskOK
    <3>4. task[t].event.by # "cook"
      BY <2>3, <3>3 DEF Forbidden, May, Permissions, Creating
    <3>5. /\ local \in Local /\ local.pc = "flush"
          /\ local.order = o /\ local.kind = task[t].kind
          /\ local.event = task[t].event
      BY <3>3 DEF Local, Steps
    <3>6. status[o] = "absent" /\ \A u \in Tasks : task[u].order # o
      BY <3>1 DEF Taken
    <3> HIDE DEF local
    <3> QED
      BY <2>1, <3>2, <3>3, <3>4, <3>5, <3>6, MoveHands
  <2> QED
    BY <2>2, <2>3
<1>5. ASSUME NEW t \in Tasks, Flush(t) \/ PublishOrderEvent(t) PROVE Hands'
  <2>1. PICK pc \in {"publish", "commit"} : task' = [task EXCEPT ![t].pc = pc]
    BY <1>5 DEF Flush, PublishOrderEvent
  <2>2. /\ task[t].pc \in {"flush", "publish"} /\ status' = status
        /\ task[t] \in Local /\ task[t].order \in Orders /\ task[t].event \in Events
    BY <1>5 DEF Flush, PublishOrderEvent, TypeOK, Hands, TaskOK, InHand
  <2>3. /\ task'[t] = [task[t] EXCEPT !.pc = pc]
        /\ \A u \in Tasks \ {t} : task'[u] = task[u]
    BY <2>1 DEF TypeOK
  <2>4. /\ task'[t].pc = pc /\ task'[t].kind = task[t].kind
        /\ task'[t].order = task[t].order /\ task'[t].event = task[t].event
    BY <2>2, <2>3 DEF Local
  <2>5. ASSUME NEW u \in Tasks PROVE TaskOK(u)'
    <3>1. CASE u = t
      BY <2>2, <2>4, <3>1 DEF Hands, TaskOK, InHand
    <3>2. CASE u # t
      BY <2>2, <2>3, <3>2 DEF Hands, TaskOK
    <3> QED
      BY <3>1, <3>2
  <2>6. Creators'
    <3> SUFFICES ASSUME NEW u \in Tasks, NEW v \in Tasks,
                        task'[u].pc \in InHand, task'[u].kind \in Creating,
                        task'[v].pc \in InHand, task'[v].kind \in Creating,
                        task'[u].order = task'[v].order
                 PROVE  u = v
      BY DEF Creators
    <3>1. \A w \in Tasks : /\ task'[w].pc \in InHand => task[w].pc \in InHand
                           /\ task'[w].kind = task[w].kind
                           /\ task'[w].order = task[w].order
      BY <2>2, <2>3, <2>4 DEF InHand
    <3> QED
      BY <3>1 DEF Hands, Creators
  <2>7. \A u \in Tasks \ {t} : ~Holds(u, task[t].order)
    <3>1. CASE Flush(t)
      BY <3>1 DEF Flush
    <3>2. CASE PublishOrderEvent(t)
      BY <2>2, <3>2 DEF PublishOrderEvent, Hands, Exclusive, Holds
    <3> QED
      BY <1>5, <3>1, <3>2
  <2>8. Exclusive'
    <3> SUFFICES ASSUME NEW u \in Tasks, NEW v \in Tasks, NEW o \in Orders,
                        Holds(u, o)', Holds(v, o)'
                 PROVE  u = v
      BY DEF Exclusive
    <3>1. \A w \in Tasks \ {t} : Holds(w, o)' = Holds(w, o)
      BY <2>3 DEF Holds
    <3>2. Holds(t, o)' => o = task[t].order
      BY <2>4 DEF Holds
    <3> QED
      BY <2>7, <3>1, <3>2 DEF Hands, Exclusive
  <2>9. Announced'
    <3>1. CASE Flush(t)
      <4>1. pc = "publish" /\ published' = published /\ board' = board
        BY <2>2, <2>4, <3>1 DEF Flush, TypeOK
      <4> QED
        BY <2>3, <2>4, <4>1 DEF Hands, Announced
    <3>2. CASE PublishOrderEvent(t)
      <4>1. /\ published' = [published EXCEPT ![task[t].order] = @ \cup {task[t].event}]
            /\ board' = [board EXCEPT ![task[t].order] = task[t].event.to]
        BY <3>2 DEF PublishOrderEvent, Sent
      <4>2. /\ task[t].event \in published'[task[t].order]
            /\ board'[task[t].order] = task[t].event.to
        BY <2>2, <4>1 DEF TypeOK
      <4>3. ASSUME NEW u \in Tasks \ {t}, task[u].pc = "commit"
            PROVE  /\ task[u].event \in published'[task[u].order]
                   /\ board'[task[u].order] = task[u].event.to
        <5>1. task[u].order # task[t].order /\ task[u].order \in Orders
          BY <2>7, <4>3 DEF Holds, Hands, TaskOK, InHand
        <5> QED
          BY <4>1, <4>3, <5>1 DEF TypeOK, Hands, Announced
      <4>4. ASSUME NEW u \in Tasks, task'[u].pc = "commit"
            PROVE  /\ task'[u].event \in published'[task'[u].order]
                   /\ task'[u].event.to = board'[task'[u].order]
        <5>1. CASE u = t
          BY <2>4, <4>2, <5>1
        <5>2. CASE u # t
          BY <2>3, <4>3, <4>4, <5>2
        <5> QED
          BY <5>1, <5>2
      <4> QED
        BY <4>4 DEF Announced
    <3> QED
      BY <1>5, <3>1, <3>2
  <2> QED
    BY <2>5, <2>6, <2>8, <2>9 DEF Hands
<1>6. ASSUME NEW t \in Tasks, Commit(t) PROVE Hands'
  <2> DEFINE o == task[t].order
             e == task[t].event
  <2>1. /\ o \in Orders /\ e \in Events /\ task[t].pc = "commit"
        /\ (task[t].kind \in Creating) = (status[o] = "absent")
    BY <1>6 DEF Commit, Hands, TaskOK, InHand
  <2>2. /\ status' = [status EXCEPT ![o] = e.to] /\ e.to # "absent"
        /\ published' = published /\ board' = board
    BY <1>6, <2>1 DEF Commit, Write, Events, Statuses
  <2>3. task'[t] = Idle /\ \A u \in Tasks \ {t} : task'[u] = task[u]
    BY <1>6 DEF Commit, Answer, TypeOK
  <2>4. ASSUME NEW u \in Tasks PROVE TaskOK(u)'
    <3>1. CASE u = t
      BY <2>3, <3>1 DEF TaskOK, Idle, InHand
    <3>2. CASE u # t
      <4>1. CASE task[u].pc \notin InHand
        BY <2>3, <3>2, <4>1 DEF Hands, TaskOK
      <4>2. CASE task[u].pc \in InHand
        <5>1. task[u].order \in Orders
              /\ (task[u].kind \in Creating) = (status[task[u].order] = "absent")
          BY <4>2 DEF Hands, TaskOK
        <5>2. (status'[task[u].order] = "absent") = (status[task[u].order] = "absent")
          <6>1. CASE task[u].order # o
            BY <2>2, <5>1, <6>1 DEF TypeOK
          <6>2. CASE task[u].order = o
            <7>1. status[o] # "absent"
              BY <2>1, <3>2, <4>2, <5>1, <6>2 DEF Hands, Creators, InHand
            <7> QED
              BY <2>1, <2>2, <6>2, <7>1 DEF TypeOK
          <6> QED
            BY <6>1, <6>2
        <5> QED
          BY <2>3, <3>2, <5>2 DEF Hands, TaskOK
      <4> QED
        BY <4>1, <4>2
    <3> QED
      BY <3>1, <3>2
  <2>5. Creators'
    BY <2>3 DEF Hands, Creators, Idle, InHand
  <2>6. Exclusive'
    BY <2>3 DEF Hands, Exclusive, Holds, Idle
  <2>7. Announced'
    BY <2>2, <2>3 DEF Hands, Announced, Idle
  <2> QED
    BY <2>4, <2>5, <2>6, <2>7 DEF Hands
<1>7. ASSUME NEW t \in Tasks, Fail(t) PROVE Hands'
  BY <1>7, IdleHands DEF Fail, Breaks, Quiet
<1>8. CASE UNCHANGED vars
  BY <1>8 DEF vars, Hands, TaskOK, Creators, Exclusive, Announced, Holds
<1> QED
  BY <1>1, <1>2, <1>3, <1>4, <1>5, <1>6, <1>7, <1>8 DEF Next, HandlerStep
-----------------------------------------------------------------------------
\* The orders change in COMMIT, the board in a publication.  Only a failure
\* takes a request away from its COMMIT.
LEMMA StepKinds ==
  ASSUME TypeOK, [Next]_vars
  PROVE  \/ /\ Quiet
            /\ \/ \A u \in Tasks : task[u].pc = "commit" => task'[u] = task[u]
               \/ failures' # 0
            /\ failures' = 0 => failures = 0
         \/ \E t \in Tasks : PublishOrderEvent(t)
         \/ \E t \in Tasks : Commit(t)
<1>1. ASSUME NEW t \in Tasks, Receive(t)
      PROVE  /\ Quiet /\ failures' = failures
             /\ \A u \in Tasks : task[u].pc = "commit" => task'[u] = task[u]
  <2>1. PICK local \in Local, by \in Roles \cup {"guest"} :
            Accept(t) /\ (Dispatch(t, local) \/ Raised(by))
    BY <1>1, Arrivals
  <2>2. CASE Dispatch(t, local)
    BY <2>1, <2>2 DEF Accept, Dispatch, Quiet, TypeOK
  <2>3. CASE Raised(by)
    BY <2>1, <2>3 DEF Accept, Raised, Quiet
  <2> QED
    BY <2>1, <2>2, <2>3
<1>2. ASSUME NEW t \in Tasks,
             CommitSession(t) \/ LoadOrder(t) \/ CheckBasket(t) \/ Flush(t)
      PROVE  /\ Quiet /\ failures' = failures
             /\ \A u \in Tasks : task[u].pc = "commit" => task'[u] = task[u]
  <2>1. Quiet /\ failures' = failures /\ task[t].pc # "commit"
    BY <1>2 DEF CommitSession, LoadOrder, CheckBasket, Flush, Quiet
  <2>2. \A u \in Tasks \ {t} : task'[u] = task[u]
    <3>1. CASE CommitSession(t)
      BY <3>1 DEF CommitSession, Answer, TypeOK
    <3>2. CASE LoadOrder(t)
      BY <3>2 DEF LoadOrder, Answer, TypeOK
    <3>3. CASE CheckBasket(t)
      BY <3>3 DEF CheckBasket, Answer, TypeOK
    <3>4. CASE Flush(t)
      BY <3>4 DEF Flush, TypeOK
    <3> QED
      BY <1>2, <3>1, <3>2, <3>3, <3>4
  <2> QED
    BY <2>1, <2>2
<1>3. ASSUME NEW t \in Tasks, Fail(t)
      PROVE  Quiet /\ failures' # 0
  BY <1>3 DEF Fail, Breaks, Quiet, TypeOK
<1>4. CASE UNCHANGED vars
  BY <1>4 DEF vars, Quiet
<1> QED
  BY <1>1, <1>2, <1>3, <1>4 DEF Next, HandlerStep

LEMMA LogStep ==
  ASSUME IInv, [Next]_vars, NEW o \in Orders
  PROVE  LogOK(o)'
<1>1. CASE UNCHANGED <<status, history>>
  BY <1>1 DEF IInv, LogOK
<1>2. ASSUME NEW t \in Tasks, Commit(t) PROVE LogOK(o)'
  <2> DEFINE e == task[t].event
             s == history[o]
  <2>1. /\ task[t].order \in Orders /\ e \in Events
        /\ (e.from = "none") = (status[task[t].order] = "absent")
        /\ e.by = "cook" => e.to \in Kitchen
    BY <1>2 DEF Commit, IInv, TaskOK, InHand
  <2>2. /\ status' = [status EXCEPT ![task[t].order] = e.to]
        /\ history' = [history EXCEPT ![task[t].order] = Append(@, e)]
    BY <1>2 DEF Commit, Write, Logged
  <2>3. CASE task[t].order # o
    <3>1. status'[o] = status[o] /\ history'[o] = history[o]
      BY <2>2, <2>3 DEF IInv, TypeOK
    <3> QED
      BY <3>1 DEF IInv, LogOK
  <2>4. CASE task[t].order = o
    <3>1. s \in Seq(Events) /\ LogOK(o)
      BY DEF IInv, TypeOK
    <3>2. history'[o] = Append(s, e) /\ status'[o] = e.to
      BY <2>1, <2>2, <2>4 DEF IInv, TypeOK
    <3>3. e.to # "absent"
      BY <2>1 DEF Events, Statuses
    <3>4. /\ Len(Append(s, e)) = Len(s) + 1 /\ Len(s) \in Nat
          /\ Append(s, e)[Len(s) + 1] = e
          /\ \A i \in 1..Len(s) : Append(s, e)[i] = s[i]
          /\ DOMAIN Append(s, e) = 1..(Len(s) + 1) /\ DOMAIN s = 1..Len(s)
          /\ Append(s, e) # << >>
      BY <2>1, <3>1
    <3>5. (e.from = "none") = (s = << >>)
      BY <2>1, <2>4, <3>1 DEF LogOK
    <3>6. (Len(s) = 0) = (s = << >>)
      BY <3>1
    <3>7. ASSUME NEW i \in DOMAIN Append(s, e)
          PROVE  /\ (Append(s, e)[i].from = "none") = (i = 1)
                 /\ Append(s, e)[i].by = "cook" => Append(s, e)[i].to \in Kitchen
      <4>1. CASE i \in 1..Len(s)
        BY <3>1, <3>4, <4>1 DEF LogOK
      <4>2. CASE i = Len(s) + 1
        BY <2>1, <3>4, <3>5, <3>6, <4>2
      <4> QED
        BY <3>4, <4>1, <4>2
    <3> QED
      BY <3>2, <3>3, <3>4, <3>7 DEF LogOK
  <2> QED
    BY <2>3, <2>4
<1> QED
  BY <1>1, <1>2, StepKinds DEF IInv, Quiet, PublishOrderEvent

LEMMA BoardStep ==
  ASSUME IInv, TypeOK', [Next]_vars
  PROVE  BoardOK'
<1> SUFFICES ASSUME failures' = 0, NEW o \in Orders,
                    \A t \in Tasks : ~(task'[t].order = o /\ task'[t].pc = "commit")
             PROVE  board'[o] = status'[o]
  BY DEF BoardOK
<1>1. CASE /\ Quiet
           /\ \A u \in Tasks : task[u].pc = "commit" => task'[u] = task[u]
           /\ failures = 0
  BY <1>1 DEF IInv, BoardOK, Quiet
<1>2. ASSUME NEW t \in Tasks, PublishOrderEvent(t) PROVE board'[o] = status'[o]
  <2>1. /\ task'[t].pc = "commit" /\ task'[t].order = task[t].order
        /\ \A u \in Tasks \ {t} : task'[u] = task[u]
    BY <1>2 DEF PublishOrderEvent, IInv, TypeOK, Local
  <2>2. o # task[t].order
    BY <2>1
  <2>3. board'[o] = board[o] /\ status'[o] = status[o] /\ failures = 0
    BY <1>2, <2>2 DEF PublishOrderEvent, Sent, IInv, TypeOK
  <2>4. \A u \in Tasks : ~(task[u].order = o /\ task[u].pc = "commit")
    BY <1>2, <2>1 DEF PublishOrderEvent
  <2> QED
    BY <2>3, <2>4 DEF IInv, BoardOK
<1>3. ASSUME NEW t \in Tasks, Commit(t) PROVE board'[o] = status'[o]
  <2>1. /\ status' = [status EXCEPT ![task[t].order] = task[t].event.to]
        /\ board' = board /\ failures = 0
    BY <1>3 DEF Commit, Write
  <2>2. task[t].event.to = board[task[t].order] /\ task[t].order \in Orders
    BY <1>3 DEF Commit, IInv, Announced, TaskOK, InHand
  <2>3. CASE o = task[t].order
    BY <2>1, <2>2, <2>3 DEF IInv, TypeOK
  <2>4. CASE o # task[t].order
    <3>1. \A u \in Tasks : ~(task[u].order = o /\ task[u].pc = "commit")
      BY <1>3, <2>4 DEF Commit, Answer, IInv, TypeOK
    <3> QED
      BY <2>1, <2>4, <3>1 DEF IInv, BoardOK, TypeOK
  <2> QED
    BY <2>3, <2>4
<1> QED
  BY <1>1, <1>2, <1>3, StepKinds DEF IInv

-----------------------------------------------------------------------------
LEMMA InitIInv == Init => IInv
<1> SUFFICES ASSUME Init PROVE IInv
  OBVIOUS
<1>1. TypeOK
  <2>1. /\ history \in [Orders -> Seq(Events)]
        /\ published \in [Orders -> SUBSET Events]
    BY DEF Init
  <2>2. task \in [Tasks -> Local]
    BY IdleLocal DEF Init
  <2>3. requests \in 0..MaxRequests /\ failures \in 0..MaxFailures
    BY OrderLifecycleAssumption DEF Init
  <2>4. replies = {} /\ refused = {}
    BY DEF Init
  <2>5. /\ status \in [Orders -> Statuses \cup {"absent"}]
        /\ board \in [Orders -> Statuses \cup {"absent"}]
        /\ closed \in [Orders -> BOOLEAN] /\ session \in BOOLEAN
    BY DEF Init
  <2> QED
    BY <2>1, <2>2, <2>3, <2>4, <2>5 DEF TypeOK
<1>2. \A t \in Tasks : task[t].pc = "idle"
  BY DEF Init, Idle
<1>3. (\A t \in Tasks : TaskOK(t)) /\ Creators /\ Exclusive /\ Announced
  BY <1>2 DEF TaskOK, Creators, Exclusive, Announced, Holds, InHand
<1>4. (\A o \in Orders : LogOK(o)) /\ BoardOK
  BY DEF Init, LogOK, BoardOK
<1> QED
  BY <1>1, <1>3, <1>4 DEF IInv

LEMMA NextIInv == IInv /\ [Next]_vars => IInv'
<1> SUFFICES ASSUME IInv, [Next]_vars PROVE IInv'
  OBVIOUS
<1>1. TypeOK'
  BY TypeStep DEF IInv
<1>2. Hands'
  BY HandsStep DEF IInv, Hands
<1> QED
  BY <1>1, <1>2, LogStep, BoardStep DEF IInv, Hands

THEOREM Invariance == Spec => []IInv
BY InitIInv, NextIInv, PTL DEF Spec

\* Every variable keeps its type: the statuses are those of the schema, and
\* what is logged, announced and answered is what the handlers can say.
THEOREM TypeCorrect == Spec => []TypeOK
<1>1. IInv => TypeOK
  BY DEF IInv
<1> QED
  BY <1>1, Invariance, PTL

\* The log of every order begins with its creation, has no other, and ends
\* with the committed status, through refusals, failures and races.
THEOREM LogTellsStatus == Spec => []HistoryTellsStatus
<1>1. IInv => HistoryTellsStatus
  <2> SUFFICES ASSUME IInv, NEW o \in Orders
               PROVE  IF history[o] = << >> THEN status[o] = "absent"
                      ELSE /\ \A i \in DOMAIN history[o] : (history[o][i].from = "none") = (i = 1)
                           /\ Last(history[o]).to = status[o]
    BY DEF HistoryTellsStatus
  <2> QED
    BY DEF IInv, LogOK, Last
<1> QED
  BY <1>1, Invariance, PTL

\* When no request is between its flush and its COMMIT on an order and none
\* has failed, those who follow the channel know the order's status.
THEOREM SubscribersAgree == Spec => []BoardConverges
<1>1. IInv => BoardConverges
  BY DEF IInv, BoardOK, BoardConverges, Holds
<1> QED
  BY <1>1, Invariance, PTL

\* The check of the permission, made on what was read before the lock, is
\* enough to keep a cook in the kitchen whatever else happens to the order.
THEOREM KitchenOnly == Spec => []CookStaysInKitchen
<1>1. IInv => CookStaysInKitchen
  BY DEF IInv, LogOK, CookStaysInKitchen, ToSet, Kitchen
<1> QED
  BY <1>1, Invariance, PTL

\* A publication is Announce, COMMIT is Record, all else a stutter.
LEMMA StepImplements ==
  ASSUME IInv, [Next]_vars
  PROVE  [Board!Next]_(Board!vars)
<1>1. CASE Quiet
  BY <1>1 DEF Quiet, Board!vars
<1>2. ASSUME NEW t \in Tasks, PublishOrderEvent(t) PROVE Board!Next
  <2>1. task[t].order \in Orders /\ task[t].event \in Events
    BY <1>2 DEF PublishOrderEvent, IInv, TaskOK, InHand
  <2>2. Board!Announce(task[t].order, task[t].event)
    BY <1>2 DEF PublishOrderEvent, Sent, Board!Announce
  <2> QED
    BY <2>1, <2>2 DEF Board!Next
<1>3. ASSUME NEW t \in Tasks, Commit(t) PROVE Board!Next
  <2>1. /\ task[t].order \in Orders /\ task[t].event \in Events
        /\ (task[t].event.from = "none") = (status[task[t].order] = "absent")
        /\ task[t].event.by = "cook" => task[t].event.to \in Kitchen
    BY <1>3 DEF Commit, IInv, TaskOK, InHand
  <2>2. /\ task[t].event \in published[task[t].order]
        /\ task[t].event.to = board[task[t].order]
    BY <1>3 DEF Commit, IInv, Announced
  <2>3. (history[task[t].order] = << >>) = (status[task[t].order] = "absent")
    BY <2>1 DEF IInv, LogOK
  <2>4. Board!Record(task[t].order, task[t].event)
    BY <1>3, <2>1, <2>2, <2>3 DEF Commit, Write, Logged, Board!Record, Kitchen
  <2> QED
    BY <2>1, <2>4 DEF Board!Next
<1> QED
  BY <1>1, <1>2, <1>3, StepKinds DEF IInv

\* The service implements the board: whatever is recorded was announced, and
\* announced last, so subscribers miss no change and see them in order.
THEOREM BoardImplemented == Spec => ImplementsBoard
<1>1. Init => Board!Init
  BY DEF Init, Board!Init
<1> QED
  BY <1>1, StepImplements, Invariance, PTL DEF Spec, ImplementsBoard, Board!Spec

-----------------------------------------------------------------------------
(* One request at a time.                                                  *)

\* The status a request decided about is the status it changes.
Fresh(me) ==
    /\ me.pc = "create" => me.event.to \in {"new", "accepted"}
    /\ me.pc \in InHand =>
          me.event.to \in IF status[me.order] = "absent" THEN {"new", "accepted"}
                          ELSE Allowed[status[me.order]]

PolicyKept ==
    /\ HistoryFollowsPolicy
    /\ ClosedIffCompleted
    /\ \A t \in Tasks : Fresh(task[t])

\* In a set of one element at most, any two are the same.
LEMMA OnlyOne ==
  ASSUME NEW S, IsFiniteSet(S), Cardinality(S) <= 1, NEW t \in S, NEW u \in S
  PROVE  t = u
<1>1. /\ IsFiniteSet(S \ {t}) /\ Cardinality(S \ {t}) \in Nat /\ Cardinality(S) \in Nat
      /\ Cardinality(S \ {t}) = Cardinality(S) - 1
  BY FS_RemoveElement, FS_CardinalityType
<1>2. Cardinality(S \ {t}) = 0
  BY <1>1
<1>3. S \ {t} = {}
  BY <1>1, <1>2, FS_EmptySet
<1> QED
  BY <1>3

LEMMA QuietPolicy ==
  ASSUME TypeOK, PolicyKept, Quiet, NEW t \in Tasks, NEW local, Fresh(local),
         task' = [task EXCEPT ![t] = local]
  PROVE  PolicyKept'
<1>1. HistoryFollowsPolicy' /\ ClosedIffCompleted'
  BY DEF PolicyKept, HistoryFollowsPolicy, ClosedIffCompleted, Quiet
<1>2. ASSUME NEW u \in Tasks PROVE Fresh(task[u])'
  <2>1. task'[u] = IF u = t THEN local ELSE task[u]
    BY DEF TypeOK
  <2>2. Fresh(task'[u])
    BY <2>1 DEF PolicyKept
  <2> QED
    BY <2>2 DEF Fresh, Quiet
<1> QED
  BY <1>1, <1>2 DEF PolicyKept

LEMMA AnswerPolicy ==
  ASSUME TypeOK, PolicyKept, Quiet, NEW t \in Tasks, NEW code, Answer(t, code)
  PROVE  PolicyKept'
<1>1. Fresh(Idle)
  BY DEF Fresh, Idle, InHand
<1> QED
  BY <1>1, QuietPolicy DEF Answer

\* The committed change is one of the policy, and it closes what it completes.
LEMMA CommitPolicy ==
  ASSUME IInv, PolicyKept, Cardinality(AtWork) <= 1, NEW t \in Tasks, Commit(t)
  PROVE  PolicyKept'
<1>1. PICK o \in Orders : o = task[t].order
  BY DEF Commit, IInv, TaskOK, InHand
<1> DEFINE e == task[t].event
<1>2. /\ e \in Events /\ status[o] \in Statuses \cup {"absent"} /\ LogOK(o)
      /\ history[o] \in Seq(Events)
      /\ e.to \in IF status[o] = "absent" THEN {"new", "accepted"} ELSE Allowed[status[o]]
  BY <1>1 DEF Commit, IInv, TypeOK, TaskOK, InHand, PolicyKept, Fresh
<1>3. /\ status' = [status EXCEPT ![o] = e.to]
      /\ closed' = [closed EXCEPT ![o] = closed[o] \/ e.to = "completed"]
      /\ history' = [history EXCEPT ![o] = Append(history[o], e)]
  BY <1>1 DEF Commit, Write, ClosedAt, Logged
<1> HIDE DEF e
<1>4. \A r \in Orders \ {o} : /\ status'[r] = status[r] /\ closed'[r] = closed[r]
                              /\ history'[r] = history[r]
  BY <1>3 DEF IInv, TypeOK
<1>5. /\ status'[o] = e.to /\ closed'[o] = (closed[o] \/ e.to = "completed")
      /\ history'[o] = Append(history[o], e)
  BY <1>3 DEF IInv, TypeOK
<1>6. ClosedIffCompleted'
  <2>1. closed[o] => status[o] = "completed"
    BY DEF PolicyKept, ClosedIffCompleted
  <2>2. status[o] # "completed"
    BY <1>2 DEF Allowed, Statuses
  <2> QED
    BY <1>4, <1>5, <2>1, <2>2 DEF PolicyKept, ClosedIffCompleted
<1>7. HistoryFollowsPolicy'
  <2> SUFFICES ASSUME NEW r \in Orders, NEW i \in DOMAIN history'[r] \ {1}
               PROVE  history'[r][i].to \in Allowed[history'[r][i - 1].to]
    BY DEF HistoryFollowsPolicy
  <2>1. CASE r # o
    BY <1>4, <2>1 DEF PolicyKept, HistoryFollowsPolicy
  <2>2. CASE r = o
    <3> DEFINE n == Len(history[o])
    <3>1. /\ n \in Nat /\ i \in 2..(n + 1) /\ i - 1 \in 1..n
          /\ history'[o][i - 1] = history[o][i - 1]
      BY <1>2, <1>5, <2>2
    <3>2. CASE i \in 1..n
      BY <1>2, <1>5, <2>2, <3>1, <3>2 DEF PolicyKept, HistoryFollowsPolicy
    <3>3. CASE i = n + 1
      <4>1. history'[o][i] = e /\ i - 1 = n /\ history[o] # << >>
        BY <1>2, <1>5, <3>1, <3>3
      <4>2. history[o][n].to = status[o] /\ status[o] # "absent"
        BY <1>2, <4>1 DEF LogOK
      <4> QED
        BY <1>2, <2>2, <3>1, <4>1, <4>2
    <3> QED
      BY <3>1, <3>2, <3>3
  <2> QED
    BY <2>1, <2>2
<1>8. ASSUME NEW u \in Tasks PROVE Fresh(task[u])'
  <2>1. \A v \in Tasks : task[v].pc # "idle" => v = t
    <3>1. IsFiniteSet(AtWork) /\ t \in AtWork
      BY OrderLifecycleAssumption, FS_Subset DEF AtWork, Commit
    <3> QED
      BY <3>1, OnlyOne DEF AtWork
  <2>2. task'[u].pc = "idle"
    BY <2>1 DEF Commit, Answer, Idle, IInv, TypeOK
  <2> QED
    BY <2>2 DEF Fresh, InHand
<1> QED
  BY <1>6, <1>7, <1>8 DEF PolicyKept

LEMMA PolicyStep ==
  ASSUME IInv, PolicyKept, Cardinality(AtWork) <= 1, [Next]_vars
  PROVE  PolicyKept'
<1>0. TypeOK
  BY DEF IInv
<1>1. ASSUME NEW t \in Tasks, Receive(t) PROVE PolicyKept'
  <2>1. PICK local \in Local, by \in Roles \cup {"guest"} :
            /\ Accept(t)
            /\ Dispatch(t, local) \/ Raised(by)
            /\ local.pc \in {"load", "create", "session"}
            /\ local.pc = "create" => local.event.to \in {"new", "accepted"}
    BY <1>1, Arrivals
  <2>2. Quiet
    BY <2>1 DEF Accept, Quiet
  <2>3. CASE Dispatch(t, local)
    <3>1. Fresh(local)
      BY <2>1 DEF Fresh, InHand
    <3> QED
      BY <1>0, <2>2, <2>3, <3>1, QuietPolicy DEF Dispatch
  <2>4. CASE Raised(by)
    BY <2>2, <2>4
       DEF Raised, Quiet, PolicyKept, HistoryFollowsPolicy, ClosedIffCompleted, Fresh
  <2> QED
    BY <2>1, <2>3, <2>4
<1>2. ASSUME NEW t \in Tasks, CommitSession(t) \/ Fail(t) PROVE PolicyKept'
  BY <1>0, <1>2, AnswerPolicy DEF CommitSession, Fail, Breaks, Quiet
<1>3. ASSUME NEW t \in Tasks, LoadOrder(t) PROVE PolicyKept'
  <2> DEFINE seen == status[task[t].order]
             code == Refusal(task[t].event.to, seen, task[t].event.by)
             local == [task[t] EXCEPT !.pc = "flush", !.event.from = seen]
  <2>1. Quiet
    BY <1>3 DEF LoadOrder, Quiet
  <2>2. CASE code # "none"
    BY <1>0, <1>3, <2>1, <2>2, AnswerPolicy DEF LoadOrder
  <2>3. CASE code = "none"
    <3>1. task' = [task EXCEPT ![t] = local]
      BY <1>3, <2>3 DEF LoadOrder, IInv, TypeOK
    <3>2. task[t] \in Local /\ task[t].event \in Events
      BY <1>3 DEF LoadOrder, IInv, TypeOK, TaskOK
    <3>3. seen # "absent" /\ task[t].event.to \in Allowed[seen]
      BY <2>3 DEF Refusal
    <3>4. /\ local.pc = "flush" /\ local.order = task[t].order
          /\ local.event.to = task[t].event.to
      BY <3>2 DEF Local, Events
    <3> HIDE DEF local
    <3>5. Fresh(local)
      BY <3>3, <3>4 DEF Fresh
    <3> QED
      BY <1>0, <2>1, <3>1, <3>5, QuietPolicy
  <2> QED
    BY <2>2, <2>3
<1>4. ASSUME NEW t \in Tasks, CheckBasket(t) PROVE PolicyKept'
  <2>1. Quiet
    BY <1>4 DEF CheckBasket, Quiet
  <2>2. CASE ~(~Forbidden(t) /\ Orderable(task[t].basket))
    BY <1>0, <1>4, <2>1, <2>2, AnswerPolicy DEF CheckBasket
  <2>3. CASE ~Forbidden(t) /\ Orderable(task[t].basket)
    <3>1. PICK o \in Orders : /\ ~Taken(o)
                              /\ task' = [task EXCEPT ![t].pc = "flush", ![t].order = o]
      BY <1>4, <2>3 DEF CheckBasket
    <3> DEFINE local == [task[t] EXCEPT !.pc = "flush", !.order = o]
    <3>2. task' = [task EXCEPT ![t] = local]
      BY <3>1 DEF IInv, TypeOK
    <3>3. task[t] \in Local /\ task[t].event.to \in {"new", "accepted"}
      BY <1>4 DEF CheckBasket, IInv, TypeOK, PolicyKept, Fresh
    <3>4. local.pc = "flush" /\ local.order = o /\ local.event = task[t].event
      BY <3>3 DEF Local
    <3> HIDE DEF local
    <3>5. Fresh(local)
      BY <3>1, <3>3, <3>4 DEF Fresh, Taken
    <3> QED
      BY <1>0, <2>1, <3>2, <3>5, QuietPolicy
  <2> QED
    BY <2>2, <2>3
<1>5. ASSUME NEW t \in Tasks, Flush(t) \/ PublishOrderEvent(t) PROVE PolicyKept'
  <2>1. /\ UNCHANGED <<status, closed, history>> /\ task[t].pc \in InHand
        /\ \E pc \in {"publish", "commit"} : task' = [task EXCEPT ![t].pc = pc]
    BY <1>5 DEF Flush, PublishOrderEvent, InHand
  <2>2. HistoryFollowsPolicy' /\ ClosedIffCompleted'
    BY <2>1 DEF PolicyKept, HistoryFollowsPolicy, ClosedIffCompleted
  <2>3. ASSUME NEW u \in Tasks PROVE Fresh(task[u])'
    <3>1. /\ task[u] \in Local /\ task'[u].event = task[u].event
          /\ task'[u].order = task[u].order
          /\ task'[u].pc \in InHand \/ task'[u].pc = task[u].pc
          /\ task'[u].pc \in InHand => task[u].pc \in InHand
      BY <1>0, <2>1 DEF TypeOK, Local, InHand
    <3>2. Fresh(task[u]) /\ status' = status
      BY <2>1 DEF PolicyKept
    <3> QED
      BY <3>1, <3>2 DEF Fresh, InHand
  <2> QED
    BY <2>2, <2>3 DEF PolicyKept
<1>6. ASSUME NEW t \in Tasks, Commit(t) PROVE PolicyKept'
  BY <1>6, CommitPolicy
<1>7. CASE UNCHANGED vars
  BY <1>7 DEF vars, PolicyKept, HistoryFollowsPolicy, ClosedIffCompleted, Fresh
<1> QED
  BY <1>1, <1>2, <1>3, <1>4, <1>5, <1>6, <1>7 DEF Next, HandlerStep

\* While requests come one at a time the checks of update_order_status, made
\* before the lock, are enough: every committed change is one of
\* ALLOWED_TRANSITIONS, and closed_at marks exactly the completed orders.
THEOREM SerialPolicy == Spec => PolicyHoldsIfSerial
<1> DEFINE Serial == Cardinality(AtWork) <= 1
           Policy == HistoryFollowsPolicy /\ ClosedIffCompleted
<1>1. Init => PolicyKept
  <2> SUFFICES ASSUME Init PROVE PolicyKept
    OBVIOUS
  <2>1. HistoryFollowsPolicy
    <3>1. \A o \in Orders : DOMAIN history[o] \ {1} = {}
      BY DEF Init
    <3> QED
      BY <3>1 DEF HistoryFollowsPolicy
  <2>2. ClosedIffCompleted
    BY DEF Init, ClosedIffCompleted
  <2>3. \A t \in Tasks : Fresh(task[t])
    BY DEF Init, Fresh, Idle, InHand
  <2> QED
    BY <2>1, <2>2, <2>3 DEF PolicyKept
<1>2. IInv /\ PolicyKept /\ Serial /\ [Next]_vars => PolicyKept'
  BY PolicyStep
<1>3. PolicyKept => Policy
  BY DEF PolicyKept
<1> HIDE DEF Serial, Policy
<1>4. Spec /\ []Serial => []Policy
  BY <1>1, <1>2, <1>3, Invariance, PTL DEF Spec
<1> QED
  BY <1>4, PTL DEF PolicyHoldsIfSerial, Serial, Policy
=============================================================================
