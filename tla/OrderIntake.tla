---------------------------- MODULE OrderIntake ----------------------------
(***************************************************************************)
(* create_order of api/routes/orders.py and the ingredient stock it        *)
(* reserves from, with stock_incoming of api/routes/ingredients.py, run    *)
(* against PostgreSQL in READ COMMITTED mode.                              *)
(*                                                                         *)
(* A task is one request handler with a pooled connection and takes a step *)
(* per SELECT of a row that others change, per UPDATE and for COMMIT.  A   *)
(* request stands for one submission by a client, sent again (same         *)
(* Idempotency-Key) as clients do.  Its items and their recipes are        *)
(* flattened to a sequence of lines [ing, need] in the order the code      *)
(* visits them.  Menu prices, modifiers and the minimum amount are read    *)
(* from tables nothing here writes: Valid holds the requests that pass.    *)
(***************************************************************************)
EXTENDS Integers, Sequences, FiniteSets, FiniteSetsExt

CONSTANTS
    Requests, Ingredients, Users, Tasks,
    NoRequest,
    Lines,          \* request -> sequence of [ing, need]
    Total,          \* request -> order total
    Points,         \* request -> loyalty_points_to_use
    UserOf,         \* request -> user_id
    Valid,          \* requests with the current prices and enough amount
    Stock0,         \* initial ingredients.current_stock
    Balance,        \* users.loyalty_points
    MaxSends,       \* bound: times a client sends a request
    MaxRestocks,    \* bound: calls of stock_incoming
    MaxFailures     \* bound: lost connections

ASSUME OrderIntakeAssumption ==
    /\ NoRequest \notin Requests
    /\ Lines \in [Requests -> Seq([ing: Ingredients, need: Nat \ {0}])]
    /\ Total \in [Requests -> Nat]
    /\ Points \in [Requests -> Nat]
    /\ UserOf \in [Requests -> Users]
    /\ Valid \subseteq Requests
    /\ Stock0 \in [Ingredients -> Nat]
    /\ Balance \in [Users -> Nat]
    /\ IsFiniteSet(Requests)
    /\ IsFiniteSet(Tasks) /\ Tasks # {}
    /\ MaxSends \in Nat /\ MaxRestocks \in Nat /\ MaxFailures \in Nat

VARIABLES
    stock,      \* committed ingredients.current_stock
    placed,     \* committed orders rows, counted by the request they serve
    keys,       \* committed values of orders.idempotency_key
    moved,      \* committed stock_movements, summed by ingredient
    task,       \* local state of each handler
    sent,       \* times each request was sent
    replies,    \* replies each client has received
    restocks, failures

vars == <<stock, placed, keys, moved, task, sent, replies, restocks, failures>>

Steps == {"idle", "lookup", "check", "take", "loyalty", "insert", "commit", "reply"}
Replies == {"201", "200", "422", "500"}

Idle == [pc |-> "idle", req |-> NoRequest, line |-> 1]

Init ==
    /\ stock = Stock0
    /\ placed = [r \in Requests |-> 0]
    /\ keys = {}
    /\ moved = [i \in Ingredients |-> 0]
    /\ task = [t \in Tasks |-> Idle]
    /\ sent = [r \in Requests |-> 0]
    /\ replies = [r \in Requests |-> {}]
    /\ restocks = 0
    /\ failures = 0

-----------------------------------------------------------------------------
\* What lines 1..n of a request take from an ingredient.
Needs(r) == [k \in 1..Len(Lines[r]) |-> Lines[r][k].need]
Taken(r, n, i) == SumFunctionOnSet(Needs(r), {k \in 1..n : Lines[r][k].ing = i})

Need(r, i) == Taken(r, Len(Lines[r]), i)

Line(t) == Lines[task[t].req][task[t].line]

\* Rows updated (or read FOR UPDATE) and not yet committed.
Held(t) ==
    LET r == task[t].req
        pc == task[t].pc
    IN  {<<"ingredient", Lines[r][k].ing>> : k \in 1..(task[t].line - 1)}
        \cup
        (IF pc \in {"insert", "commit"} /\ Points[r] > 0
         THEN {<<"user", UserOf[r]>>} ELSE {})

\* The row the next statement must lock.
NextRow(t) ==
    IF task[t].pc = "take" THEN <<"ingredient", Line(t).ing>>
    ELSE <<"user", UserOf[task[t].req]>>

AtLock(t) ==
    \/ task[t].pc = "take"
    \/ task[t].pc = "loyalty" /\ Points[task[t].req] > 0

Free(row, t) == \A k \in Tasks \ {t} : row \notin Held(k)

InWaitCycle(t) ==
    \E S \in SUBSET Tasks :
        /\ t \in S
        /\ \A k \in S : /\ AtLock(k)
                        /\ \E j \in S \ {k} : NextRow(k) \in Held(j)

Go(t, pc) == task' = [task EXCEPT ![t].pc = pc]

\* The transaction rolls back (or had nothing to commit) and the client is
\* answered.
Answer(t, reply) ==
    /\ task' = [task EXCEPT ![t] = Idle]
    /\ replies' = [replies EXCEPT ![task[t].req] = @ \cup {reply}]

-----------------------------------------------------------------------------
Send(t, r) ==
    /\ task[t].pc = "idle"
    /\ sent[r] < MaxSends
    /\ sent' = [sent EXCEPT ![r] = @ + 1]
    /\ task' = [task EXCEPT ![t] = [Idle EXCEPT !.pc = "lookup", !.req = r]]
    /\ UNCHANGED <<stock, placed, keys, moved, replies, restocks, failures>>

AtLineTooFar(r, n) ==       \* (mutant: one line too many)
    IF n <= Len(Lines[r]) + 1 THEN "check" ELSE "loyalty"
\* The statement after line n - 1 of a request.
AtLine(r, n) == IF n <= Len(Lines[r]) THEN "check" ELSE "loyalty"

\* The idempotency lookup, then the price and minimum-amount checks.
Lookup(t) ==
    LET r == task[t].req IN
    /\ task[t].pc = "lookup"
    /\ IF r \in Valid \ keys
       THEN Go(t, AtLine(r, 1)) /\ UNCHANGED replies
       ELSE Answer(t, IF r \in keys THEN "200" ELSE "422")
    /\ UNCHANGED <<stock, placed, keys, moved, sent, restocks, failures>>

\* (mutant: the error is returned, not raised, so the transaction commits)
RejectCommitting(t) ==
    LET r == task[t].req IN
    /\ stock' = [i \in Ingredients |-> stock[i] - Taken(r, task[t].line - 1, i)]
    /\ Answer(t, "422")
\* (mutant: the client is answered, the transaction stays open)
RejectLeavingOpen(t) ==
    /\ replies' = [replies EXCEPT ![task[t].req] = @ \cup {"422"}]
    /\ UNCHANGED <<stock, task>>
\* HTTPException inside conn.transaction().
Reject(t) == Answer(t, "422") /\ UNCHANGED stock

\* The SELECT sees the committed stock and this transaction's own updates.
NoComparison(t) == TRUE     \* (mutant: no check)
EnoughInStock(t) ==
    stock[Line(t).ing] - Taken(task[t].req, task[t].line - 1, Line(t).ing)
        >= Line(t).need

CheckStock(t) ==
    /\ task[t].pc = "check"
    /\ \/ EnoughInStock(t) /\ Go(t, "take") /\ UNCHANGED <<stock, replies>>
       \/ ~EnoughInStock(t) /\ Reject(t)
    /\ UNCHANGED <<placed, keys, moved, sent, restocks, failures>>

\* UPDATE ... SET current_stock = current_stock - needed.
TakeStock(t) ==
    /\ task[t].pc = "take"
    /\ Free(NextRow(t), t)
    /\ task' = [task EXCEPT
          ![t].pc = AtLine(task[t].req, task[t].line + 1), ![t].line = @ + 1]
    /\ UNCHANGED <<stock, placed, keys, moved, sent, replies, restocks, failures>>

\* SELECT ... FOR UPDATE of the balance, when points are to be used.
MayUse(r) == Points[r] <= Balance[UserOf[r]] /\ 2 * Points[r] <= Total[r]

ApplyLoyalty(t) ==
    LET r == task[t].req IN
    /\ task[t].pc = "loyalty"
    /\ \/ Points[r] = 0 /\ Go(t, "insert") /\ UNCHANGED <<stock, replies>>
       \/ /\ Points[r] > 0
          /\ Free(NextRow(t), t)
          /\ \/ MayUse(r) /\ Go(t, "insert") /\ UNCHANGED <<stock, replies>>
             \/ ~MayUse(r) /\ Reject(t)
    /\ UNCHANGED <<placed, keys, moved, sent, restocks, failures>>

\* INSERT of the order; with points, their deduction and its log entry, whose
\* template mixes "{}" and "{4}" and makes format_sql raise.
LogEntryRaises == TRUE

InsertOrder(t) ==
    /\ task[t].pc = "insert"
    /\ \/ /\ Points[task[t].req] > 0 /\ LogEntryRaises
          /\ Answer(t, "500")
       \/ /\ Points[task[t].req] = 0 \/ ~LogEntryRaises
          /\ Go(t, "commit")
          /\ UNCHANGED replies
    /\ UNCHANGED <<stock, placed, keys, moved, sent, restocks, failures>>

\* The columns of the INSERT do not include idempotency_key.
StoredKey(r) == {}

CommitOrder(t) ==
    LET r == task[t].req IN
    /\ task[t].pc = "commit"
    /\ stock' = [i \in Ingredients |-> stock[i] - Need(r, i)]
    /\ placed' = [placed EXCEPT ![r] = @ + 1]
    /\ keys' = keys \cup StoredKey(r)
    /\ task' = [task EXCEPT ![t] = [Idle EXCEPT !.pc = "reply", !.req = r]]
    /\ UNCHANGED <<moved, sent, replies, restocks, failures>>

Reply(t) ==
    /\ task[t].pc = "reply"
    /\ Answer(t, "201")
    /\ UNCHANGED <<stock, placed, keys, moved, sent, restocks, failures>>

\* stock_incoming: one UPDATE and the movement's INSERT, in one transaction.
StockIncoming(i, quantity) ==
    /\ restocks < MaxRestocks
    /\ \A t \in Tasks : <<"ingredient", i>> \notin Held(t)
    /\ restocks' = restocks + 1
    /\ stock' = [stock EXCEPT ![i] = @ + quantity]
    /\ moved' = [moved EXCEPT ![i] = @ + quantity]
    /\ UNCHANGED <<placed, keys, task, sent, replies, failures>>

\* The connection to the client or to the database is lost: no answer, and
\* the transaction rolls back if it was not committed.
Fail(t) ==
    /\ task[t].pc # "idle"
    /\ failures < MaxFailures
    /\ failures' = failures + 1
    /\ task' = [task EXCEPT ![t] = Idle]
    /\ UNCHANGED <<stock, placed, keys, moved, sent, replies, restocks>>

\* PostgreSQL aborts one transaction of a wait cycle.
DeadlockVictim(t) ==
    /\ InWaitCycle(t)
    /\ Answer(t, "500")
    /\ UNCHANGED <<stock, placed, keys, moved, sent, restocks, failures>>

-----------------------------------------------------------------------------
HandlerStep(t) ==
    \/ Lookup(t)
    \/ CheckStock(t)
    \/ TakeStock(t)
    \/ ApplyLoyalty(t)
    \/ InsertOrder(t)
    \/ CommitOrder(t)
    \/ Reply(t)

Next ==
    \/ \E t \in Tasks, r \in Requests : Send(t, r)
    \/ \E t \in Tasks : HandlerStep(t) \/ Fail(t) \/ DeadlockVictim(t)
    \/ \E i \in Ingredients, quantity \in {1} : StockIncoming(i, quantity)

Spec == Init /\ [][Next]_vars

(* The event loop runs ready handlers, PostgreSQL grants free rows and     *)
(* breaks wait cycles.  No client has to send anything.                    *)
FairSpec ==
    /\ Spec
    /\ \A t \in Tasks : WF_vars(HandlerStep(t)) /\ WF_vars(DeadlockVictim(t))

-----------------------------------------------------------------------------
(* Properties                                                              *)

TypeOK ==
    /\ stock \in [Ingredients -> Int]
    /\ placed \in [Requests -> 0..MaxSends]
    /\ keys \subseteq Requests
    /\ moved \in [Ingredients -> Nat]
    /\ task \in [Tasks -> [pc: Steps, req: Requests \cup {NoRequest}, line: Nat \ {0}]]
    /\ \A t \in Tasks :
          task[t].pc \in {"check", "take"} => task[t].line <= Len(Lines[task[t].req])
    /\ sent \in [Requests -> 0..MaxSends]
    /\ replies \in [Requests -> SUBSET Replies]
    /\ restocks \in 0..MaxRestocks
    /\ failures \in 0..MaxFailures

\* The stock is what was there and what came in less what the committed
\* orders need: no update is lost, no rejected or failed order keeps a part
\* of what it had reserved.
StockConserved ==
    \A i \in Ingredients :
        stock[i] = Stock0[i] + moved[i]
                   - SumFunction([r \in Requests |-> placed[r] * Need(r, i)])

\* The largest amount one order takes from an ingredient.
MaxNeed(i) == Max({0} \cup {Need(r, i) : r \in Requests})

\* The stock check and the decrement are two statements, so concurrent
\* orders can oversell; by how much is bounded by the number of connections.
OversellBounded ==
    \A i \in Ingredients : stock[i] >= -((Cardinality(Tasks) - 1) * MaxNeed(i))

\* Nothing is sold that is not in stock.
NoOversell == \A i \in Ingredients : stock[i] >= 0

Handling == {t \in Tasks : task[t].pc # "idle"}

\* As long as orders come one at a time the check of create_order is enough:
\* it sees what earlier lines of the same order have taken.
NoOversellIfSerial == [](Cardinality(Handling) <= 1) => []NoOversell

\* A request sent again with its Idempotency-Key makes no second order.
OneOrderPerKey == \A r \in Requests : placed[r] <= 1

\* A client whose points may be used is not answered with a server error.
PointsCanBeSpent ==
    \A r \in Requests : MayUse(r) => "500" \notin replies[r]

\* Orders that lock the same ingredients in different orders deadlock in the
\* database, and still every request ends: no handler waits forever.
HandlersFinish == \A t \in Tasks : (task[t].pc # "idle") ~> (task[t].pc = "idle")
=============================================================================
