----------------------------- MODULE GuestProofs -----------------------------
(***************************************************************************)
(* Proofs about the two services a guest calls.                            *)
(*                                                                         *)
(* Recommender: type correctness, that the two attributes of the circuit   *)
(* breaker agree in every interleaving, how many requests may still be     *)
(* sent past an open circuit, and that every call is answered.             *)
(*                                                                         *)
(* Reservations: type correctness, how far a table can be overbooked, and  *)
(* that requests which come one at a time book no table twice.             *)
(***************************************************************************)
EXTENDS Recommender, Reservations, FiniteSetTheorems, TLAPS

-----------------------------------------------------------------------------
(* Recommender.  That the state of the circuit and its count agree needs   *)
(* no strengthening: record_success and record_failure establish it, and   *)
(* can_execute preserves it because it leaves only "open".                 *)

Circuits == [state: States, failures: Nat, cooled: BOOLEAN]
Calls == [pc: Steps, query: Queries \cup {NoQuery},
          stage: {"embed", "generate"}, attempt: 1..Attempts]

\* What CircuitCounts says of one circuit.
Agrees(c) == c.state = "closed" <=> c.failures < failure_threshold

\* record_success closes the circuit and forgets the failures.
LEMMA SuccessAgrees ==
  ASSUME NEW c \in Circuits
  PROVE  RecordSuccess(c) \in Circuits /\ Agrees(RecordSuccess(c))
<1> DEFINE d == RecordSuccess(c)
<1>1. d = [state |-> "closed", failures |-> 0, cooled |-> c.cooled]
  BY DEF RecordSuccess, Circuits
<1>2. d \in Circuits
  BY <1>1 DEF Circuits, States
<1>3. d.state = "closed" /\ d.failures = 0
  BY <1>1
<1>4. 0 < failure_threshold
  BY RecommenderAssumption
<1> QED
  BY <1>2, <1>3, <1>4 DEF Agrees

\* record_failure opens it with the failure that reaches the threshold.
LEMMA FailureAgrees ==
  ASSUME NEW c \in Circuits
  PROVE  /\ RecordFailure(c) \in Circuits
         /\ Agrees(c) => Agrees(RecordFailure(c))
<1> DEFINE n == c.failures + 1
           opens == n >= failure_threshold
           d == RecordFailure(c)
<1>1. n \in Nat /\ c.failures \in Nat /\ failure_threshold \in Nat
  BY RecommenderAssumption DEF Circuits
<1>2. CASE opens
  <2>1. d = [state |-> "open", failures |-> n, cooled |-> FALSE]
    BY <1>2 DEF RecordFailure, Circuits
  <2>2. d \in Circuits
    BY <1>1, <2>1 DEF Circuits, States
  <2>3. d.state = "open" /\ d.failures = n
    BY <2>1
  <2> QED
    BY <1>1, <1>2, <2>2, <2>3 DEF Agrees
<1>3. CASE ~opens
  <2>1. d = [state |-> c.state, failures |-> n, cooled |-> FALSE]
    BY <1>3 DEF RecordFailure, Circuits
  <2>2. d \in Circuits
    BY <1>1, <2>1 DEF Circuits
  <2>3. d.state = c.state /\ d.failures = n
    BY <2>1
  <2> QED
    BY <1>1, <1>3, <2>2, <2>3 DEF Agrees
<1> QED
  BY <1>2, <1>3

\* can_execute moves an open circuit to half-open, with its failures.
LEMMA CheckedAgrees ==
  ASSUME NEW c \in Circuits, Agrees(c)
  PROVE  Checked(c) \in Circuits /\ Agrees(Checked(c))
BY RecommenderAssumption DEF Checked, Circuits, States, Agrees

\* How any step can change the circuit.
CircuitStep ==
    \/ circuit' = circuit
    \/ circuit' = RecordSuccess(circuit)
    \/ circuit' = RecordFailure(circuit)
    \/ circuit' = Checked(circuit)
    \/ circuit' = [circuit EXCEPT !.cooled = TRUE]

LEMMA StepOfCircuit == ASSUME [Next]_vars PROVE CircuitStep
<1>1. CASE UNCHANGED vars
  BY <1>1 DEF vars, CircuitStep
<1>2. ASSUME NEW t \in Tasks, CallStep(t) PROVE CircuitStep
  BY <1>2
     DEF CallStep, RedisStep, TimedStep, ReadCache, GetIamToken, Post, Backoff,
         KeepEmbedding, Search, FormatRecommendation, Call, CircuitStep
<1>3. CASE Next /\ ~(\E t \in Tasks : CallStep(t))
  BY <1>3
     DEF Next, Recommend, Fail, Broken, AddUndescribedDish, RecoveryTimeout,
         TokenExpires, CacheExpires, CircuitStep
<1> QED
  BY <1>1, <1>2, <1>3

\* Every such step keeps the circuit well formed and in agreement.
LEMMA CircuitKept ==
  ASSUME circuit \in Circuits, CircuitStep
  PROVE  circuit' \in Circuits /\ (Agrees(circuit) => Agrees(circuit)')
<1>1. CASE circuit' = RecordSuccess(circuit)
  BY <1>1, SuccessAgrees DEF Agrees
<1>2. CASE circuit' = RecordFailure(circuit)
  BY <1>2, FailureAgrees DEF Agrees
<1>3. CASE circuit' = Checked(circuit)
  <2>1. circuit' \in Circuits
    BY <1>3 DEF Checked, Circuits, States
  <2> QED
    BY <1>3, <2>1, CheckedAgrees DEF Agrees
<1>4. CASE circuit' = [circuit EXCEPT !.cooled = TRUE]
  BY <1>4 DEF Circuits, Agrees
<1>5. CASE circuit' = circuit
  BY <1>5 DEF Agrees
<1> QED
  BY <1>1, <1>2, <1>3, <1>4, <1>5 DEF CircuitStep

\* A call under way is about a query.
HasQuery == \A t \in Tasks : task[t].pc # "idle" => task[t].query \in Queries

\* A call keeps its local state well formed.
LEMMA TaskKept ==
  ASSUME TypeOK, NEW t \in Tasks, CallStep(t)
  PROVE  task' \in [Tasks -> Calls]
<1> USE RecommenderAssumption
        DEF TypeOK, Calls, Steps, Go, Answer, Broken, Unavailable, Undescribed,
            Idle
<1>1. CASE ReadCache(t)
  BY <1>1 DEF ReadCache, Call
<1>2. CASE GetIamToken(t)
  BY <1>2 DEF GetIamToken
<1>3. CASE Post(t)
  BY <1>3 DEF Post
<1>4. CASE Backoff(t)
  <2>1. CASE /\ task[t].attempt < Attempts
             /\ task' = [task EXCEPT ![t].pc = "post", ![t].attempt = @ + 1]
    BY <2>1
  <2>2. CASE Unavailable(t)
    BY <2>2
  <2> QED
    BY <1>4, <2>1, <2>2 DEF Backoff
<1>5. CASE KeepEmbedding(t)
  BY <1>5 DEF KeepEmbedding
<1>6. CASE Search(t)
  BY <1>6 DEF Search, Call
<1>7. CASE FormatRecommendation(t)
  BY <1>7 DEF FormatRecommendation
<1> QED
  BY <1>1, <1>2, <1>3, <1>4, <1>5, <1>6, <1>7 DEF CallStep, RedisStep, TimedStep

\* What else a call may change.
LEMMA RestKept ==
  ASSUME TypeOK, HasQuery, NEW t \in Tasks, CallStep(t)
  PROVE  /\ token' \in BOOLEAN
         /\ cached' \subseteq Queries
         /\ answers' \subseteq {"yandexgpt", "fallback", "500"}
         /\ described' \in BOOLEAN
         /\ late' \in Nat
         /\ failures' \in 0..MaxFailures
         /\ UNCHANGED requests
<1> USE RecommenderAssumption
        DEF TypeOK, Go, Answer, Broken, Unavailable, Undescribed
<1>1. CASE ReadCache(t)
  BY <1>1 DEF ReadCache, Call
<1>2. CASE GetIamToken(t)
  <2>1. CASE Broken(t) /\ UNCHANGED token
    BY <1>2, <2>1 DEF GetIamToken
  <2>2. CASE ~Broken(t)
    BY <1>2, <2>2 DEF GetIamToken
  <2> QED
    BY <1>2, <2>1, <2>2 DEF GetIamToken
<1>3. CASE Post(t)
  BY <1>3 DEF Post
<1>4. CASE Backoff(t)
  BY <1>4 DEF Backoff
<1>5. CASE KeepEmbedding(t)
  <2>1. task[t].query \in Queries
    BY <1>5 DEF KeepEmbedding, HasQuery
  <2> QED
    BY <1>5, <2>1 DEF KeepEmbedding
<1>6. CASE Search(t)
  BY <1>6 DEF Search, Call
<1>7. CASE FormatRecommendation(t)
  BY <1>7 DEF FormatRecommendation
<1> QED
  BY <1>1, <1>2, <1>3, <1>4, <1>5, <1>6, <1>7 DEF CallStep, RedisStep, TimedStep

\* A query is never forgotten before the call has ended.
LEMMA QueryKept ==
  ASSUME TypeOK, HasQuery, NEW t \in Tasks, CallStep(t)
  PROVE  HasQuery'
<1>1. \A u \in Tasks \ {t} : task'[u] = task[u]
  BY DEF TypeOK, CallStep, RedisStep, TimedStep, ReadCache, GetIamToken, Post,
         Backoff, KeepEmbedding, Search, FormatRecommendation, Call, Go, Answer,
         Broken, Unavailable, Undescribed
<1>2. task'[t].pc = "idle" \/ task'[t].query = task[t].query
  BY DEF TypeOK, CallStep, RedisStep, TimedStep, ReadCache, GetIamToken, Post,
         Backoff, KeepEmbedding, Search, FormatRecommendation, Call, Go, Answer,
         Broken, Unavailable, Undescribed, Idle
<1>3. task[t].pc # "idle"
  BY DEF CallStep, RedisStep, TimedStep, ReadCache, GetIamToken, Post, Backoff,
         KeepEmbedding, Search, FormatRecommendation
<1> QED
  BY <1>1, <1>2, <1>3 DEF HasQuery

-----------------------------------------------------------------------------
IInv == TypeOK /\ HasQuery /\ CircuitCounts

LEMMA InitIInv == Init => IInv
<1> SUFFICES ASSUME Init PROVE IInv
  OBVIOUS
<1> USE RecommenderAssumption DEF Init, Idle
<1>1. CircuitCounts
  BY DEF CircuitCounts
<1>2. HasQuery
  BY DEF HasQuery
<1>3. circuit \in [state: States, failures: Nat, cooled: BOOLEAN]
  BY DEF States
<1>4. task \in [Tasks -> [pc: Steps, query: Queries \cup {NoQuery},
                         stage: {"embed", "generate"}, attempt: 1..Attempts]]
  BY DEF Steps
<1>5. requests \in 0..MaxRequests /\ failures \in 0..MaxFailures /\ late \in Nat
  BY DEF Init
<1> QED
  BY <1>1, <1>2, <1>3, <1>4, <1>5 DEF IInv, TypeOK

LEMMA NextIInv == IInv /\ [Next]_vars => IInv'
<1> SUFFICES ASSUME IInv, [Next]_vars PROVE IInv'
  OBVIOUS
<1>1. circuit \in Circuits /\ Agrees(circuit)
  BY DEF IInv, TypeOK, Circuits, CircuitCounts, Agrees
<1>2. circuit' \in Circuits /\ CircuitCounts'
  BY <1>1, StepOfCircuit, CircuitKept DEF Agrees, CircuitCounts
<1>3. ASSUME NEW t \in Tasks, CallStep(t) PROVE IInv'
  <2>1. HasQuery'
    BY <1>3, QueryKept DEF IInv
  <2>2. TypeOK'
    BY <1>2, <1>3, TaskKept, RestKept DEF IInv, TypeOK, Calls, Circuits
  <2> QED
    BY <1>2, <2>1, <2>2 DEF IInv
<1>4. ASSUME NEW t \in Tasks, NEW q \in Queries, Recommend(t, q) PROVE IInv'
  <2> DEFINE call == [pc |-> "cache", query |-> q, stage |-> "embed", attempt |-> 1]
  <2>1. call \in Calls /\ call.query = q
    BY <1>4, RecommenderAssumption DEF Calls, Steps
  <2>2. task \in [Tasks -> Calls] /\ task' = [task EXCEPT ![t] = call]
    BY <1>4 DEF IInv, TypeOK, Calls, Recommend
  <2>3. task' \in [Tasks -> Calls]
    BY <2>1, <2>2
  <2>4. \A u \in Tasks : task'[u] = IF u = t THEN call ELSE task[u]
    BY <2>2
  <2>5. HasQuery'
    BY <1>4, <2>1, <2>4 DEF IInv, HasQuery
  <2>6. task' \in [Tasks -> Calls] /\ HasQuery'
    BY <2>3, <2>5
  <2>7. requests' \in 0..MaxRequests
    BY <1>4, RecommenderAssumption DEF IInv, TypeOK, Recommend
  <2> QED
    BY <1>2, <1>4, <2>6, <2>7 DEF IInv, TypeOK, Calls, Circuits, Recommend
<1>5. ASSUME NEW t \in Tasks, Fail(t) PROVE IInv'
  <2>1. /\ task' \in [Tasks -> Calls]
        /\ HasQuery'
    BY <1>5, RecommenderAssumption
       DEF IInv, TypeOK, HasQuery, Calls, Fail, Broken, Answer, Idle, Steps
  <2>2. failures' \in 0..MaxFailures /\ answers' \subseteq {"yandexgpt", "fallback", "500"}
    BY <1>5, RecommenderAssumption DEF IInv, TypeOK, Fail, Broken, Answer
  <2> QED
    BY <1>2, <1>5, <2>1, <2>2 DEF IInv, TypeOK, Calls, Circuits, Fail, Broken
<1>6. CASE \/ AddUndescribedDish
           \/ RecoveryTimeout
           \/ TokenExpires
           \/ \E q \in Queries : CacheExpires(q)
           \/ UNCHANGED vars
  <2>1. /\ UNCHANGED <<task, answers, late, requests, failures>>
        /\ token' \in BOOLEAN
        /\ described' \in BOOLEAN
        /\ cached' \subseteq Queries
    BY <1>6
       DEF IInv, TypeOK, AddUndescribedDish, RecoveryTimeout, TokenExpires,
       CacheExpires, vars
  <2> QED
    BY <1>2, <2>1 DEF IInv, TypeOK, HasQuery, Circuits
<1> QED
  BY <1>3, <1>4, <1>5, <1>6 DEF Next

\* Every variable stays within its type.
THEOREM TypeCorrect == Spec => []TypeOK
<1>1. IInv => TypeOK
  BY DEF IInv
<1> QED
  BY InitIInv, NextIInv, <1>1, PTL DEF Spec

\* Whatever calls overlap and in whatever order they end, the state of the
\* circuit agrees with its count of failures.
THEOREM CircuitConsistent == Spec => []CircuitCounts
<1>1. IInv => CircuitCounts
  BY DEF IInv
<1> QED
  BY InitIInv, NextIInv, <1>1, PTL DEF Spec

-----------------------------------------------------------------------------
(* While the circuit is open, a request that a call may still send is a    *)
(* ticket of that call.  Every request uses one up, and only a call that   *)
(* passes the circuit gets new ones.                                       *)

May(call, n) ==
  \/ call.pc \in {"token", "post"} /\ n >= call.attempt
  \/ call.pc = "backoff" /\ n > call.attempt

AllTickets == Tasks \X (1..Attempts)

Tickets == {x \in AllTickets : May(task[x[1]], x[2])}

TicketsOfOthers(t) == (Tasks \ {t}) \X (1..Attempts)

Budget ==
  /\ circuit.state # "open" => late = 0
  /\ circuit.state = "open" =>
       late + Cardinality(Tickets) <= (Cardinality(Tasks) - 1) * Attempts

LEMMA TicketsSize ==
  /\ IsFiniteSet(Tickets) /\ Cardinality(Tickets) \in Nat
  /\ IsFiniteSet(Tickets') /\ Cardinality(Tickets') \in Nat
<1>1. IsFiniteSet(AllTickets)
  <2>1. IsFiniteSet(Tasks) /\ IsFiniteSet(1..Attempts)
    BY RecommenderAssumption, FS_Interval
  <2> QED
    BY <2>1, FS_Product DEF AllTickets
<1> QED
  BY <1>1, FS_Subset, FS_CardinalityType DEF Tickets

LEMMA OthersSize ==
  ASSUME NEW t \in Tasks
  PROVE  /\ IsFiniteSet(TicketsOfOthers(t))
         /\ Cardinality(TicketsOfOthers(t)) = (Cardinality(Tasks) - 1) * Attempts
<1>1. /\ IsFiniteSet(Tasks \ {t}) /\ Cardinality(Tasks \ {t}) = Cardinality(Tasks) - 1
  BY RecommenderAssumption, FS_RemoveElement
<1>2. IsFiniteSet(1..Attempts) /\ Cardinality(1..Attempts) = Attempts
  BY RecommenderAssumption, FS_Interval
<1>3. /\ IsFiniteSet(TicketsOfOthers(t))
      /\ Cardinality(TicketsOfOthers(t)) = Cardinality(Tasks \ {t}) * Cardinality(1..Attempts)
  BY <1>1, <1>2, FS_Product, Zenon DEF TicketsOfOthers
<1> QED
  BY <1>1, <1>2, <1>3

LEMMA BoundType == (Cardinality(Tasks) - 1) * Attempts \in Nat
<1>1. Cardinality(Tasks) \in Nat /\ Cardinality(Tasks) # 0
  BY RecommenderAssumption, FS_CardinalityType, FS_EmptySet
<1>2. Cardinality(Tasks) - 1 \in Nat /\ Attempts \in Nat
  BY <1>1, RecommenderAssumption
<1> QED
  BY <1>2

\* Only task t moves; what it may send decides.
LEMMA TicketsMove ==
  ASSUME NEW t \in Tasks, \A u \in Tasks \ {t} : task'[u] = task[u]
  PROVE  /\ (\A n \in 1..Attempts : May(task'[t], n) => May(task[t], n))
               => Tickets' \subseteq Tickets
         /\ (\A n \in 1..Attempts : ~May(task'[t], n))
               => Tickets' \subseteq TicketsOfOthers(t)
BY DEF Tickets, AllTickets, TicketsOfOthers

\* What a step of a call does to the budget.
Spends(t) ==
  \/ circuit'.state # "open" /\ late' = 0
  \/ circuit.state = "open" /\ late' = late /\ Tickets' \subseteq Tickets
  \/ circuit.state = "open" /\ late' \in {late, late + 1}
        /\ \E x \in Tickets : Tickets' \subseteq Tickets \ {x}
  \/ late' = 0 /\ Tickets' \subseteq TicketsOfOthers(t)

LEMMA CallSpends ==
  ASSUME TypeOK, Budget, CircuitCounts, NEW t \in Tasks, CallStep(t) \/ Fail(t)
  PROVE  Spends(t)
<1>1. /\ task \in [Tasks -> Calls] /\ circuit \in Circuits /\ late \in Nat
      /\ circuit.state # "open" => late = 0
  BY DEF TypeOK, Calls, Circuits, Budget
<1>2. \A u \in Tasks \ {t} : task'[u] = task[u]
  BY <1>1
     DEF CallStep, RedisStep, TimedStep, ReadCache, GetIamToken, Post, Backoff,
         KeepEmbedding, Search, FormatRecommendation, Fail, Call, Go, Answer,
         Broken, Unavailable, Undescribed
\* The call has nothing to send any more, or what it had before.
<1>3. ASSUME UNCHANGED <<circuit, late>>,
             \A n \in 1..Attempts : May(task'[t], n) => May(task[t], n)
      PROVE  Spends(t)
  BY <1>1, <1>2, <1>3, TicketsMove DEF Spends
<1>4. ASSUME task'[t].pc \notin {"token", "post", "backoff"}
      PROVE  /\ \A n \in 1..Attempts : ~May(task'[t], n)
             /\ UNCHANGED <<circuit, late>> => Spends(t)
  BY <1>3, <1>4 DEF May
<1>5. ASSUME NEW stage, Call(t, stage)
      PROVE  Spends(t)
  <2>1. CASE CanExecute(circuit) /\ circuit' = Checked(circuit)
    <3>1. circuit'.state # "open"
      BY <1>1, <2>1 DEF Checked, Circuits
    <3> QED
      BY <1>1, <1>5, <3>1
         DEF Call, Checked, Circuits, Spends, CanExecute, Unavailable,
             Undescribed
  <2>2. CASE Unavailable(t) /\ UNCHANGED <<circuit, late>>
    <3>1. task'[t].pc \in {"fallback", "idle"}
      BY <1>1, <2>2 DEF Unavailable, Answer, Idle, Go, Calls
    <3> QED
      BY <1>4, <2>2, <3>1
  <2> QED
    BY <1>5, <2>1, <2>2 DEF Call
<1>6. CASE ReadCache(t)
  <2>1. CASE Go(t, "search") /\ UNCHANGED <<circuit, answers, late>>
    <3>1. task'[t].pc = "search"
      BY <1>1, <2>1 DEF Go, Calls
    <3> QED
      BY <1>4, <2>1, <3>1
  <2> QED
    BY <1>5, <1>6, <2>1 DEF ReadCache
<1>7. CASE GetIamToken(t)
  <2>1. UNCHANGED <<circuit, late>> /\ task[t].pc = "token"
    BY <1>7 DEF GetIamToken
  <2>2. CASE Go(t, "post")
    <3>1. task'[t].pc = "post" /\ task'[t].attempt = task[t].attempt
      BY <1>1, <2>2 DEF Go, Calls
    <3> QED
      BY <1>3, <2>1, <3>1 DEF May
  <2>3. CASE Unavailable(t) \/ Broken(t)
    <3>1. task'[t].pc \in {"fallback", "idle"}
      BY <1>1, <2>3
         DEF Unavailable, Undescribed, Broken, Answer, Idle, Go, Calls
    <3> QED
      BY <1>4, <2>1, <3>1
  <2> QED
    BY <1>7, <2>2, <2>3 DEF GetIamToken
\* A request is sent: its ticket is used up.
<1>8. CASE Post(t)
  <2> DEFINE n == task[t].attempt
  <2>1. /\ task[t].pc = "post" /\ n \in 1..Attempts
        /\ circuit.state # "open" \/ circuit'.state # "open" => late' = 0
        /\ circuit.state = "open" /\ circuit'.state = "open" => late' \in {late, late + 1}
    BY <1>1, <1>8 DEF Post, Calls
  <2>2. <<t, n>> \in Tickets
    BY <1>1, <2>1 DEF Tickets, AllTickets, May, Calls
  <2>3. ~May(task'[t], n) /\ \A m \in 1..Attempts : May(task'[t], m) => May(task[t], m)
    <3>1. \/ task'[t].pc = "backoff" /\ task'[t].attempt = n
          \/ task'[t].pc \in {"keep", "idle"}
      BY <1>1, <1>8 DEF Post, Broken, Answer, Idle, Go, Calls
    <3> QED
      BY <2>1, <3>1 DEF May
  <2>4. Tickets' \subseteq Tickets \ {<<t, n>>}
    <3>1. Tickets' \subseteq Tickets
      BY <1>2, <2>3, TicketsMove
    <3>2. <<t, n>> \notin Tickets'
      BY <2>3 DEF Tickets
    <3> QED
      BY <3>1, <3>2
  <2>5. CASE circuit.state = "open" \/ circuit'.state # "open"
    BY <2>1, <2>2, <2>4, <2>5 DEF Spends
  <2>6. CASE circuit.state # "open" /\ circuit'.state = "open"
    <3>1. Broken(t)
      BY <1>1, <1>8, <2>6 DEF Post, RecordSuccess
    <3>2. task'[t].pc = "idle"
      BY <1>1, <3>1 DEF Broken, Answer, Idle
    <3>3. Tickets' \subseteq TicketsOfOthers(t)
      BY <1>2, <1>4, <3>2, TicketsMove
    <3> QED
      BY <2>1, <2>6, <3>3 DEF Spends
  <2> QED
    BY <2>5, <2>6
<1>9. CASE Backoff(t)
  <2>1. CASE /\ task' = [task EXCEPT ![t].pc = "post", ![t].attempt = @ + 1]
             /\ UNCHANGED <<circuit, answers>>
    <3>1. /\ task'[t].pc = "post" /\ task'[t].attempt = task[t].attempt + 1
          /\ task[t].pc = "backoff" /\ task[t].attempt \in Nat /\ late' = late
      BY <1>1, <1>9, <2>1, RecommenderAssumption DEF Backoff, Calls
    <3>2. \A n \in 1..Attempts : May(task'[t], n) => May(task[t], n)
      BY <3>1 DEF May
    <3> QED
      BY <1>3, <2>1, <3>1, <3>2
  <2>2. CASE circuit' = RecordFailure(circuit) /\ Unavailable(t)
    <3>1. task'[t].pc \in {"fallback", "idle"} /\ late' = late
      BY <1>1, <1>9, <2>2 DEF Backoff, Unavailable, Answer, Idle, Go, Calls
    <3>2. Tickets' \subseteq Tickets /\ Tickets' \subseteq TicketsOfOthers(t)
      BY <1>2, <1>4, <3>1, TicketsMove
    <3> QED
      BY <1>1, <3>1, <3>2 DEF Spends
  <2> QED
    BY <1>9, <2>1, <2>2 DEF Backoff
<1>10. CASE KeepEmbedding(t) \/ FormatRecommendation(t) \/ Fail(t)
  <2>1. task'[t].pc \in {"search", "idle"} /\ UNCHANGED <<circuit, late>>
    BY <1>1, <1>10
       DEF KeepEmbedding, FormatRecommendation, Undescribed, Fail, Broken,
           Answer, Idle, Go, Calls
  <2> QED
    BY <1>4, <2>1
<1>11. CASE Search(t)
  <2>1. CASE Answer(t, "500") /\ UNCHANGED <<circuit, late>>
    <3>1. task'[t].pc = "idle"
      BY <1>1, <2>1 DEF Answer, Idle
    <3> QED
      BY <1>4, <2>1, <3>1
  <2> QED
    BY <1>5, <1>11, <2>1 DEF Search, Undescribed
<1> QED
  BY <1>6, <1>7, <1>8, <1>9, <1>10, <1>11 DEF CallStep, RedisStep, TimedStep

LEMMA InitBudget == Init => Budget
BY DEF Init, Budget

\* Once the circuit is not open nothing is counted.
LEMMA LateReset ==
  ASSUME TypeOK, Budget, NEW t \in Tasks, CallStep(t) \/ Fail(t)
  PROVE  circuit'.state # "open" => late' = 0
<1>1. circuit \in Circuits /\ (circuit.state # "open" => late = 0)
  BY DEF TypeOK, Circuits, Budget
<1>2. ASSUME UNCHANGED <<circuit, late>> PROVE circuit'.state # "open" => late' = 0
  BY <1>1, <1>2
<1>3. ASSUME NEW stage, Call(t, stage) PROVE circuit'.state # "open" => late' = 0
  BY <1>2, <1>3 DEF Call
<1>4. CASE Backoff(t)
  <2>1. CASE circuit' = RecordFailure(circuit) /\ late' = late
    <3>1. circuit.state = "open" => circuit'.state = "open"
      BY <1>1, <2>1 DEF RecordFailure, Circuits
    <3> QED
      BY <1>1, <2>1, <3>1
  <2> QED
    BY <1>2, <1>4, <2>1 DEF Backoff
<1>5. CASE Post(t)
  BY <1>5 DEF Post
<1> QED
  BY <1>2, <1>3, <1>4, <1>5
     DEF CallStep, RedisStep, TimedStep, ReadCache, GetIamToken, KeepEmbedding,
         Search, FormatRecommendation, Fail

LEMMA NextBudget == IInv /\ IInv' /\ Budget /\ [Next]_vars => Budget'
<1> SUFFICES ASSUME IInv, IInv', Budget, [Next]_vars PROVE Budget'
  OBVIOUS
<1> DEFINE bound == (Cardinality(Tasks) - 1) * Attempts
           size == Cardinality(Tickets)
           next == Cardinality(Tickets')
<1>1. /\ late \in Nat /\ late' \in Nat /\ bound \in Nat /\ size \in Nat /\ next \in Nat
      /\ circuit.state # "open" => late = 0
      /\ circuit.state = "open" => late + size <= bound
  BY TicketsSize, BoundType DEF IInv, TypeOK, Budget
<1>2. SUFFICES /\ circuit'.state # "open" => late' = 0
               /\ circuit'.state = "open" => late' + next <= bound
  BY DEF Budget
<1>3. ASSUME Tickets' \subseteq Tickets PROVE next <= size
  BY <1>3, TicketsSize, FS_Subset
<1>4. ASSUME NEW t \in Tasks, CallStep(t) \/ Fail(t)
      PROVE  /\ circuit'.state # "open" => late' = 0
             /\ circuit'.state = "open" => late' + next <= bound
  <2>1. Spends(t)
    BY <1>4, CallSpends DEF IInv
  <2>2. ASSUME NEW x \in Tickets, Tickets' \subseteq Tickets \ {x}
        PROVE  next + 1 <= size
    <3>1. IsFiniteSet(Tickets \ {x}) /\ Cardinality(Tickets \ {x}) = size - 1
      BY TicketsSize, FS_RemoveElement
    <3>2. next <= size - 1
      BY <2>2, <3>1, FS_Subset
    <3> QED
      BY <1>1, <3>2
  <2>3. ASSUME Tickets' \subseteq TicketsOfOthers(t)
        PROVE  next <= bound
    BY <2>3, OthersSize, FS_Subset
  <2> HIDE DEF bound, size, next
  <2>4. circuit'.state # "open" => late' = 0
    BY <1>4, LateReset DEF IInv
  <2> QED
    <3>1. CASE circuit.state = "open" /\ late' = late /\ Tickets' \subseteq Tickets
      BY <1>1, <1>3, <2>4, <3>1
    <3>2. ASSUME circuit.state = "open", late' \in {late, late + 1},
                 NEW x \in Tickets, Tickets' \subseteq Tickets \ {x}
          PROVE  late' + next <= bound
      <4>1. next + 1 <= size
        BY <2>2, <3>2
      <4>2. late + size <= bound /\ late' <= late + 1
        BY <1>1, <3>2
      <4>3. late \in Nat /\ late' \in Nat /\ size \in Nat /\ next \in Nat /\ bound \in Nat
        BY <1>1
      <4>4. \A a, b, c, d, e \in Nat : b <= a + 1 /\ a + c <= e /\ d + 1 <= c => b + d <= e
        OBVIOUS
      <4> QED
        BY <4>1, <4>2, <4>3, <4>4
    <3>3. CASE late' = 0 /\ Tickets' \subseteq TicketsOfOthers(t)
      BY <1>1, <2>3, <2>4, <3>3
    <3> QED
      BY <2>1, <2>4, <3>1, <3>2, <3>3 DEF Spends
<1>5. ASSUME UNCHANGED late, circuit'.state = circuit.state,
             Tickets' \subseteq Tickets
      PROVE  /\ circuit'.state # "open" => late' = 0
             /\ circuit'.state = "open" => late' + next <= bound
  <2> HIDE DEF bound, size, next
  <2> QED
    BY <1>1, <1>3, <1>5
<1>6. ASSUME NEW t \in Tasks, NEW q \in Queries, Recommend(t, q)
      PROVE  UNCHANGED <<circuit, late>> /\ Tickets' \subseteq Tickets
  <2>1. task'[t].pc = "cache" /\ \A u \in Tasks \ {t} : task'[u] = task[u]
    BY <1>6 DEF IInv, TypeOK, Recommend
  <2> QED
    BY <1>6, <2>1, TicketsMove DEF Recommend, May
<1>7. CASE \/ AddUndescribedDish
           \/ RecoveryTimeout
           \/ TokenExpires
           \/ \E q \in Queries : CacheExpires(q)
           \/ UNCHANGED vars
  <2>1. /\ UNCHANGED <<task, late>> /\ circuit'.state = circuit.state
    BY <1>7
       DEF IInv, TypeOK, AddUndescribedDish, RecoveryTimeout, TokenExpires,
       CacheExpires, vars
  <2>2. Tickets' \subseteq Tickets
    BY <2>1 DEF Tickets
  <2> QED
    BY <1>5, <2>1, <2>2
<1> QED
  BY <1>4, <1>5, <1>6, <1>7 DEF Next

\* While the circuit is open it is only the other calls that send requests,
\* and no more than each of them has attempts left.
THEOREM LateCalls == Spec => []LateCallsBounded
<1>1. IInv /\ Budget => LateCallsBounded
  <2> SUFFICES ASSUME IInv, Budget PROVE LateCallsBounded
    OBVIOUS
  <2> DEFINE bound == (Cardinality(Tasks) - 1) * Attempts
  <2>1. late \in Nat /\ bound \in Nat /\ Cardinality(Tickets) \in Nat
    BY TicketsSize, BoundType DEF IInv, TypeOK
  <2>2. late = 0 \/ late + Cardinality(Tickets) <= bound
    BY DEF Budget
  <2> HIDE DEF bound
  <2>3. late <= bound
    BY <2>1, <2>2
  <2> QED
    BY <2>3 DEF LateCallsBounded, bound
<1> QED
  BY InitIInv, NextIInv, InitBudget, NextBudget, <1>1, PTL DEF Spec

-----------------------------------------------------------------------------
\* With the fallback, and once the query of the search is built without
\* raising, only an error status, a failed query or a dish without description
\* ends a call with an error, never an answer that does not come in time.
THEOREM GuestAnswered ==
  ASSUME ~SearchRaises
  PROVE  Spec => []GuestIsAnswered
<1>1. Init => GuestIsAnswered
  BY DEF Init, GuestIsAnswered
<1>2. TypeOK /\ GuestIsAnswered /\ [Next]_vars => GuestIsAnswered'
  <2> SUFFICES ASSUME TypeOK, GuestIsAnswered, [Next]_vars,
                      FallbackEnabled, described', failures' = 0
               PROVE  "500" \notin answers'
    BY DEF GuestIsAnswered
  <2>1. failures \in Nat /\ described \in BOOLEAN
    BY RecommenderAssumption DEF TypeOK
  <2>2. ASSUME NEW t \in Tasks, Broken(t)
        PROVE  FALSE
    BY <2>1, <2>2 DEF Broken
  <2>3. ASSUME NEW t \in Tasks, CallStep(t)
        PROVE  "500" \notin answers'
    <3>1. described' = described
      BY <2>3
         DEF CallStep, RedisStep, TimedStep, ReadCache, GetIamToken, Post,
         Backoff, KeepEmbedding, Search, FormatRecommendation
    <3>2. ~Undescribed(t)
      BY <3>1 DEF Undescribed
    <3>3. CASE RedisStep(t)
      BY <2>3, <3>1, <3>3
         DEF GuestIsAnswered, RedisStep, ReadCache, KeepEmbedding, Call,
             Unavailable
    <3>4. CASE TimedStep(t)
      <4>1. ~Broken(t) /\ (failures' = failures => "500" \notin answers)
        BY <2>2, <3>1 DEF GuestIsAnswered
      <4>2. CASE GetIamToken(t)
        BY <4>1, <4>2 DEF GetIamToken, Unavailable
      <4>3. CASE Post(t)
        BY <4>1, <4>3 DEF Post, Answer
      <4>4. CASE Backoff(t)
        BY <4>1, <4>4 DEF Backoff, Unavailable
      <4>5. CASE Search(t)
        BY <3>2, <4>1, <4>5 DEF Search, Call, Unavailable
      <4>6. CASE FormatRecommendation(t)
        BY <3>2, <4>1, <4>6 DEF FormatRecommendation, Answer
      <4> QED
        BY <3>4, <4>2, <4>3, <4>4, <4>5, <4>6 DEF TimedStep
    <3> QED
      BY <2>3, <3>3, <3>4 DEF CallStep
  <2>4. CASE \E t \in Tasks : Fail(t)
    BY <2>2, <2>4 DEF Fail
  <2>5. CASE \/ \E t \in Tasks, q \in Queries : Recommend(t, q)
             \/ RecoveryTimeout
             \/ TokenExpires
             \/ \E q \in Queries : CacheExpires(q)
             \/ UNCHANGED vars
    BY <2>5
       DEF GuestIsAnswered, Recommend, RecoveryTimeout, TokenExpires,
       CacheExpires, vars
  <2>6. ~AddUndescribedDish
    BY DEF AddUndescribedDish
  <2> QED
    BY <2>3, <2>4, <2>5, <2>6 DEF Next
<1> QED
  BY <1>1, <1>2, TypeCorrect, PTL DEF Spec
-----------------------------------------------------------------------------
(* Reservations.  The bound counts, at one moment of one table, the rows   *)
(* and the handlers that are past the check: a handler gets past it only   *)
(* while there is no row, so from the first row on the sum does not grow.  *)

SeatsBounded(table, x) ==
    Cardinality(BookedAt(table, x)) + Cardinality(PendingAt(table, x))
        <= Cardinality(Handlers)

\* No booking is in the hands of two handlers.
OneHandler ==
    \A t, u \in Handlers :
        t # u /\ handler[t].pc # "idle" /\ handler[u].pc # "idle"
            => handler[u].booking # handler[t].booking

BookingInv ==
    /\ BookingTypeOK
    /\ OneHandler
    /\ \A b \in Bookings : SeatsBounded(TableOf[b], StartOf[b])

-----------------------------------------------------------------------------
\* The sets that are counted are finite.
LEMMA Finite ==
  ASSUME BookingTypeOK, NEW table, NEW x
  PROVE  /\ IsFiniteSet(BookedAt(table, x))
         /\ IsFiniteSet(PendingAt(table, x))
         /\ Cardinality(BookedAt(table, x)) \in Nat
         /\ Cardinality(PendingAt(table, x)) \in Nat
         /\ Cardinality(Handlers) \in Nat
         /\ Cardinality(PendingAt(table, x)) <= Cardinality(Handlers)
<1>1. IsFiniteSet(BookedAt(table, x))
  BY ReservationsAssumption, FS_Subset DEF BookingTypeOK, BookedAt
<1>2. /\ IsFiniteSet(PendingAt(table, x))
      /\ Cardinality(PendingAt(table, x)) <= Cardinality(Handlers)
  BY ReservationsAssumption, FS_Subset DEF PendingAt
<1> QED
  BY <1>1, <1>2, FS_CardinalityType, ReservationsAssumption

\* A step of the handlers keeps the types: nothing is refused and booked.
LEMMA TypeStep == BookingTypeOK /\ OneHandler /\ [BookingNext]_bookingVars => BookingTypeOK' /\ OneHandler'
<1> SUFFICES ASSUME BookingTypeOK, OneHandler, [BookingNext]_bookingVars
             PROVE  BookingTypeOK' /\ OneHandler'
  OBVIOUS
<1> USE ReservationsAssumption DEF BookingTypeOK, OneHandler, TaskState,
                                   IdleHandler
<1>1. ASSUME NEW t \in Handlers, NEW b \in Bookings, Request(t, b)
      PROVE  BookingTypeOK' /\ OneHandler'
  BY <1>1 DEF Request
<1>2. ASSUME NEW t \in Handlers, Refuse(t) PROVE BookingTypeOK' /\ OneHandler'
  BY <1>2 DEF Refuse
<1>3. ASSUME NEW t \in Handlers, Accept(t) PROVE BookingTypeOK' /\ OneHandler'
  BY <1>3 DEF Accept
<1>4. ASSUME NEW t \in Handlers, Insert(t) PROVE BookingTypeOK' /\ OneHandler'
  BY <1>4 DEF Insert
<1>5. ASSUME NEW t \in Handlers, FailBooking(t) PROVE BookingTypeOK' /\ OneHandler'
  BY <1>5 DEF FailBooking
<1>6. CASE UNCHANGED bookingVars
  BY <1>6 DEF bookingVars
<1> QED
  BY <1>1, <1>2, <1>3, <1>4, <1>5, <1>6 DEF BookingNext

\* A step that books nothing and sends nobody past the check.
LEMMA QuietStep ==
  ASSUME BookingTypeOK, NEW table, NEW x, SeatsBounded(table, x),
         rows' = rows, BookingTypeOK',
         PendingAt(table, x)' \subseteq PendingAt(table, x)
  PROVE  SeatsBounded(table, x)'
<1>1. BookedAt(table, x)' = BookedAt(table, x)
  BY DEF BookedAt
<1>2. Cardinality(PendingAt(table, x)') <= Cardinality(PendingAt(table, x))
  BY Finite, FS_Subset
<1>3. /\ Cardinality(PendingAt(table, x)') \in Nat
      /\ IsFiniteSet(PendingAt(table, x)')
  BY Finite, FS_Subset, FS_CardinalityType
<1> QED
  BY <1>1, <1>2, <1>3, Finite DEF SeatsBounded

\* The SELECT sees a row that covers the start of the booking it is for ...
LEMMA SelectSees ==
  ASSUME BookingTypeOK, NEW t \in Handlers, handler[t].pc = "check", ~Conflict(t),
         NEW b \in Bookings, Covers(handler[t].booking, TableOf[b], StartOf[b])
  PROVE  BookedAt(TableOf[b], StartOf[b]) = {}
<1>1. handler[t].booking \in Bookings /\ rows \subseteq Bookings
  BY DEF BookingTypeOK
<1> SUFFICES ASSUME NEW a \in rows, Covers(a, TableOf[b], StartOf[b])
             PROVE  Overlaps(a, handler[t].booking)
  BY DEF BookedAt, Conflict
<1> QED
  BY <1>1, ReservationsAssumption DEF Covers, Overlaps

\* ... so a handler passes the check only where nothing is booked.
LEMMA AcceptStep ==
  ASSUME BookingTypeOK, BookingTypeOK', NEW t \in Handlers, Accept(t),
         NEW b \in Bookings, SeatsBounded(TableOf[b], StartOf[b])
  PROVE  SeatsBounded(TableOf[b], StartOf[b])'
<1> DEFINE table == TableOf[b]
           x == StartOf[b]
<1>1. rows' = rows /\ BookedAt(table, x)' = BookedAt(table, x)
  BY DEF Accept, BookedAt
<1>2. CASE Covers(handler[t].booking, table, x)
  <2>1. Cardinality(BookedAt(table, x)') = 0
    BY <1>1, <1>2, SelectSees, FS_EmptySet DEF Accept
  <2>2. /\ IsFiniteSet(PendingAt(table, x)')
        /\ Cardinality(PendingAt(table, x)') <= Cardinality(Handlers)
    BY ReservationsAssumption, FS_Subset DEF PendingAt
  <2>3. Cardinality(PendingAt(table, x)') \in Nat /\ Cardinality(Handlers) \in Nat
    BY <2>2, ReservationsAssumption, FS_CardinalityType
  <2> QED
    BY <2>1, <2>2, <2>3 DEF SeatsBounded
<1>3. CASE ~Covers(handler[t].booking, table, x)
  <2>1. PendingAt(table, x)' \subseteq PendingAt(table, x)
    BY <1>3 DEF Accept, PendingAt, BookingTypeOK, TaskState
  <2> QED
    BY <1>1, <2>1, QuietStep
<1> QED
  BY <1>2, <1>3

\* A handler that commits turns into a row.
LEMMA InsertStep ==
  ASSUME BookingTypeOK, BookingTypeOK', NEW t \in Handlers, Insert(t),
         NEW table, NEW x, SeatsBounded(table, x)
  PROVE  SeatsBounded(table, x)'
<1> DEFINE k == handler[t].booking
           B == BookedAt(table, x)
           P == PendingAt(table, x)
<1>1. CASE Covers(k, table, x)
  <2>1. BookedAt(table, x)' = B \cup {k}
    BY <1>1 DEF Insert, BookedAt
  <2>2. PendingAt(table, x)' = P \ {t} /\ t \in P
    BY <1>1 DEF Insert, PendingAt, BookingTypeOK, TaskState, IdleHandler
  <2>3. Cardinality(B \cup {k}) <= Cardinality(B) + 1
    <3>1. IsFiniteSet(B) /\ Cardinality(B) \in Nat
      BY Finite
    <3> HIDE DEF B, k
    <3>2. Cardinality(B \cup {k}) = IF k \in B THEN Cardinality(B) ELSE Cardinality(B) + 1
      BY <3>1, FS_AddElement, Zenon
    <3> QED
      BY <3>1, <3>2
  <2>4. Cardinality(P \ {t}) = Cardinality(P) - 1
    BY <2>2, Finite, FS_RemoveElement
  <2>5. Cardinality(B \cup {k}) \in Nat
    BY Finite, FS_AddElement, FS_CardinalityType
  <2> QED
    BY <2>1, <2>2, <2>3, <2>4, <2>5, Finite DEF SeatsBounded
<1>2. CASE ~Covers(k, table, x)
  <2>1. BookedAt(table, x)' = B
    BY <1>2 DEF Insert, BookedAt
  <2>2. PendingAt(table, x)' = P
    BY <1>2 DEF Insert, PendingAt, BookingTypeOK, TaskState, IdleHandler
  <2> QED
    BY <2>1, <2>2 DEF SeatsBounded
<1> QED
  BY <1>1, <1>2

LEMMA InitBookingInv == BookingInit => BookingInv
<1> SUFFICES ASSUME BookingInit PROVE BookingInv
  OBVIOUS
<1>1. BookingTypeOK /\ OneHandler
  BY ReservationsAssumption
     DEF BookingInit, BookingTypeOK, OneHandler, TaskState, IdleHandler
<1>2. ASSUME NEW b \in Bookings PROVE SeatsBounded(TableOf[b], StartOf[b])
  <2>1. BookedAt(TableOf[b], StartOf[b]) = {}
    BY DEF BookingInit, BookedAt
  <2>2. PendingAt(TableOf[b], StartOf[b]) = {}
    BY DEF BookingInit, PendingAt, IdleHandler
  <2> QED
    BY <1>1, <2>1, <2>2, FS_EmptySet, Finite DEF SeatsBounded
<1> QED
  BY <1>1, <1>2 DEF BookingInv

LEMMA NextBookingInv == BookingInv /\ [BookingNext]_bookingVars => BookingInv'
<1> SUFFICES ASSUME BookingInv, [BookingNext]_bookingVars PROVE BookingInv'
  OBVIOUS
<1>1. BookingTypeOK /\ BookingTypeOK' /\ OneHandler'
  BY TypeStep DEF BookingInv
<1> SUFFICES ASSUME NEW b \in Bookings
             PROVE  SeatsBounded(TableOf[b], StartOf[b])'
  BY <1>1 DEF BookingInv
<1> DEFINE table == TableOf[b]
           x == StartOf[b]
<1>2. SeatsBounded(table, x)
  BY DEF BookingInv
<1>3. ASSUME NEW t \in Handlers,
             \/ \E c \in Bookings : Request(t, c)
             \/ Refuse(t)
             \/ FailBooking(t)
      PROVE  SeatsBounded(table, x)'
  <2>1. rows' = rows
    BY <1>3 DEF Request, Refuse, FailBooking
  <2>2. PendingAt(table, x)' \subseteq PendingAt(table, x)
    BY <1>1, <1>3
       DEF Request, Refuse, FailBooking, PendingAt, BookingTypeOK, TaskState,
       IdleHandler
  <2> QED
    BY <1>1, <1>2, <2>1, <2>2, QuietStep
<1>4. ASSUME NEW t \in Handlers, Accept(t) PROVE SeatsBounded(table, x)'
  BY <1>1, <1>2, <1>4, AcceptStep
<1>5. ASSUME NEW t \in Handlers, Insert(t) PROVE SeatsBounded(table, x)'
  BY <1>1, <1>2, <1>5, InsertStep
<1>6. CASE UNCHANGED bookingVars
  BY <1>2, <1>6 DEF bookingVars, SeatsBounded, BookedAt, PendingAt
<1> QED
  BY <1>3, <1>4, <1>5, <1>6 DEF BookingNext

\* A reservation that was refused is never among the rows, and every handler
\* works on a booking of its own that was sent and not answered.
THEOREM BookingTypeCorrect == BookingSpec => []BookingTypeOK
<1>1. BookingInv => BookingTypeOK
  BY DEF BookingInv
<1> QED
  BY InitBookingInv, NextBookingInv, <1>1, PTL DEF BookingSpec

\* However many bookings are sent, and for whatever times, the tables are
\* overbooked by the handlers that raced and by no more.
THEOREM Overbooking == BookingSpec => []OverbookingBounded
<1>1. BookingInv => OverbookingBounded
  <2> SUFFICES ASSUME BookingInv, NEW b \in Bookings
               PROVE  Cardinality(BookedAt(TableOf[b], StartOf[b]))
                          <= Cardinality(Handlers)
    BY DEF OverbookingBounded
  <2> QED
    BY Finite DEF BookingInv, SeatsBounded
<1> QED
  BY InitBookingInv, NextBookingInv, <1>1, PTL DEF BookingSpec

-----------------------------------------------------------------------------
(* One request at a time.                                                  *)

\* What the SELECT found is still true when the INSERT comes.
StillFree ==
    \A t \in Handlers : handler[t].pc = "insert" =>
        \A a \in rows : ~Overlaps(a, handler[t].booking)

SerialInv == BookingTypeOK /\ OneHandler /\ NoDoubleBooking /\ StillFree

\* In a set of one element at most, any two are the same.
LEMMA OnlyOne ==
  ASSUME NEW S, IsFiniteSet(S), Cardinality(S) <= 1, NEW t \in S, NEW u \in S
  PROVE  t = u
<1>1. /\ IsFiniteSet(S \ {t}) /\ Cardinality(S \ {t}) \in Nat /\ Cardinality(S) \in Nat
      /\ Cardinality(S \ {t}) = Cardinality(S) - 1
  BY FS_RemoveElement, FS_CardinalityType
<1>2. Cardinality(S \ {t}) = 0
  BY <1>1
<1>3. S \ {t} = {}
  BY <1>1, <1>2, FS_EmptySet
<1> QED
  BY <1>3

\* Two reservations are in each other's way, or neither is.
LEMMA OverlapsBothWays ==
  ASSUME NEW a \in Bookings, NEW b \in Bookings
  PROVE  Overlaps(a, b) <=> Overlaps(b, a)
BY ReservationsAssumption DEF Overlaps

LEMMA SerialStep ==
  ASSUME SerialInv, Cardinality(AtWork) <= 1, [BookingNext]_bookingVars
  PROVE  SerialInv'
<1>1. BookingTypeOK /\ BookingTypeOK' /\ OneHandler'
  BY TypeStep DEF SerialInv
<1> SUFFICES NoDoubleBooking' /\ StillFree'
  BY <1>1 DEF SerialInv
<1> USE DEF SerialInv, NoDoubleBooking, StillFree
<1>2. ASSUME NEW t \in Handlers,
             (\E b \in Bookings : Request(t, b)) \/ Refuse(t) \/ FailBooking(t)
      PROVE  NoDoubleBooking' /\ StillFree'
  BY <1>1, <1>2
     DEF Request, Refuse, FailBooking, BookingTypeOK, TaskState, IdleHandler
<1>3. ASSUME NEW t \in Handlers, Accept(t)
      PROVE  NoDoubleBooking' /\ StillFree'
  BY <1>1, <1>3 DEF Accept, Conflict, BookingTypeOK, TaskState
<1>4. ASSUME NEW t \in Handlers, Insert(t)
      PROVE  NoDoubleBooking' /\ StillFree'
  <2> DEFINE k == handler[t].booking
  <2>1. /\ rows' = rows \cup {k} /\ rows \subseteq Bookings /\ k \in Bookings
        /\ \A a \in rows : ~Overlaps(a, k)
        /\ handler' = [handler EXCEPT ![t] = IdleHandler]
    BY <1>1, <1>4 DEF Insert, BookingTypeOK
  <2>2. \A a \in rows : ~Overlaps(k, a)
    BY <2>1, OverlapsBothWays
  <2>3. NoDoubleBooking'
    BY <2>1, <2>2
  <2>4. \A u \in Handlers : handler[u].pc # "idle" => u = t
    <3>1. IsFiniteSet(AtWork) /\ t \in AtWork
      BY <1>4, ReservationsAssumption, FS_Subset DEF AtWork, Insert
    <3> QED
      BY <3>1, OnlyOne DEF AtWork
  <2>5. \A u \in Handlers : handler'[u].pc # "insert"
    BY <1>1, <2>1, <2>4 DEF BookingTypeOK, IdleHandler
  <2> QED
    BY <2>3, <2>5
<1>5. CASE UNCHANGED bookingVars
  BY <1>5 DEF bookingVars, Overlaps
<1> QED
  BY <1>2, <1>3, <1>4, <1>5 DEF BookingNext

\* While requests come one at a time nothing comes between the SELECT and
\* the INSERT, and no two reservations of a table overlap, whatever their
\* times, even if the end of some precedes the start.
THEOREM SerialBookings == BookingSpec => NoDoubleBookingIfSerial
<1> DEFINE Serial == Cardinality(AtWork) <= 1
<1>1. BookingInit => SerialInv
  BY InitBookingInv
     DEF BookingInv, BookingInit, SerialInv, NoDoubleBooking, StillFree,
     IdleHandler
<1>2. SerialInv /\ Serial /\ [BookingNext]_bookingVars => SerialInv'
  BY SerialStep
<1>3. SerialInv => NoDoubleBooking
  BY DEF SerialInv
<1> HIDE DEF Serial
<1>4. BookingSpec /\ []Serial => []NoDoubleBooking
  BY <1>1, <1>2, <1>3, PTL DEF BookingSpec
<1> QED
  BY <1>4, PTL DEF NoDoubleBookingIfSerial, Serial
=============================================================================
