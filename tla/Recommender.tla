---------------------------- MODULE Recommender ----------------------------
(***************************************************************************)
(* RAGEngine.recommend of ai/rag_engine.py with the YandexGPTClient and    *)
(* the CircuitBreaker that all its calls share.  A task is one call of     *)
(* recommend, a coroutine of one process: it runs undisturbed from one     *)
(* await to the next and takes a step per await (Redis, the metadata       *)
(* service, a request to YandexGPT, the delay after it, the database).     *)
(*                                                                         *)
(* The clock is abstracted to what the code compares it with: whether the  *)
(* recovery timeout has passed since the last failure, whether the IAM     *)
(* token is still valid and whether a cached embedding still exists.       *)
(***************************************************************************)
EXTENDS Naturals, FiniteSets

CONSTANTS
    Tasks, Queries, NoQuery,
    failure_threshold,  \* CircuitBreaker.failure_threshold, 3 in the code
    Attempts,           \* requests per embed or generate, 3 in the code
    SearchRaises,       \* building the vector search raises KeyError
    FallbackEnabled,    \* settings.AI_FALLBACK_ENABLED, True by default
    MaxRequests,        \* bound: calls of recommend
    MaxFailures         \* bound: HTTP error statuses and failed queries

ASSUME RecommenderAssumption ==
    /\ NoQuery \notin Queries
    /\ IsFiniteSet(Tasks) /\ Tasks # {}
    /\ failure_threshold \in Nat \ {0}
    /\ Attempts \in Nat \ {0}
    /\ SearchRaises \in BOOLEAN
    /\ FallbackEnabled \in BOOLEAN
    /\ MaxRequests \in Nat /\ MaxFailures \in Nat

VARIABLES
    circuit,    \* the CircuitBreaker
    token,      \* a valid IAM token is held
    cached,     \* queries whose embedding is in Redis
    described,  \* every dish on the menu has a description
    task,       \* local state of each call
    answers,    \* how calls have ended: the source, or 500
    late,       \* requests sent since the circuit opened, while it is open
    requests, failures

vars == <<circuit, token, cached, described, task, answers, late, requests, failures>>

Steps == {"idle", "cache", "token", "post", "backoff", "keep", "search", "fallback"}
States == {"closed", "open", "half-open"}

Idle == [pc |-> "idle", query |-> NoQuery, stage |-> "embed", attempt |-> 1]

Init ==
    /\ circuit = [state |-> "closed", failures |-> 0, cooled |-> FALSE]
    /\ token = FALSE
    /\ cached = {}
    /\ described = TRUE
    /\ task = [t \in Tasks |-> Idle]
    /\ answers = {}
    /\ late = 0
    /\ requests = 0
    /\ failures = 0

-----------------------------------------------------------------------------
(* CircuitBreaker                                                          *)

RecordSuccessKeepsCount(c) == [c EXCEPT !.state = "closed"]         \* mutant

RecordSuccess(c) == [state |-> "closed", failures |-> 0, cooled |-> c.cooled]

\* Every failure restarts the timeout.
RecordFailure(c) ==
    [state |-> IF c.failures + 1 >= failure_threshold THEN "open" ELSE c.state,
     failures |-> c.failures + 1,
     cooled |-> FALSE]

CanExecute(c) == c.state = "open" => c.cooled

CheckedStaysOpen(c) == c                                            \* mutant

\* The circuit after can_execute has said yes.
Checked(c) == IF c.state = "open" THEN [c EXCEPT !.state = "half-open"] ELSE c

-----------------------------------------------------------------------------
Go(t, pc) == task' = [task EXCEPT ![t].pc = pc]

Answer(t, source) ==
    /\ task' = [task EXCEPT ![t] = Idle]
    /\ answers' = answers \cup {source}

UnavailableRaises(t) == Answer(t, "500")                            \* mutant

\* RuntimeError or a timeout reaches recommend: use the fallback, if there is
\* one.
Unavailable(t) ==
    \/ FallbackEnabled /\ Go(t, "fallback") /\ UNCHANGED answers
    \/ ~FallbackEnabled /\ Answer(t, "500")

\* Slicing the description of a dish that has none raises TypeError, which
\* recommend does not catch.  Not every query finds such a dish.
Undescribed(t) == ~described /\ Answer(t, "500")

\* An HTTP error status or a failed query, which recommend does not catch.
Broken(t) ==
    /\ failures < MaxFailures
    /\ failures' = failures + 1
    /\ Answer(t, "500")

\* The start of embed and of generate, up to their first await.
Call(t, stage) ==
    \/ /\ CanExecute(circuit)
       /\ circuit' = Checked(circuit)
       /\ late' = IF circuit'.state = "open" THEN late ELSE 0
       /\ task' = [task EXCEPT ![t].stage = stage, ![t].attempt = 1,
                               ![t].pc = IF token THEN "post" ELSE "token"]
       /\ UNCHANGED answers
    \/ /\ ~CanExecute(circuit)
       /\ Unavailable(t)
       /\ UNCHANGED <<circuit, late>>

Recommend(t, q) ==
    /\ task[t].pc = "idle"
    /\ requests < MaxRequests
    /\ requests' = requests + 1
    /\ task' = [task EXCEPT ![t] =
          [pc |-> "cache", query |-> q, stage |-> "embed", attempt |-> 1]]
    /\ UNCHANGED <<circuit, token, cached, described, answers, late, failures>>

\* get_cache: an error of Redis counts as a miss.
ReadCache(t) ==
    /\ task[t].pc = "cache"
    /\ \/ /\ task[t].query \in cached
          /\ Go(t, "search")
          /\ UNCHANGED <<circuit, answers, late>>
       \/ Call(t, "embed")
    /\ UNCHANGED <<token, cached, described, requests, failures>>

\* _get_iam_token from the metadata service; the circuit hears nothing of it.
GetIamToken(t) ==
    /\ task[t].pc = "token"
    /\ \/ token' = TRUE /\ Go(t, "post") /\ UNCHANGED <<answers, failures>>
       \/ Unavailable(t) /\ UNCHANGED <<token, failures>>
       \/ Broken(t) /\ UNCHANGED token
    /\ UNCHANGED <<circuit, cached, described, late, requests>>

\* One more than any bound worth stating.
LateCap == Cardinality(Tasks) * Attempts + 1

\* A request to YandexGPT and its outcome: an answer, a timeout, an error.
Post(t) ==
    /\ task[t].pc = "post"
    /\ \/ /\ circuit' = RecordSuccess(circuit)
          /\ \/ task[t].stage = "embed" /\ Go(t, "keep") /\ UNCHANGED answers
             \/ task[t].stage = "generate" /\ Answer(t, "yandexgpt")
          /\ UNCHANGED failures
       \/ /\ Go(t, "backoff")
          /\ UNCHANGED <<circuit, answers, failures>>
       \/ /\ circuit' = RecordFailure(circuit)
          /\ Broken(t)
    /\ late' = IF circuit.state # "open" \/ circuit'.state # "open" THEN 0
               ELSE IF late < LateCap THEN late + 1 ELSE late
    /\ UNCHANGED <<token, cached, described, requests>>

BackoffForever(t) ==                                                \* mutant
    /\ task[t].pc = "backoff"
    /\ Go(t, "post")
    /\ UNCHANGED <<circuit, answers, token, cached, described, late, requests, failures>>

\* The delay after a timeout (after the last one, too), then the next
\* attempt or, once for all of them, a failure.
Backoff(t) ==
    /\ task[t].pc = "backoff"
    /\ \/ /\ task[t].attempt < Attempts
          /\ task' = [task EXCEPT ![t].pc = "post", ![t].attempt = @ + 1]
          /\ UNCHANGED <<circuit, answers>>
       \/ /\ task[t].attempt = Attempts
          /\ circuit' = RecordFailure(circuit)
          /\ Unavailable(t)
    /\ UNCHANGED <<token, cached, described, late, requests, failures>>

\* set_cache, which swallows what Redis raises.
KeepEmbedding(t) ==
    /\ task[t].pc = "keep"
    /\ \/ cached' = cached \cup {task[t].query}
       \/ UNCHANGED cached
    /\ Go(t, "search")
    /\ UNCHANGED <<circuit, token, described, answers, late, requests, failures>>

\* The vector search (or the popular dishes), the context of the prompt made
\* of the dishes found, then generate.
Search(t) ==
    /\ task[t].pc = "search"
    /\ \/ SearchRaises /\ Answer(t, "500") /\ UNCHANGED <<circuit, late>>
       \/ ~SearchRaises /\ Undescribed(t) /\ UNCHANGED <<circuit, late>>
       \/ ~SearchRaises /\ Call(t, "generate")
    /\ UNCHANGED <<token, cached, described, requests, failures>>

FormatRecommendation(t) ==
    /\ task[t].pc = "fallback"
    /\ Answer(t, "fallback") \/ Undescribed(t)
    /\ UNCHANGED <<circuit, token, cached, described, late, requests, failures>>

\* The database fails a query.
Fail(t) ==
    /\ task[t].pc \in {"search", "fallback"}
    /\ Broken(t)
    /\ UNCHANGED <<circuit, token, cached, described, late, requests>>

\* create_dish, or the wizard, stores a dish without a description.
AddUndescribedDish ==
    /\ described
    /\ described' = FALSE
    /\ UNCHANGED <<circuit, token, cached, task, answers, late, requests, failures>>

-----------------------------------------------------------------------------
(* Time passes.                                                            *)

RecoveryTimeout ==
    /\ circuit.state = "open"
    /\ ~circuit.cooled
    /\ circuit' = [circuit EXCEPT !.cooled = TRUE]
    /\ UNCHANGED <<token, cached, described, task, answers, late, requests, failures>>

TokenExpires ==
    /\ token
    /\ token' = FALSE
    /\ UNCHANGED <<circuit, cached, described, task, answers, late, requests, failures>>

CacheExpires(q) ==
    /\ q \in cached
    /\ cached' = cached \ {q}
    /\ UNCHANGED <<circuit, token, described, task, answers, late, requests, failures>>

-----------------------------------------------------------------------------
\* The calls of Redis, whose client has no timeout.
RedisStep(t) == ReadCache(t) \/ KeepEmbedding(t)

\* The others: requests and queries with a timeout, and the delay.
TimedStep(t) ==
    \/ GetIamToken(t)
    \/ Post(t)
    \/ Backoff(t)
    \/ Search(t)
    \/ FormatRecommendation(t)

CallStep(t) == RedisStep(t) \/ TimedStep(t)

Next ==
    \/ \E t \in Tasks, q \in Queries : Recommend(t, q)
    \/ \E t \in Tasks : CallStep(t) \/ Fail(t)
    \/ AddUndescribedDish
    \/ RecoveryTimeout
    \/ TokenExpires
    \/ \E q \in Queries : CacheExpires(q)

Spec == Init /\ [][Next]_vars

\* Every request to YandexGPT and the metadata service and every query has a
\* timeout, so these awaits return.  Redis may leave its caller waiting.
FairSpec == Spec /\ \A t \in Tasks : WF_vars(TimedStep(t))

-----------------------------------------------------------------------------
(* Properties                                                              *)

TypeOK ==
    /\ circuit \in [state: States, failures: Nat, cooled: BOOLEAN]
    /\ token \in BOOLEAN
    /\ cached \subseteq Queries
    /\ described \in BOOLEAN
    /\ task \in [Tasks -> [pc: Steps, query: Queries \cup {NoQuery},
                           stage: {"embed", "generate"}, attempt: 1..Attempts]]
    /\ answers \subseteq {"yandexgpt", "fallback", "500"}
    /\ late \in Nat
    /\ requests \in 0..MaxRequests
    /\ failures \in 0..MaxFailures

\* The two attributes that record_success and record_failure keep agree in
\* every interleaving of the calls: the circuit is closed exactly while
\* there are fewer failures than the threshold since the last success.
CircuitCounts == circuit.state = "closed" <=> circuit.failures < failure_threshold

\* While the circuit is open, only the calls that were let through before
\* send requests: no more than each other task has attempts.
LateCallsBounded == late <= (Cardinality(Tasks) - 1) * Attempts

\* An open circuit stays open until the recovery timeout has passed.
CooldownRespected ==
    [][(circuit.state = "open" /\ ~circuit.cooled) => circuit'.state = "open"]_vars

\* However often YandexGPT, the metadata service or Redis fail or time out, the
\* guest gets a recommendation, if there is a fallback, no dish lacks its
\* description and no error status or failed query is met.
GuestIsAnswered ==
    FallbackEnabled /\ described /\ failures = 0 => "500" \notin answers

RedisAnswers == \A t \in Tasks : WF_vars(RedisStep(t))

\* However often requests time out, a call gets through them to its end or to
\* its next call of Redis, and it ends if Redis answers or breaks the
\* connection.
RecommendEnds ==
    /\ \A t \in Tasks : (task[t].pc \notin {"idle", "cache"})
                           ~> (task[t].pc \in {"idle", "keep"})
    /\ RedisAnswers => \A t \in Tasks : (task[t].pc # "idle") ~> (task[t].pc = "idle")
=============================================================================
