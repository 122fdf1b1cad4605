--------------------------- MODULE SessionsProofs ---------------------------
(***************************************************************************)
(* Proofs about Sessions.  That the middleware refuses a revoked token     *)
(* rests on the entry of the list lasting until one second before the      *)
(* token's end (Lasting), and that on how old the remaining time may be    *)
(* when SETEX uses it (Timely).  For the trail, a token is charged to a    *)
(* failure as soon as its revocation is lost, not when its row appears.    *)
(***************************************************************************)
EXTENDS Sessions, FiniteSetTheorems, TLAPS

\* The time that a logout has taken for k is never short: used later, it
\* reaches further.
Timely(t, k) ==
    /\ exp[k] # 0
    /\ clock + 2 * task[t].secs > 2 * exp[k] - 2

Taken(t) ==
    /\ task[t].pc # "idle" => task[t].token \in Tokens
    /\ task[t].pc = "own" => Timely(t, task[t].token) /\ ~task[t].row
    /\ task[t].pc = "body" => task[t].body \in Tokens /\ Timely(t, task[t].body)
    /\ task[t].pc \in {"idle", "check", "handler"} => ~task[t].row
    /\ task[t].token = NoToken => ~task[t].row

\* What was revoked is listed, or at its end.
Lasting ==
    \A k \in Tokens : Revoked(k) =>
        exp[k] # 0 /\ (key[k] > 2 * exp[k] - 2 \/ clock > 2 * exp[k] - 2)

\* Tokens on which list and log differ, or will.
Charged == (Untold \ Leaving) \cup (Leaving \ Own)

IInv ==
    /\ TypeOK
    /\ \A t \in Tasks : Taken(t)
    /\ Lasting
    /\ Cardinality(Charged) <= failures

-----------------------------------------------------------------------------
LEMMA IdleLocal == Idle \in Local
BY DEF Idle, Local, Steps, Kinds

\* Half seconds and seconds.
LEMMA Halves ==
  ASSUME NEW n \in Nat
  PROVE  n \div 2 \in Nat /\ 2 * (n \div 2) <= n /\ n <= 2 * (n \div 2) + 1
OBVIOUS

\* int() cuts off less than a second.
LEMMA SecondsLeftTimely ==
  ASSUME TypeOK, NEW k \in Tokens
  PROVE  SecondsLeft(k) \in Nat /\ clock + 2 * SecondsLeft(k) > 2 * exp[k] - 2
<1>1. clock \in Nat /\ exp[k] \in Nat
  BY SessionsAssumption DEF TypeOK
<1>2. CASE 2 * exp[k] > clock
  <2> DEFINE n == 2 * exp[k] - clock
  <2>1. n \in Nat
    BY <1>1, <1>2
  <2>2. SecondsLeft(k) = n \div 2
    BY <1>2 DEF SecondsLeft
  <2>3. n \div 2 \in Nat /\ n <= 2 * (n \div 2) + 1
    BY <2>1, Halves
  <2> QED
    BY <1>1, <2>2, <2>3
<1>3. CASE ~(2 * exp[k] > clock)
  BY <1>1, <1>3 DEF SecondsLeft
<1> QED
  BY <1>2, <1>3

LEMMA TypeStep ==
  ASSUME TypeOK, \A t \in Tasks : Taken(t), [Next]_vars
  PROVE  TypeOK'
<1> USE SessionsAssumption
<1>1. CASE Tick
  BY <1>1 DEF Tick, TypeOK
<1>2. CASE Issue
  <2>1. Now \in Nat
    BY Halves DEF Now, TypeOK
  <2>2. exp' \in [Tokens -> Nat]
    BY <1>2, <2>1 DEF Issue, TypeOK
  <2> QED
    BY <1>2, <2>2 DEF Issue, TypeOK
<1>3. ASSUME NEW t \in Tasks, NEW k \in Tokens, NEW kind \in Kinds,
             NEW body \in Tokens \cup {NoToken}, Enter(t, kind, k, body)
      PROVE  TypeOK'
  <2>1. [Idle EXCEPT !.pc = "check", !.kind = kind, !.token = k, !.body = body] \in Local
    BY DEF Idle, Local, Steps
  <2>2. task' \in [Tasks -> Local]
    BY <1>3, <2>1 DEF Enter, TypeOK
  <2> QED
    BY <1>3, <2>2 DEF Enter, TypeOK
<1>4. ASSUME NEW t \in Tasks, CheckRevoked(t) \/ Serve(t) \/ Fail(t) PROVE TypeOK'
  <2>1. task' = [task EXCEPT ![t] = Idle] \/ task' = [task EXCEPT ![t].pc = "handler"]
    BY <1>4 DEF CheckRevoked, Serve, Fail, Go
  <2>2. task' \in [Tasks -> Local]
    BY <2>1, IdleLocal DEF TypeOK, Local, Steps
  <2>3. failures' \in 0..MaxFailures
    BY <1>4 DEF CheckRevoked, Serve, Fail, Lose, TypeOK
  <2> QED
    BY <1>4, <2>2, <2>3 DEF CheckRevoked, Serve, Fail, TypeOK
<1>5. ASSUME NEW t \in Tasks, TakeOwn(t) PROVE TypeOK'
  <2>1. task[t] \in Local /\ task[t].token \in Tokens
    BY <1>5 DEF TakeOwn, TypeOK, Taken
  <2>2. SecondsLeft(task[t].token) \in Nat
    BY <2>1, SecondsLeftTimely
  <2>3. /\ [task[t] EXCEPT !.pc = "own", !.secs = SecondsLeft(task[t].token)] \in Local
        /\ [task[t] EXCEPT !.pc = "second"] \in Local
    BY <2>1, <2>2 DEF Local, Steps
  <2>4. task' \in [Tasks -> Local]
    BY <1>5, <2>3 DEF TakeOwn, Go, TypeOK
  <2> QED
    BY <1>5, <2>4 DEF TakeOwn, TypeOK
<1>6. ASSUME NEW t \in Tasks, TakeBody(t) PROVE TypeOK'
  <2>1. task[t] \in Local /\ task[t].body \in Tokens \cup {NoToken}
    BY DEF TypeOK, Local
  <2>2. task[t].body # NoToken => SecondsLeft(task[t].body) \in Nat
    BY <2>1, SecondsLeftTimely
  <2>3. /\ task[t].body # NoToken =>
              [task[t] EXCEPT !.pc = "body", !.secs = SecondsLeft(task[t].body)] \in Local
        /\ [task[t] EXCEPT !.pc = "commit"] \in Local
    BY <2>1, <2>2 DEF Local, Steps
  <2>4. task' \in [Tasks -> Local]
    BY <1>6, <2>3 DEF TakeBody, Go, TypeOK
  <2> QED
    BY <1>6, <2>4 DEF TakeBody, TypeOK
<1>7. ASSUME NEW t \in Tasks, NEW k \in Tokens, NEW place \in Places, SetEx(t, k, place)
      PROVE  /\ key' \in [Tokens -> Nat] /\ handed' \subseteq Tokens \X Places
             /\ failures' \in 0..MaxFailures
  <2>1. clock + 2 * task[t].secs \in Nat
    BY DEF TypeOK, Local
  <2> QED
    BY <1>7, <2>1 DEF SetEx, Lose, TypeOK
<1>8. ASSUME NEW t \in Tasks, RevokeOwn(t) PROVE TypeOK'
  <2>1. task[t] \in Local /\ task[t].token \in Tokens
    BY <1>8 DEF RevokeOwn, TypeOK, Taken
  <2>2. [task[t] EXCEPT !.pc = "second", !.row = TRUE] \in Local
    BY <2>1 DEF Local, Steps
  <2>3. task' \in [Tasks -> Local]
    BY <1>8, <2>2 DEF RevokeOwn, TypeOK
  <2> QED
    BY <1>7, <1>8, <2>1, <2>3 DEF RevokeOwn, TypeOK, Places
<1>9. ASSUME NEW t \in Tasks, RevokeBody(t) PROVE TypeOK'
  <2>1. task[t] \in Local /\ task[t].body \in Tokens
    BY <1>9 DEF RevokeBody, TypeOK, Taken
  <2>2. [task[t] EXCEPT !.pc = "commit"] \in Local
    BY <2>1 DEF Local, Steps
  <2>3. task' \in [Tasks -> Local]
    BY <1>9, <2>2 DEF RevokeBody, Go, TypeOK
  <2> QED
    BY <1>7, <1>9, <2>1, <2>3 DEF RevokeBody, TypeOK, Places
<1>10. ASSUME NEW t \in Tasks, Commit(t) PROVE TypeOK'
  <2>1. task' \in [Tasks -> Local]
    BY <1>10, IdleLocal DEF Commit, TypeOK
  <2>2. audit' \subseteq Tokens
    BY <1>10 DEF Commit, Logged, TypeOK, Taken
  <2> QED
    BY <1>10, <2>1, <2>2 DEF Commit, TypeOK
<1>11. CASE UNCHANGED vars
  BY <1>11 DEF vars, TypeOK
<1> QED
  BY <1>1, <1>2, <1>3, <1>4, <1>5, <1>6, <1>8, <1>9, <1>10, <1>11
     DEF Next, Receive, HandlerStep, Login, RefreshToken, Request, Logout, Kinds
-----------------------------------------------------------------------------
\* Time passes, and a token that a client has keeps its end.
LEMMA Later ==
  ASSUME TypeOK, TypeOK', [Next]_vars
  PROVE  /\ clock \in Nat /\ clock' \in Nat /\ clock <= clock'
         /\ \A k \in Tokens : exp[k] # 0 => exp'[k] = exp[k]
<1>1. clock \in Nat /\ clock' \in Nat
  BY SessionsAssumption DEF TypeOK
<1>2. CASE Tick
  BY <1>1, <1>2 DEF Tick
<1>3. CASE Issue
  BY <1>1, <1>3 DEF Issue, TypeOK
<1>4. CASE clock' = clock /\ exp' = exp
  BY <1>1, <1>4
<1> QED
  BY <1>1, <1>2, <1>3, <1>4
     DEF Next, Receive, HandlerStep, Login, RefreshToken, Request, Logout, Enter,
         CheckRevoked, Serve, TakeOwn, TakeBody, RevokeOwn, RevokeBody, Commit, Fail, vars

\* A task that no step touches.
LEMMA StaysTaken ==
  ASSUME TypeOK, TypeOK', [Next]_vars, NEW t \in Tasks, Taken(t), task'[t] = task[t]
  PROVE  Taken(t)'
<1>1. ASSUME NEW k \in Tokens, Timely(t, k) PROVE Timely(t, k)'
  <2>1. task[t].secs \in Nat /\ exp[k] \in Nat /\ exp'[k] = exp[k]
    BY <1>1, Later DEF TypeOK, Local, Timely
  <2>2. clock \in Nat /\ clock' \in Nat /\ clock <= clock'
    BY Later
  <2> QED
    BY <1>1, <2>1, <2>2 DEF Timely
<1> QED
  BY <1>1 DEF Taken

\* The step of a task leaves the others alone.
LEMMA OtherTasks ==
  ASSUME TypeOK, NEW t \in Tasks, HandlerStep(t) \/ Receive(t) \/ Fail(t)
  PROVE  \A u \in Tasks \ {t} : task'[u] = task[u]
<1>1. CASE Receive(t)
  BY <1>1 DEF TypeOK, Receive, Request, Logout, Enter
<1>2. CASE HandlerStep(t)
  BY <1>2 DEF TypeOK, HandlerStep, Go, CheckRevoked, Serve, TakeOwn, TakeBody,
              RevokeOwn, RevokeBody, Commit
<1>3. CASE Fail(t)
  BY <1>3 DEF TypeOK, Fail
<1> QED
  BY <1>1, <1>2, <1>3

LEMMA IdleTaken ==
  ASSUME NEW t \in Tasks, task'[t] = Idle
  PROVE  Taken(t)'
BY DEF Taken, Idle

LEMMA TakenStep ==
  ASSUME TypeOK, TypeOK', \A t \in Tasks : Taken(t), [Next]_vars, NEW u \in Tasks
  PROVE  Taken(u)'
<1>1. CASE task' = task
  BY <1>1, StaysTaken
<1>2. ASSUME NEW t \in Tasks, HandlerStep(t) \/ Receive(t) \/ Fail(t), u # t
      PROVE  Taken(u)'
  BY <1>2, OtherTasks, StaysTaken
<1>3. CASE Receive(u)
  <2>1. PICK kind \in Kinds, k \in Tokens, body \in Tokens \cup {NoToken} : Enter(u, kind, k, body)
    BY <1>3 DEF Receive, Request, Logout, Kinds
  <2>2. task'[u] = [Idle EXCEPT !.pc = "check", !.kind = kind, !.token = k, !.body = body]
    BY <2>1 DEF Enter, TypeOK
  <2>3. task'[u].pc = "check" /\ task'[u].token = k /\ task'[u].row = FALSE
    BY <2>2 DEF Idle
  <2> QED
    BY <2>3, SessionsAssumption DEF Taken
<1>4. CASE CheckRevoked(u)
  <2>1. CASE task'[u] = Idle
    BY <2>1, IdleTaken
  <2>2. CASE task' = [task EXCEPT ![u].pc = "handler"]
    <3>1. /\ task'[u].pc = "handler" /\ task'[u].token = task[u].token
          /\ task'[u].row = task[u].row
      BY <2>2 DEF TypeOK, Local
    <3> QED
      BY <1>4, <3>1 DEF CheckRevoked, Taken
  <2> QED
    BY <1>4, <2>1, <2>2 DEF CheckRevoked, Go, TypeOK
<1>5. CASE Serve(u) \/ Commit(u) \/ Fail(u)
  BY <1>5, IdleTaken DEF Serve, Commit, Fail, TypeOK
<1>6. CASE TakeOwn(u)
  <2>1. /\ task[u] \in Local /\ task[u].token \in Tokens /\ ~task[u].row
        /\ clock' = clock /\ exp' = exp
    BY <1>6 DEF TakeOwn, TypeOK, Taken
  <2>2. CASE Accepted(task[u].token)
    <3>1. /\ task'[u].pc = "own" /\ task'[u].token = task[u].token
          /\ task'[u].secs = SecondsLeft(task[u].token) /\ task'[u].row = task[u].row
      BY <1>6, <2>1, <2>2 DEF TakeOwn, TypeOK, Local
    <3>2. Timely(u, task[u].token)'
      BY <2>1, <2>2, <3>1, SecondsLeftTimely DEF Timely, Accepted
    <3> QED
      BY <2>1, <3>1, <3>2, SessionsAssumption DEF Taken
  <2>3. CASE ~Accepted(task[u].token)
    <3>1. task'[u].pc = "second" /\ task'[u].token = task[u].token
      BY <1>6, <2>1, <2>3 DEF TakeOwn, Go, TypeOK, Local
    <3> QED
      BY <2>1, <3>1, SessionsAssumption DEF Taken
  <2> QED
    BY <2>2, <2>3
<1>7. CASE TakeBody(u)
  <2>1. /\ task[u] \in Local /\ task[u].token \in Tokens
        /\ clock' = clock /\ exp' = exp
    BY <1>7 DEF TakeBody, TypeOK, Taken
  <2>2. CASE task[u].body # NoToken /\ Accepted(task[u].body)
    <3>1. /\ task'[u].pc = "body" /\ task'[u].token = task[u].token
          /\ task'[u].body = task[u].body
          /\ task'[u].secs = SecondsLeft(task[u].body)
      BY <1>7, <2>1, <2>2 DEF TakeBody, TypeOK, Local
    <3>2. task[u].body \in Tokens
      BY <2>1, <2>2 DEF Local
    <3>3. Timely(u, task[u].body)'
      BY <2>1, <2>2, <3>1, <3>2, SecondsLeftTimely DEF Timely, Accepted
    <3> QED
      BY <2>1, <3>1, <3>2, <3>3, SessionsAssumption DEF Taken
  <2>3. CASE ~(task[u].body # NoToken /\ Accepted(task[u].body))
    <3>1. task'[u].pc = "commit" /\ task'[u].token = task[u].token
      BY <1>7, <2>1, <2>3 DEF TakeBody, Go, TypeOK, Local
    <3> QED
      BY <2>1, <3>1, SessionsAssumption DEF Taken
  <2> QED
    BY <2>2, <2>3
<1>8. CASE RevokeOwn(u) \/ RevokeBody(u)
  <2>1. task[u] \in Local /\ task[u].token \in Tokens
    BY <1>8 DEF RevokeOwn, RevokeBody, TypeOK, Taken
  <2>2. task'[u].pc \in {"second", "commit"} /\ task'[u].token = task[u].token
    BY <1>8, <2>1 DEF RevokeOwn, RevokeBody, Go, TypeOK, Local
  <2> QED
    BY <2>1, <2>2, SessionsAssumption DEF Taken
<1> QED
  BY <1>1, <1>2, <1>3, <1>4, <1>5, <1>6, <1>7, <1>8
     DEF Next, HandlerStep, Tick, Login, RefreshToken, Issue, vars

-----------------------------------------------------------------------------
\* SETEX of a time that is not short.
LEMMA SetExLasts ==
  ASSUME TypeOK, TypeOK', Lasting, NEW t \in Tasks, NEW k \in Tokens,
         NEW place \in Places, SetEx(t, k, place), Timely(t, k),
         clock' = clock, exp' = exp
  PROVE  Lasting'
<1> SUFFICES ASSUME NEW j \in Tokens, Revoked(j)'
             PROVE  /\ exp'[j] # 0
                    /\ key'[j] > 2 * exp'[j] - 2 \/ clock' > 2 * exp'[j] - 2
  BY DEF Lasting
<1>1. CASE key' = key /\ handed' = handed
  BY <1>1 DEF Lasting, Revoked
<1>2. CASE /\ key' = IF task[t].secs = 0 THEN key
                     ELSE [key EXCEPT ![k] = clock + 2 * task[t].secs]
           /\ handed' = handed \cup {<<k, place>>}
  <2>1. clock \in Nat /\ task[t].secs \in Nat /\ exp[k] \in Nat /\ key[k] \in Nat
    BY SessionsAssumption DEF TypeOK, Local
  <2>2. CASE j = k /\ task[t].secs = 0
    BY <2>1, <2>2 DEF Timely
  <2>3. CASE j = k /\ task[t].secs # 0
    <3>1. key'[k] = clock + 2 * task[t].secs
      BY <1>2, <2>3 DEF TypeOK
    <3> QED
      BY <2>1, <2>3, <3>1 DEF Timely
  <2>4. CASE j # k
    <3>1. Revoked(j) /\ key'[j] = key[j]
      BY <1>2, <2>4 DEF Revoked, TypeOK
    <3> QED
      BY <3>1 DEF Lasting
  <2> QED
    BY <2>2, <2>3, <2>4
<1> QED
  BY <1>1, <1>2 DEF SetEx

LEMMA LastingStep ==
  ASSUME TypeOK, TypeOK', \A t \in Tasks : Taken(t), Lasting, [Next]_vars
  PROVE  Lasting'
<1>1. CASE key' = key /\ handed' = handed
  <2> SUFFICES ASSUME NEW k \in Tokens, Revoked(k)
               PROVE  /\ exp'[k] # 0
                      /\ key[k] > 2 * exp'[k] - 2 \/ clock' > 2 * exp'[k] - 2
    BY <1>1 DEF Lasting, Revoked
  <2>1. /\ exp[k] # 0 /\ exp'[k] = exp[k] /\ exp[k] \in Nat
        /\ key[k] > 2 * exp[k] - 2 \/ clock > 2 * exp[k] - 2
    BY Later DEF Lasting, TypeOK
  <2>2. clock \in Nat /\ clock' \in Nat /\ clock <= clock'
    BY Later
  <2> QED
    BY <2>1, <2>2
<1>2. ASSUME NEW t \in Tasks, RevokeOwn(t) PROVE Lasting'
  BY <1>2, SetExLasts DEF RevokeOwn, Taken, Places
<1>3. ASSUME NEW t \in Tasks, RevokeBody(t) PROVE Lasting'
  BY <1>3, SetExLasts DEF RevokeBody, Taken, Places
<1> QED
  BY <1>1, <1>2, <1>3
     DEF Next, Receive, HandlerStep, Login, RefreshToken, Request, Logout, Enter, Tick,
         Issue, CheckRevoked, Serve, TakeOwn, TakeBody, Commit, Fail, vars
-----------------------------------------------------------------------------
LEMMA Finite ==
  ASSUME TypeOK
  PROVE  /\ IsFiniteSet(Charged) /\ Cardinality(Charged) \in Nat
         /\ IsFiniteSet(Untold \ Leaving)
         /\ Cardinality(Untold \ Leaving) \in Nat
         /\ Cardinality(Untold \ Leaving) <= Cardinality(Charged)
<1>1. Charged \subseteq Tokens /\ Untold \ Leaving \subseteq Charged
  BY DEF TypeOK, Charged, Untold, Own, Leaving
<1>2. IsFiniteSet(Charged)
  BY <1>1, SessionsAssumption, FS_Subset
<1> QED
  BY <1>1, <1>2, FS_Subset, FS_CardinalityType

\* A step that charges nothing, or one token to a failure.
LEMMA ChargeOnce ==
  ASSUME TypeOK, TypeOK', Cardinality(Charged) <= failures, NEW k,
         \/ Charged' \subseteq Charged /\ failures <= failures'
         \/ Charged' \subseteq Charged \cup {k} /\ failures' = failures + 1
  PROVE  Cardinality(Charged') <= failures'
<1> DEFINE C == Charged
           D == Charged'
<1>1. /\ IsFiniteSet(C) /\ Cardinality(C) \in Nat /\ Cardinality(C) <= failures
      /\ failures \in Nat /\ failures' \in Nat
  BY Finite, SessionsAssumption DEF TypeOK
<1>2. \/ D \subseteq C /\ failures <= failures'
      \/ D \subseteq C \cup {k} /\ failures' = failures + 1
  OBVIOUS
<1> HIDE DEF C, D
<1>3. CASE D \subseteq C /\ failures <= failures'
  <2>1. Cardinality(D) <= Cardinality(C) /\ IsFiniteSet(D)
    BY <1>1, <1>3, FS_Subset
  <2>2. Cardinality(D) \in Nat
    BY <2>1, FS_CardinalityType
  <2>3. Cardinality(D) <= failures'
    BY <1>1, <1>3, <2>1, <2>2
  <2> QED
    BY <2>3 DEF D
<1>4. CASE D \subseteq C \cup {k} /\ failures' = failures + 1
  <2>1. /\ IsFiniteSet(C \cup {k})
        /\ Cardinality(C \cup {k}) = IF k \in C THEN Cardinality(C) ELSE Cardinality(C) + 1
    BY <1>1, FS_AddElement, Zenon
  <2>2. Cardinality(D) <= Cardinality(C \cup {k}) /\ IsFiniteSet(D)
    BY <1>4, <2>1, FS_Subset
  <2>3. Cardinality(D) \in Nat
    BY <2>2, FS_CardinalityType
  <2>4. Cardinality(D) <= failures'
    BY <1>1, <1>4, <2>1, <2>2, <2>3
  <2> QED
    BY <2>4 DEF D
<1> QED
  BY <1>2, <1>3, <1>4

\* A step of a task that moves no row.
LEMMA SameLeaving ==
  ASSUME TypeOK, NEW t \in Tasks, \A u \in Tasks \ {t} : task'[u] = task[u],
         \/ task'[t].row = task[t].row /\ task'[t].token = task[t].token
         \/ ~task'[t].row /\ ~task[t].row
  PROVE  Leaving' = Leaving
<1>1. ASSUME NEW u \in Tasks, NEW k \in Tokens
      PROVE  (task'[u].row /\ task'[u].token = k) <=> (task[u].row /\ task[u].token = k)
  BY <1>1
<1> QED
  BY <1>1 DEF Leaving

LEMMA ChargedStep ==
  ASSUME TypeOK, TypeOK', \A t \in Tasks : Taken(t),
         Cardinality(Charged) <= failures, [Next]_vars
  PROVE  Cardinality(Charged') <= failures'
<1> DEFINE Quietly == /\ handed' = handed /\ audit' = audit /\ Leaving' = Leaving
                      /\ failures <= failures'
<1>0. failures \in Nat /\ failures' \in Nat
  BY SessionsAssumption DEF TypeOK
<1>1. CASE Quietly
  <2>1. Charged' = Charged
    BY <1>1 DEF Charged, Untold, Own
  <2> QED
    BY <1>1, <2>1, ChargeOnce
<1>2. CASE task' = task /\ handed' = handed /\ audit' = audit /\ failures' = failures
  BY <1>0, <1>1, <1>2 DEF Leaving
<1>3. ASSUME NEW t \in Tasks, Receive(t) PROVE Quietly
  <2>1. PICK kind \in Kinds, k \in Tokens, body \in Tokens \cup {NoToken} : Enter(t, kind, k, body)
    BY <1>3 DEF Receive, Request, Logout, Kinds
  <2>2. task'[t] = [Idle EXCEPT !.pc = "check", !.kind = kind, !.token = k, !.body = body]
    BY <2>1 DEF Enter, TypeOK
  <2>3. task'[t].row = FALSE /\ ~task[t].row
    BY <2>1, <2>2 DEF Idle, Enter, Taken
  <2>4. Leaving' = Leaving
    BY <1>3, <2>3, OtherTasks, SameLeaving
  <2> QED
    BY <1>0, <2>1, <2>4 DEF Enter
<1>4. ASSUME NEW t \in Tasks, CheckRevoked(t) \/ Serve(t) PROVE Quietly
  <2>1. ~task[t].row /\ task[t] \in Local
    BY <1>4 DEF CheckRevoked, Serve, Taken, TypeOK
  <2>2. task'[t] = Idle \/ task'[t] = [task[t] EXCEPT !.pc = "handler"]
    BY <1>4 DEF CheckRevoked, Serve, Go, TypeOK
  <2>3. ~task'[t].row
    BY <2>1, <2>2 DEF Idle, Local
  <2>4. Leaving' = Leaving
    BY <1>4, <2>1, <2>3, OtherTasks, SameLeaving DEF HandlerStep
  <2> QED
    BY <1>0, <1>4, <2>4 DEF CheckRevoked, Serve, Lose
<1>5. ASSUME NEW t \in Tasks, TakeOwn(t) \/ TakeBody(t) PROVE Quietly
  <2>1. task[t] \in Local
    BY DEF TypeOK
  <2>2. task'[t].row = task[t].row /\ task'[t].token = task[t].token
    BY <1>5, <2>1 DEF TakeOwn, TakeBody, Go, TypeOK, Local
  <2>3. Leaving' = Leaving
    BY <1>5, <2>2, OtherTasks, SameLeaving DEF HandlerStep
  <2> QED
    BY <1>0, <1>5, <2>3 DEF TakeOwn, TakeBody
<1>6. ASSUME NEW t \in Tasks, RevokeBody(t) PROVE Cardinality(Charged') <= failures'
  <2>1. task'[t].row = task[t].row /\ task'[t].token = task[t].token
    BY <1>6 DEF RevokeBody, Go, TypeOK, Local
  <2>2. Leaving' = Leaving
    BY <1>6, <2>1, OtherTasks, SameLeaving DEF HandlerStep
  <2>3. Own' = Own /\ audit' = audit /\ failures <= failures'
    BY <1>0, <1>6 DEF RevokeBody, SetEx, Lose, Own
  <2>4. Charged' = Charged
    BY <2>2, <2>3 DEF Charged, Untold
  <2> QED
    BY <2>3, <2>4, ChargeOnce
<1>7. ASSUME NEW t \in Tasks, RevokeOwn(t) PROVE Cardinality(Charged') <= failures'
  <2> DEFINE k == task[t].token
  <2>1. /\ k \in Tokens /\ ~task[t].row /\ audit' = audit
        /\ task'[t].row /\ task'[t].token = k
    BY <1>7 DEF RevokeOwn, Taken, TypeOK, Local
  <2>2. Leaving' = Leaving \cup {k}
    BY <1>7, <2>1, OtherTasks DEF HandlerStep, Leaving
  <2>3. CASE handed' = handed \cup {<<k, "own">>} /\ failures' = failures
    <3>1. Own' = Own \cup {k}
      BY <2>1, <2>3 DEF Own
    <3>2. Charged' \subseteq Charged
      BY <2>1, <2>2, <3>1 DEF Charged, Untold
    <3> QED
      BY <1>0, <2>3, <3>2, ChargeOnce
  <2>4. CASE handed' = handed /\ failures' = failures + 1
    <3>1. Own' = Own
      BY <2>4 DEF Own
    <3>2. Charged' \subseteq Charged \cup {k}
      BY <2>1, <2>2, <3>1 DEF Charged, Untold
    <3> QED
      BY <2>4, <3>2, ChargeOnce
  <2> QED
    BY <1>7, <2>3, <2>4 DEF RevokeOwn, SetEx, Lose
<1>8. ASSUME NEW t \in Tasks, Commit(t) PROVE Cardinality(Charged') <= failures'
  <2> DEFINE k == task[t].token
  <2>1. k \in Tokens /\ handed' = handed /\ failures' = failures /\ ~task'[t].row
    BY <1>8 DEF Commit, Taken, TypeOK, Idle
  <2>2. Leaving' \subseteq Leaving /\ Leaving \subseteq Leaving' \cup {k}
    BY <1>8, <2>1, OtherTasks DEF HandlerStep, Leaving
  <2>3. Own' = Own
    BY <2>1 DEF Own
  <2>4. CASE task[t].row
    <3>1. audit' = audit \cup {k} /\ k \in Leaving
      BY <1>8, <2>1, <2>4 DEF Commit, Logged, Leaving
    <3>2. Charged' \subseteq Charged
      BY <2>2, <2>3, <3>1 DEF Charged, Untold
    <3> QED
      BY <1>0, <2>1, <3>2, ChargeOnce
  <2>5. CASE ~task[t].row
    <3>1. audit' = audit
      BY <1>8, <2>5 DEF Commit, Logged
    <3>2. Leaving' = Leaving
      BY <1>8, <2>1, <2>5, OtherTasks, SameLeaving DEF HandlerStep
    <3> QED
      BY <1>0, <1>1, <2>1, <3>1, <3>2
  <2> QED
    BY <2>4, <2>5
<1>9. ASSUME NEW t \in Tasks, Fail(t) PROVE Cardinality(Charged') <= failures'
  <2> DEFINE k == task[t].token
  <2>1. /\ k \in Tokens /\ handed' = handed /\ audit' = audit
        /\ failures' = failures + 1 /\ ~task'[t].row
    BY <1>9 DEF Fail, Lose, Taken, TypeOK, Idle
  <2>2. Leaving' \subseteq Leaving /\ Leaving \subseteq Leaving' \cup {k}
    BY <1>9, <2>1, OtherTasks DEF Leaving
  <2>3. Charged' \subseteq Charged \cup {k}
    BY <2>1, <2>2 DEF Charged, Untold, Own
  <2> QED
    BY <2>1, <2>3, ChargeOnce
<1> QED
  BY <1>1, <1>2, <1>3, <1>4, <1>5, <1>6, <1>7, <1>8, <1>9
     DEF Next, HandlerStep, Tick, Login, RefreshToken, Issue, vars

-----------------------------------------------------------------------------
LEMMA InitIInv == Init => IInv
<1> SUFFICES ASSUME Init PROVE IInv
  OBVIOUS
<1>1. TypeOK
  BY IdleLocal, SessionsAssumption DEF Init, TypeOK
<1>2. \A t \in Tasks : Taken(t)
  BY DEF Init, Idle, Taken
<1>3. Lasting
  BY DEF Init, Lasting, Revoked
<1>4. Charged = {}
  BY DEF Init, Charged, Untold, Own, Leaving, Idle
<1> QED
  BY <1>1, <1>2, <1>3, <1>4, FS_EmptySet DEF IInv, Init

LEMMA NextIInv == IInv /\ [Next]_vars => IInv'
<1> SUFFICES ASSUME IInv, [Next]_vars PROVE IInv'
  OBVIOUS
<1>1. TypeOK'
  BY TypeStep DEF IInv
<1> QED
  BY <1>1, TakenStep, LastingStep, ChargedStep DEF IInv

THEOREM Invariance == Spec => []IInv
BY InitIInv, NextIInv, PTL DEF Spec

\* Every variable keeps its type.
THEOREM TypeCorrect == Spec => []TypeOK
<1>1. IInv => TypeOK
  BY DEF IInv
<1> QED
  BY <1>1, Invariance, PTL

LEMMA Lasts == IInv => RevocationLasts
<1> SUFFICES ASSUME IInv, NEW k \in Tokens, Revoked(k), clock <= 2 * exp[k] - 2
             PROVE  clock < key[k]
  BY DEF RevocationLasts, Listed
<1>1. clock \in Nat /\ exp[k] \in Nat /\ key[k] \in Nat
  BY SessionsAssumption DEF IInv, TypeOK
<1>2. key[k] > 2 * exp[k] - 2 \/ clock > 2 * exp[k] - 2
  BY DEF IInv, Lasting
<1> QED
  BY <1>1, <1>2

\* An entry of the revocation list lasts until one second before the end of
\* its token, whatever the clock did between the two calls of the handler.
THEOREM ListLasts == Spec => []RevocationLasts
BY Lasts, Invariance, PTL

\* A request gets past the list because the list does not have its token, or
\* because Redis failed.
LEMMA Passing ==
  ASSUME TypeOK, [Next]_vars, NEW t \in Tasks, LetsIn(t)
  PROVE  ~Listed(task[t].token) \/ failures' > failures
<1>1. task[t].pc = "check" /\ task'[t].pc = "handler"
  BY DEF LetsIn
<1>2. failures \in Nat
  BY SessionsAssumption DEF TypeOK
<1>3. task'[t] # task[t] /\ task'[t] # Idle
  BY <1>1 DEF Idle
<1>4. HandlerStep(t) \/ Receive(t) \/ Fail(t)
  BY <1>3, OtherTasks DEF Next, Tick, Login, RefreshToken, Issue, vars
<1>5. CheckRevoked(t)
  BY <1>1, <1>3, <1>4
     DEF TypeOK, HandlerStep, Receive, Request, Logout, Enter, Serve, TakeOwn, TakeBody,
         RevokeOwn, RevokeBody, Commit, Fail
<1> QED
  BY <1>2, <1>3, <1>5 DEF CheckRevoked, Lose, TypeOK

\* No request with a revoked token gets past the middleware before the last
\* seconds of the token, unless Redis failed to answer that very request.
THEOREM Refused == Spec => RevokedIsRefused
<1> DEFINE Step == \A t \in Tasks :
                      /\ LetsIn(t)
                      /\ Revoked(task[t].token)
                      /\ clock <= 2 * exp[task[t].token] - 2
                      => failures' > failures
<1>1. ASSUME IInv, [Next]_vars PROVE Step
  <2> SUFFICES ASSUME NEW t \in Tasks, LetsIn(t), Revoked(task[t].token),
                      clock <= 2 * exp[task[t].token] - 2
               PROVE  failures' > failures
    OBVIOUS
  <2>1. task[t].token \in Tokens
    BY <1>1 DEF IInv, Taken, LetsIn
  <2>2. Listed(task[t].token)
    BY <1>1, <2>1, Lasts DEF RevocationLasts
  <2> QED
    BY <1>1, <2>2, Passing DEF IInv
<1>2. IInv /\ [Next]_vars => [Step]_vars
  BY <1>1
<1> QED
  BY <1>2, Invariance, PTL DEF Spec, RevokedIsRefused

\* But for the logouts under way, the audit log and the list differ by no
\* more tokens than connections were lost.
THEOREM TrailKept == Spec => []TrailBounded
<1>1. IInv => TrailBounded
  <2> SUFFICES ASSUME IInv PROVE Cardinality(Untold \ Leaving) <= failures
    BY DEF TrailBounded
  <2>1. failures \in Nat /\ Cardinality(Charged) <= failures
    BY SessionsAssumption DEF IInv, TypeOK
  <2> QED
    BY <2>1, Finite DEF IInv
<1> QED
  BY <1>1, Invariance, PTL
=============================================================================
