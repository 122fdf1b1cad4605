------------------------------ MODULE BotProofs ------------------------------
(***************************************************************************)
(* Proofs about RateLimiter and about Bot, whose handlers use the rate     *)
(* limiter as module RateLimiter says its callers do: every step of Bot is *)
(* a step of RateLimiter or leaves the limiter alone.  What is proved of   *)
(* the limiter then holds in the bot, whatever its handlers do between two *)
(* questions.                                                              *)
(***************************************************************************)
EXTENDS Bot, FiniteSetTheorems, TLAPS

LEMMA OnlyOne ==
  ASSUME NEW S, IsFiniteSet(S), Cardinality(S) <= 1, NEW t \in S, NEW u \in S
  PROVE  t = u
<1>1. /\ IsFiniteSet(S \ {t}) /\ Cardinality(S \ {t}) \in Nat /\ Cardinality(S) \in Nat
      /\ Cardinality(S \ {t}) = Cardinality(S) - 1
  BY FS_RemoveElement, FS_CardinalityType
<1>2. Cardinality(S \ {t}) = 0
  BY <1>1
<1>3. S \ {t} = {}
  BY <1>1, <1>2, FS_EmptySet
<1> QED
  BY <1>3

-----------------------------------------------------------------------------
(* The limiter.  The counter and the handlers that are about to increment  *)
(* it are counted together: a handler joins them only while the counter is *)
(* below the limit.                                                        *)

Incrementing == {t \in Tasks : task[t] = "incr"}

IInv == TypeOK /\ key + Cardinality(Incrementing) <= limit - 1 + Cardinality(Tasks)

-----------------------------------------------------------------------------
LEMMA Sizes ==
  /\ Cardinality(Tasks) \in Nat
  /\ IsFiniteSet(Incrementing)
  /\ Cardinality(Incrementing) \in Nat
  /\ Cardinality(Incrementing) <= Cardinality(Tasks)
BY RateLimiterAssumption, FS_Subset, FS_CardinalityType DEF Incrementing

LEMMA SizesNext ==
  /\ IsFiniteSet(Incrementing')
  /\ Cardinality(Incrementing') \in Nat
  /\ Cardinality(Incrementing') <= Cardinality(Tasks)
BY RateLimiterAssumption, FS_Subset, FS_CardinalityType DEF Incrementing

LEMMA TypeStep == TypeOK /\ [Next]_vars => TypeOK'
<1> USE RateLimiterAssumption DEF TypeOK, Steps
<1> SUFFICES ASSUME TypeOK, [Next]_vars PROVE TypeOK'
  OBVIOUS
<1>1. ASSUME NEW t \in Tasks, Message(t) PROVE TypeOK'
  BY <1>1 DEF Message
<1>2. ASSUME NEW t \in Tasks, Get(t) PROVE TypeOK'
  BY <1>2 DEF Get
<1>3. ASSUME NEW t \in Tasks, SetEx(t) PROVE TypeOK'
  BY <1>3 DEF SetEx, Pass
<1>4. ASSUME NEW t \in Tasks, Incr(t) PROVE TypeOK'
  BY <1>4 DEF Incr, Pass
<1>5. ASSUME NEW t \in Tasks, FailOpen(t) PROVE TypeOK'
  BY <1>5 DEF FailOpen, Pass
<1>6. ASSUME NEW t \in Tasks, Return(t) PROVE TypeOK'
  BY <1>6 DEF Return
<1>7. CASE Expire
  BY <1>7 DEF Expire
<1>8. CASE UNCHANGED vars
  BY <1>8 DEF vars
<1> QED
  BY <1>1, <1>2, <1>3, <1>4, <1>5, <1>6, <1>7, <1>8 DEF Next, Command

\* No step but INCR raises the counter of somebody who is below the limit,
\* and it takes its handler out of the set.
LEMMA NextIInv == IInv /\ [Next]_vars => IInv'
<1> SUFFICES ASSUME IInv, [Next]_vars PROVE IInv'
  OBVIOUS
<1> DEFINE I == Cardinality(Incrementing)
           J == Cardinality(Incrementing')
           K == Cardinality(Tasks)
<1>1. TypeOK /\ TypeOK' /\ key + I <= limit - 1 + K
  BY TypeStep DEF IInv
<1>2. /\ I \in Nat /\ J \in Nat /\ K \in Nat /\ J <= K
      /\ key \in Nat /\ key' \in Nat /\ limit \in Nat \ {0}
  BY <1>1, Sizes, SizesNext, RateLimiterAssumption DEF TypeOK
<1> SUFFICES key' + J <= limit - 1 + K
  BY <1>1 DEF IInv
<1>3. ASSUME Incrementing' \subseteq Incrementing PROVE J <= I
  BY <1>3, Sizes, FS_Subset
<1>4. ASSUME NEW t \in Tasks, Message(t) \/ FailOpen(t) \/ Return(t)
      PROVE  key' + J <= limit - 1 + K
  <2>1. key' = key /\ Incrementing' \subseteq Incrementing
    BY <1>1, <1>4 DEF Message, FailOpen, Return, Pass, Incrementing, TypeOK
  <2> QED
    BY <1>1, <1>2, <1>3, <2>1
<1>5. ASSUME NEW t \in Tasks, Get(t)
      PROVE  key' + J <= limit - 1 + K
  <2>1. CASE key # 0 /\ key < limit
    <3>1. key' = key
      BY <1>5 DEF Get
    <3> QED
      BY <1>2, <2>1, <3>1
  <2>2. CASE ~(key # 0 /\ key < limit)
    <3>1. key' = key /\ Incrementing' \subseteq Incrementing
      BY <1>1, <1>5, <2>2 DEF Get, WithinLimit, Incrementing, TypeOK
    <3> QED
      BY <1>1, <1>2, <1>3, <3>1
  <2> QED
    BY <2>1, <2>2
<1>6. ASSUME NEW t \in Tasks, SetEx(t)
      PROVE  key' + J <= limit - 1 + K
  <2>1. key' = 1 /\ t \notin Incrementing' /\ Incrementing' \subseteq Tasks \ {t}
    BY <1>1, <1>6 DEF SetEx, Pass, Incrementing, TypeOK
  <2>2. /\ IsFiniteSet(Tasks \ {t})
        /\ Cardinality(Tasks \ {t}) = K - 1
    BY RateLimiterAssumption, FS_RemoveElement
  <2>3. J <= K - 1
    BY <2>1, <2>2, FS_Subset
  <2> QED
    BY <1>2, <2>1, <2>3
<1>7. ASSUME NEW t \in Tasks, Incr(t)
      PROVE  key' + J <= limit - 1 + K
  <2>1. /\ key' = key + 1
        /\ t \in Incrementing
        /\ Incrementing' = Incrementing \ {t}
    BY <1>1, <1>7 DEF Incr, At, Pass, Incrementing, TypeOK
  <2>2. J = I - 1
    BY <2>1, Sizes, FS_RemoveElement
  <2> QED
    BY <1>1, <1>2, <2>1, <2>2
<1>8. CASE Expire
  <2>1. key' = 0 /\ Incrementing' = Incrementing
    BY <1>8 DEF Expire, Incrementing
  <2> QED
    BY <1>1, <1>2, <2>1
<1>9. CASE UNCHANGED vars
  <2>1. key' = key /\ Incrementing' = Incrementing
    BY <1>9 DEF vars, Incrementing
  <2> QED
    BY <1>1, <2>1
<1> QED
  BY <1>4, <1>5, <1>6, <1>7, <1>8, <1>9 DEF Next, Command

LEMMA InitIInv == Init => IInv
<1> SUFFICES ASSUME Init PROVE IInv
  OBVIOUS
<1>1. TypeOK
  <2>1. ttl \in BOOLEAN /\ ~ttl
    BY Zenon DEF Init
  <2>2. /\ key \in Nat /\ granted \in Nat
        /\ task \in [Tasks -> Steps]
        /\ messages \in 0..MaxMessages /\ failures \in 0..MaxFailures
    BY RateLimiterAssumption DEF Init, Steps
  <2> QED
    BY <2>1, <2>2 DEF TypeOK
<1>2. key = 0
  BY DEF Init
<1> QED
  BY <1>1, <1>2, Sizes, RateLimiterAssumption DEF IInv

\* Whatever number of handlers run for a user and whatever the limit is, the
\* counter exceeds the limit by less than that number.
THEOREM CounterOvershoot == Spec => []CounterBounded
<1>1. IInv => CounterBounded
  <2> SUFFICES ASSUME IInv PROVE CounterBounded
    OBVIOUS
  <2>1. key \in Nat /\ limit \in Nat
    BY RateLimiterAssumption DEF IInv, TypeOK
  <2> QED
    BY <2>1, Sizes DEF IInv, CounterBounded
<1> QED
  BY InitIInv, NextIInv, <1>1, PTL DEF Spec

\* With one handler at a time the counter is what the window has let through.
SerialInv ==
  failures = 0 =>
    /\ granted = key
    /\ key <= limit
    /\ \A t \in Tasks : /\ task[t] = "setex" => key = 0
                        /\ task[t] = "incr" => key < limit

\* A user whose messages are handled one at a time is not let through more
\* often than the limit says.
THEOREM SerialLimitKept == Spec => LimitKeptIfSerial
<1> DEFINE Serial == Cardinality(AtWork) <= 1
<1>1. TypeOK /\ SerialInv /\ Serial /\ [Next]_vars => SerialInv'
  <2> USE RateLimiterAssumption DEF TypeOK, SerialInv
  <2> SUFFICES ASSUME TypeOK, SerialInv, Serial, [Next]_vars, failures' = 0
               PROVE  /\ granted' = key'
                      /\ key' <= limit
                      /\ \A t \in Tasks : /\ task'[t] = "setex" => key' = 0
                                          /\ task'[t] = "incr" => key' < limit
    OBVIOUS
  <2>1. ASSUME NEW t \in Tasks, NEW u \in Tasks, task[t] # "idle", task[u] # "idle"
        PROVE  t = u
    <3>1. IsFiniteSet(AtWork) /\ t \in AtWork /\ u \in AtWork
      BY <2>1, FS_Subset DEF AtWork
    <3> QED
      BY <3>1, OnlyOne
  <2> HIDE DEF Serial
  <2>2. CASE \E t \in Tasks : Message(t) \/ Return(t)
    BY <2>2 DEF Message, Return
  <2>3. ASSUME NEW t \in Tasks, Get(t)
        PROVE  SerialInv'
    BY <2>3 DEF Get, At, WithinLimit
  <2>4. ASSUME NEW t \in Tasks, SetEx(t)
        PROVE  SerialInv'
    <3>1. /\ key = 0 /\ key' = 1 /\ granted' = 1
          /\ task' = [task EXCEPT ![t] = "allowed"] /\ task[t] = "setex"
      <4>1. /\ task[t] = "setex" /\ key' = 1 /\ failures' = failures
            /\ task' = [task EXCEPT ![t] = "allowed"]
            /\ granted' = IF key = 0 THEN 1 ELSE granted + 1
        BY <2>4 DEF SetEx, At, Pass
      <4>2. key = 0
        BY <2>4, <4>1
      <4> QED
        BY <4>1, <4>2
    <3>2. \A u \in Tasks \ {t} : task'[u] = "idle"
      BY <2>1, <3>1
    <3>3. task'[t] = "allowed"
      BY <3>1
    <3>4. \A u \in Tasks : task'[u] # "setex" /\ task'[u] # "incr"
      BY <3>2, <3>3
    <3> QED
      BY <3>1, <3>4
  <2>5. ASSUME NEW t \in Tasks, Incr(t)
        PROVE  SerialInv'
    BY <2>1, <2>5 DEF Incr, At, Pass
  <2>6. CASE \E t \in Tasks : FailOpen(t)
    BY <2>6 DEF FailOpen
  <2>7. CASE Expire
    BY <2>7 DEF Expire
  <2>8. CASE UNCHANGED vars
    BY <2>8 DEF vars
  <2> QED
    BY <2>2, <2>3, <2>4, <2>5, <2>6, <2>7, <2>8 DEF Next, Command
<1>2. Init => SerialInv
  BY RateLimiterAssumption DEF Init, SerialInv
<1>3. SerialInv /\ TypeOK => WindowKeepsLimit
  BY DEF SerialInv, WindowKeepsLimit, TypeOK
<1>4. IInv => TypeOK
  BY DEF IInv
<1> HIDE DEF Serial
<1>5. Spec /\ []Serial => []WindowKeepsLimit
  BY InitIInv, NextIInv, <1>1, <1>2, <1>3, <1>4, PTL DEF Spec
<1> QED
  BY <1>5, PTL DEF LimitKeptIfSerial, Serial

-----------------------------------------------------------------------------
(* The bot.                                                                *)

\* A step of a handler that has its answer either ends the handler or is
\* no step of the limiter.
LEMMA GoOnStep ==
  ASSUME NEW t \in Tasks, GoOn(t)
  PROVE  [Next]_vars
BY DEF GoOn, Next

LEMMA BotStep == [BotNext]_<<vars, botVars>> => [Next]_vars
<1> SUFFICES ASSUME [BotNext]_<<vars, botVars>> PROVE [Next]_vars
  OBVIOUS
<1>1. ASSUME NEW t \in Tasks, NEW kind \in Kinds, Receive(t, kind)
      PROVE  [Next]_vars
  BY <1>1 DEF Receive, Next
<1>2. ASSUME NEW t \in Tasks, NEW h, Tap(t, h)
      PROVE  [Next]_vars
  BY <1>2 DEF Tap
<1>3. ASSUME NEW t \in Tasks, SetState(t) \/ Answer(t)
      PROVE  [Next]_vars
  BY <1>3, GoOnStep DEF SetState, Answer
<1>4. ASSUME NEW t \in Tasks, Warn(t) \/ Raise(t)
      PROVE  [Next]_vars
  BY <1>4 DEF Warn, Raise, Next
<1>5. CASE DialogExpires
  BY <1>5 DEF DialogExpires
<1>6. CASE Limit
  BY <1>6 DEF Limit, Next
<1>7. CASE UNCHANGED <<vars, botVars>>
  BY <1>7
<1> QED
  BY <1>1, <1>2, <1>3, <1>4, <1>5, <1>6, <1>7 DEF BotNext

\* The bot implements the limiter's specification.
THEOREM BotKeepsLimiterProtocol == BotSpec => Spec
<1>1. BotInit => Init
  BY DEF BotInit
<1> QED
  BY <1>1, BotStep, PTL DEF BotSpec, Spec

\* However many updates of a user are handled at once, the counter passes
\* the limit by less than their number.
THEOREM BotCounterOvershoot == BotSpec => []CounterBounded
BY BotKeepsLimiterProtocol, CounterOvershoot, PTL

\* A user whose updates are handled one at a time is not let through more
\* often than the limit says, either.
THEOREM BotSerialLimitKept == BotSpec => LimitKeptIfSerial
BY BotKeepsLimiterProtocol, SerialLimitKept, PTL

-----------------------------------------------------------------------------
(* Where a handler can stand.                                              *)

OfMessages == {"cmd_start", "cmd_order", "cmd_info", "handle_ai_text", "handle_text"}

OfButtons == {"process_ai_recommend", "process_delete_account"}

\* What can be left of the script of a handler that runs.
Rest(h) ==
  CASE h \in {"cmd_start", "handle_text"} -> {<<"clear", "answer">>, <<"answer">>}
    [] h = "cmd_order" -> {<<"order_type", "answer">>, <<"answer">>}
    [] h = "process_ai_recommend" -> {<<"ai_recommend", "answer">>, <<"answer">>}
    [] h = "handle_ai_text" -> {<<"answer", "clear">>, <<"clear">>}
    [] OTHER -> {<<"answer">>}

\* h runs with rest r where the limiter has step s.
Stands(h, r, s) ==
  /\ h \in OfMessages \cup OfButtons \cup {"none"}
  /\ IF h = "none" THEN r = <<>> ELSE r \in Rest(h)
  /\ s # "idle" <=> h \in OfMessages
  /\ s \notin {"idle", "allowed"} => r = Script(h)

Standing ==
  /\ handler \in [Tasks -> Handlers]
  /\ script = [t \in Tasks |-> script[t]]
  /\ \A t \in Tasks : Stands(handler[t], script[t], task[t])
  /\ dialog \in Dialogs
  /\ taps \in 0..MaxTaps /\ errors \in 0..MaxErrors
  /\ asked \in Nat /\ recommended \in Nat

LEMMA ScriptStands ==
  ASSUME NEW h \in OfMessages \cup OfButtons
  PROVE  Script(h) \in Rest(h) /\ h \in Handlers
BY DEF Script, Rest, OfMessages, OfButtons, Handlers

LEMMA OneOrTwo ==
  ASSUME NEW e, NEW f
  PROVE  /\ <<e>> # <<>> /\ Len(<<e>>) = 1 /\ Tail(<<e>>) = <<>> /\ Head(<<e>>) = e
         /\ <<e, f>> # <<>> /\ Len(<<e, f>>) = 2 /\ Tail(<<e, f>>) = <<f>> /\ Head(<<e, f>>) = e
OBVIOUS

\* A script is one effect or two.
LEMMA ScriptShape ==
  ASSUME NEW h \in OfMessages \cup OfButtons
  PROVE  \E e, f \in Effects :
           \/ Script(h) = <<e, f>> /\ Rest(h) = {<<e, f>>, <<f>>}
           \/ Script(h) = <<e>> /\ Rest(h) = {<<e>>}
<1>1. CASE h \in {"cmd_start", "handle_text"}
  BY <1>1 DEF Rest, Script, Effects
<1>2. CASE h = "cmd_order"
  BY <1>2 DEF Rest, Script, Effects
<1>3. CASE h = "process_ai_recommend"
  BY <1>3 DEF Rest, Script, Effects
<1>4. CASE h = "handle_ai_text"
  BY <1>4 DEF Rest, Script, Effects
<1>5. CASE h \in {"cmd_info", "process_delete_account"}
  BY <1>5 DEF Rest, Script, Effects
<1> QED
  BY <1>1, <1>2, <1>3, <1>4, <1>5 DEF OfMessages, OfButtons

LEMMA RestType ==
  ASSUME NEW h \in OfMessages \cup OfButtons, NEW r \in Rest(h)
  PROVE  /\ r # <<>>
         /\ r \in {<<e>> : e \in Effects} \cup {<<e, f>> : e \in Effects, f \in Effects}
         /\ Len(r) = 1 => Tail(r) = <<>>
         /\ Len(r) # 1 => r = Script(h) /\ Tail(r) \in Rest(h) \ {r}
<1>1. ASSUME NEW e \in Effects, NEW f \in Effects,
             Script(h) = <<e, f>>, Rest(h) = {<<e, f>>, <<f>>}
      PROVE  /\ r # <<>>
             /\ r \in {<<g>> : g \in Effects} \cup {<<d, g>> : d \in Effects, g \in Effects}
             /\ Len(r) = 1 => Tail(r) = <<>>
             /\ Len(r) # 1 => r = Script(h) /\ Tail(r) \in Rest(h) \ {r}
  <2>1. CASE r = <<f>>
    BY <2>1, OneOrTwo
  <2>2. CASE r = <<e, f>>
    <3>1. r # <<>> /\ Len(r) = 2 /\ Tail(r) = <<f>> /\ <<f>> # r
      BY <2>2, OneOrTwo
    <3> QED
      BY <1>1, <2>2, <3>1
  <2> QED
    BY <1>1, <2>1, <2>2
<1>2. ASSUME NEW e \in Effects, Rest(h) = {<<e>>}
      PROVE  /\ r # <<>>
             /\ r \in {<<g>> : g \in Effects} \cup {<<d, g>> : d \in Effects, g \in Effects}
             /\ Len(r) = 1 => Tail(r) = <<>>
             /\ Len(r) # 1 => r = Script(h) /\ Tail(r) \in Rest(h) \ {r}
  <2>1. r = <<e>> /\ <<e>> # <<>> /\ Len(<<e>>) = 1 /\ Tail(<<e>>) = <<>>
    BY <1>2, OneOrTwo
  <2> QED
    BY <2>1
<1> QED
  BY <1>1, <1>2, ScriptShape

\* One handler moves, and the limiter with it or not at all.
Moved(t) ==
  /\ handler' = [handler EXCEPT ![t] = handler'[t]]
  /\ script' = [script EXCEPT ![t] = script'[t]]
  /\ task' = [task EXCEPT ![t] = task'[t]]
  /\ Stands(handler'[t], script'[t], task'[t])

\* A handler that goes on ends, or has the rest of its script left.
LEMMA GoOnStands ==
  ASSUME TypeOK, Standing, NEW t \in Tasks, Ready(t), GoOn(t)
  PROVE  /\ Moved(t)
         /\ handler[t] # "none"
         /\ script'[t] # Script(handler[t])
         /\ \/ handler'[t] = "none" /\ script'[t] = <<>>
            \/ handler'[t] = handler[t] /\ script'[t] = Tail(script[t])
         /\ UNCHANGED <<messages, failures>>
<1> DEFINE h == handler[t]
           r == script[t]
<1>1. /\ task \in [Tasks -> Steps] /\ handler \in [Tasks -> Handlers]
      /\ script = [u \in Tasks |-> script[u]]
      /\ Stands(h, r, task[t]) /\ r # <<>>
      /\ h \in OfButtons \/ task[t] = "allowed"
  BY DEF TypeOK, Standing, Ready, OfButtons
<1>2. h \in OfMessages \cup OfButtons /\ r \in Rest(h)
  BY <1>1 DEF Stands
<1>3. Len(r) # 1 => r = Script(h) /\ Tail(r) \in Rest(h) \ {r}
  BY <1>2, RestType
<1>4. /\ handler' = [handler EXCEPT ![t] = IF Last(t) THEN "none" ELSE h]
      /\ script' = [script EXCEPT ![t] = Tail(r)]
  BY DEF GoOn, Run
<1>5. handler'[t] = (IF Last(t) THEN "none" ELSE h) /\ script'[t] = Tail(r)
  BY <1>1, <1>4
<1>6. h \in OfMessages <=> task[t] # "idle"
  BY <1>1 DEF Stands
<1>7. CASE Len(r) = 1
  <2>2. Tail(r) = <<>>
    BY <1>2, <1>7, RestType
  <2>3. handler'[t] = "none" /\ script'[t] = <<>> /\ Script(h) # <<>>
    BY <1>2, <1>5, <1>7, <2>2, ScriptStands, RestType DEF Last
  <2>4. /\ task'[t] = "idle" /\ task' = [task EXCEPT ![t] = "idle"]
        /\ UNCHANGED <<messages, failures>>
    <3>1. CASE task[t] = "allowed"
      BY <1>1, <1>7, <3>1 DEF GoOn, Last, Return
    <3>2. CASE task[t] # "allowed"
      <4>1. h \in OfButtons
        BY <1>1, <3>2
      <4>2. task[t] = "idle"
        BY <1>1, <4>1 DEF Stands, OfMessages, OfButtons
      <4>3. UNCHANGED vars
        BY <3>2 DEF GoOn
      <4> QED
        BY <1>1, <4>2, <4>3 DEF vars
    <3> QED
      BY <3>1, <3>2
  <2>5. Stands("none", <<>>, "idle")
    BY DEF Stands, OfMessages
  <2> QED
    BY <1>2, <1>4, <1>5, <2>3, <2>4, <2>5 DEF Moved, OfMessages, OfButtons
<1>8. CASE Len(r) # 1
  <2>1. UNCHANGED vars
    BY <1>8 DEF GoOn, Last
  <2>2. handler'[t] = h /\ script'[t] = Tail(r) /\ Tail(r) \in Rest(h) \ {Script(h)}
    BY <1>3, <1>5, <1>8 DEF Last
  <2>3. task[t] \in {"idle", "allowed"}
    BY <1>1 DEF Stands, OfMessages, OfButtons
  <2>4. Stands(h, Tail(r), task[t])
    BY <1>1, <1>2, <2>2, <2>3 DEF Stands
  <2> QED
    BY <1>1, <1>2, <1>4, <2>1, <2>2, <2>4 DEF Moved, vars, OfMessages, OfButtons
<1> QED
  BY <1>7, <1>8

\* A handler arrives, with its whole script.
LEMMA ArrivalStands ==
  ASSUME TypeOK, Standing, NEW t \in Tasks,
         \/ \E kind \in Kinds : Receive(t, kind)
         \/ \E h \in OfButtons : Tap(t, h)
  PROVE  /\ Moved(t)
         /\ \/ /\ handler'[t] \in OfMessages /\ messages' = messages + 1 /\ taps' = taps
               /\ messages \in Nat
            \/ /\ handler'[t] \in OfButtons /\ messages' = messages /\ taps' = taps + 1
               /\ taps < MaxTaps
         /\ handler[t] = "none" /\ script'[t] = Script(handler'[t])
         /\ UNCHANGED <<dialog, errors, asked, recommended>>
<1>1. /\ task \in [Tasks -> Steps] /\ handler \in [Tasks -> Handlers]
      /\ script = [u \in Tasks |-> script[u]] /\ messages \in Nat
      /\ Stands(handler[t], script[t], task[t])
  BY DEF TypeOK, Standing
<1>2. ASSUME NEW h \in OfMessages \cup OfButtons, Run(t, h, Script(h))
      PROVE  /\ handler' = [handler EXCEPT ![t] = handler'[t]] /\ handler'[t] = h
             /\ script' = [script EXCEPT ![t] = script'[t]] /\ script'[t] = Script(h)
             /\ h # "none" /\ Script(h) \in Rest(h)
  BY <1>1, <1>2, ScriptStands DEF Run, OfMessages, OfButtons
<1>3. ASSUME NEW kind \in Kinds, Receive(t, kind)
      PROVE  /\ Moved(t) /\ handler'[t] \in OfMessages /\ messages' = messages + 1
             /\ handler[t] = "none" /\ script'[t] = Script(handler'[t])
             /\ UNCHANGED <<dialog, errors, asked, recommended, taps>>
  <2>1. HandlerOf(kind) \in OfMessages
    BY DEF HandlerOf, OfMessages
  <2>2. /\ Run(t, HandlerOf(kind), Script(HandlerOf(kind))) /\ handler[t] = "none"
        /\ Message(t) /\ UNCHANGED <<dialog, taps, errors, asked, recommended>>
    BY <1>3 DEF Receive
  <2>3. /\ task'[t] = "get" /\ task' = [task EXCEPT ![t] = task'[t]]
        /\ messages' = messages + 1
    BY <1>1, <2>2 DEF Message
  <2>4. Stands(handler'[t], script'[t], task'[t])
    BY <1>2, <2>1, <2>2, <2>3 DEF Stands
  <2> QED
    BY <1>2, <2>1, <2>2, <2>3, <2>4 DEF Moved
<1>4. ASSUME NEW h \in OfButtons, Tap(t, h)
      PROVE  /\ Moved(t) /\ handler'[t] \in OfButtons /\ taps' = taps + 1 /\ taps < MaxTaps
             /\ handler[t] = "none" /\ script'[t] = Script(handler'[t])
             /\ UNCHANGED <<dialog, errors, asked, recommended, messages>>
  <2>1. /\ Run(t, h, Script(h)) /\ handler[t] = "none" /\ task' = task
        /\ taps' = taps + 1 /\ taps < MaxTaps
        /\ UNCHANGED <<dialog, errors, asked, recommended, messages>>
    BY <1>4 DEF Tap, vars
  <2>2. task'[t] = "idle" /\ task' = [task EXCEPT ![t] = task'[t]]
    BY <1>1, <2>1 DEF Stands, OfMessages
  <2>3. Stands(handler'[t], script'[t], task'[t])
    BY <1>2, <2>1, <2>2 DEF Stands, OfMessages, OfButtons
  <2> QED
    BY <1>2, <2>1, <2>2, <2>3 DEF Moved
<1> QED
  BY <1>1, <1>3, <1>4

\* A handler is warned off, or a call of it raises: it ends.
LEMMA EndStands ==
  ASSUME TypeOK, Standing, NEW t \in Tasks, Warn(t) \/ Raise(t)
  PROVE  /\ Moved(t) /\ handler[t] # "none" /\ handler'[t] = "none"
         /\ UNCHANGED <<dialog, taps, asked, recommended, messages>>
         /\ \/ errors' = errors /\ task[t] = "denied"
            \/ errors' = errors + 1 /\ errors < MaxErrors
<1>1. /\ task \in [Tasks -> Steps] /\ handler \in [Tasks -> Handlers]
      /\ script = [u \in Tasks |-> script[u]]
      /\ Stands(handler[t], script[t], task[t]) /\ errors \in Nat
  BY BotAssumption DEF TypeOK, Standing
<1>2. Run(t, "none", <<>>) /\ handler[t] # "none"
  BY <1>1 DEF Warn, Raise, Ready, Stands, OfMessages
<1>3. /\ handler' = [handler EXCEPT ![t] = handler'[t]] /\ handler'[t] = "none"
      /\ script' = [script EXCEPT ![t] = script'[t]] /\ script'[t] = <<>>
  BY <1>1, <1>2 DEF Run
<1>4. /\ task'[t] = "idle" /\ task' = [task EXCEPT ![t] = task'[t]]
      /\ messages' = messages
  <2>1. CASE Return(t)
    BY <1>1, <2>1 DEF Return
  <2>2. CASE UNCHANGED vars /\ task[t] # "allowed" /\ Ready(t)
    <3>1. task[t] = "idle"
      BY <1>1, <2>2 DEF Stands, Ready, OfMessages
    <3> QED
      BY <1>1, <2>2, <3>1 DEF vars
  <2> QED
    BY <2>1, <2>2 DEF Warn, Raise
<1>5. Stands("none", <<>>, "idle")
  BY DEF Stands, OfMessages
<1>6. /\ UNCHANGED <<dialog, taps, asked, recommended>>
      /\ \/ errors' = errors /\ task[t] = "denied"
         \/ errors' = errors + 1 /\ errors < MaxErrors
  BY DEF Warn, Raise
<1> QED
  BY <1>1, <1>2, <1>3, <1>4, <1>5, <1>6 DEF Moved

\* The limiter moves under a handler that waits for it.
LEMMA LimitStands ==
  ASSUME TypeOK, Standing, Limit
  PROVE  /\ \A u \in Tasks : Stands(handler[u], script[u], task'[u])
         /\ messages' = messages
         /\ UNCHANGED botVars
<1>1. task \in [Tasks -> Steps] /\ \A u \in Tasks : Stands(handler[u], script[u], task[u])
  BY DEF TypeOK, Standing
<1>2. ASSUME NEW t \in Tasks, Command(t) \/ FailOpen(t)
      PROVE  /\ task' = [task EXCEPT ![t] = task'[t]] /\ messages' = messages
             /\ task[t] \in {"get", "setex", "incr"}
             /\ task'[t] # "idle"
  BY <1>1, <1>2 DEF Command, Get, SetEx, Incr, FailOpen, Pass, At
<1>3. ASSUME NEW t \in Tasks, Command(t) \/ FailOpen(t), NEW u \in Tasks
      PROVE  Stands(handler[u], script[u], task'[u])
  <2>1. CASE u = t
    BY <1>1, <1>2, <1>3, <2>1 DEF Stands
  <2>2. CASE u # t
    BY <1>1, <1>2, <1>3, <2>2
  <2> QED
    BY <2>1, <2>2
<1>4. CASE Expire
  BY <1>1, <1>4 DEF Expire, Limit
<1> QED
  BY <1>2, <1>3, <1>4 DEF Limit

-----------------------------------------------------------------------------
(* What is asked for and what is sent are bounded by what the user does:   *)
(* a handler that has its whole script before it is counted with them.     *)

Starting(h) == {t \in Tasks : handler[t] = h /\ script[t] = Script(h)}

Counted ==
  /\ asked + Cardinality(Starting("process_ai_recommend")) <= taps
  /\ recommended + Cardinality(Starting("handle_ai_text")) <= messages

LEMMA StartingSize ==
  ASSUME NEW h
  PROVE  /\ IsFiniteSet(Starting(h)) /\ Cardinality(Starting(h)) \in Nat
         /\ IsFiniteSet(Starting(h)') /\ Cardinality(Starting(h)') \in Nat
BY RateLimiterAssumption, FS_Subset, FS_CardinalityType DEF Starting

LEMMA StartingMoves ==
  ASSUME Standing, NEW t \in Tasks, Moved(t), NEW h
  PROVE  /\ Cardinality(Starting(h)') <= Cardinality(Starting(h)) + 1
         /\ t \notin Starting(h)' => Cardinality(Starting(h)') <= Cardinality(Starting(h))
         /\ t \in Starting(h) /\ t \notin Starting(h)' =>
               Cardinality(Starting(h)') <= Cardinality(Starting(h)) - 1
<1> DEFINE S == Starting(h)
           R == Starting(h)'
<1>1. R \subseteq S \cup {t} /\ (t \notin R => R \subseteq S \ {t})
  BY DEF Standing, Moved, Starting
<1>2. IsFiniteSet(S) /\ Cardinality(S) \in Nat /\ Cardinality(R) \in Nat
  BY StartingSize
<1> HIDE DEF S, R
<1>3. IsFiniteSet(S \cup {t}) /\ Cardinality(S \cup {t}) <= Cardinality(S) + 1
  BY <1>2, FS_AddElement
<1>4. /\ IsFiniteSet(S \ {t}) /\ Cardinality(S \ {t}) <= Cardinality(S)
      /\ t \in S => Cardinality(S \ {t}) = Cardinality(S) - 1
  <2>1. CASE t \in S
    <3>1. IsFiniteSet(S \ {t}) /\ Cardinality(S \ {t}) = Cardinality(S) - 1
      BY <1>2, <2>1, FS_RemoveElement
    <3>2. Cardinality(S) \in Nat
      BY <1>2
    <3> QED
      BY <2>1, <3>1, <3>2
  <2>2. CASE t \notin S
    <3>1. S \ {t} = S
      BY <2>2
    <3>2. IsFiniteSet(S \ {t}) /\ Cardinality(S \ {t}) = Cardinality(S)
      BY <1>2, <3>1, Zenon
    <3>3. Cardinality(S) \in Nat
      BY <1>2
    <3> QED
      BY <2>2, <3>2, <3>3
  <2> QED
    BY <2>1, <2>2
<1>5. Cardinality(R) <= Cardinality(S) + 1
  BY <1>1, <1>2, <1>3, FS_Subset, FS_CardinalityType
<1>6. t \notin R => Cardinality(R) <= Cardinality(S \ {t})
  BY <1>1, <1>4, FS_Subset
<1> QED
  BY <1>2, <1>4, <1>5, <1>6, FS_CardinalityType DEF S, R

\* A handler that has taken a step is not counted any more.
LEMMA StartingLeft ==
  ASSUME NEW t \in Tasks, NEW h \in OfMessages \cup OfButtons,
         \/ handler'[t] = "none"
         \/ handler'[t] = handler[t] /\ script'[t] # Script(handler[t])
  PROVE  t \notin Starting(h)'
BY DEF Starting, OfMessages, OfButtons

BInv == TypeOK /\ Standing /\ Counted

LEMMA InitBInv == BotInit => BInv
<1> SUFFICES ASSUME BotInit PROVE BInv
  OBVIOUS
<1>1. TypeOK
  BY InitIInv DEF BotInit, IInv
<1>2. /\ handler = [t \in Tasks |-> "none"] /\ script = [t \in Tasks |-> <<>>]
      /\ task = [t \in Tasks |-> "idle"] /\ dialog = "none" /\ messages = 0
      /\ taps = 0 /\ errors = 0 /\ asked = 0 /\ recommended = 0
  BY DEF BotInit, Init
<1>3. Standing
  <2>1. Stands("none", <<>>, "idle")
    BY DEF Stands, OfMessages
  <2> QED
    BY <1>2, <2>1, BotAssumption DEF Standing, Handlers, Dialogs
<1>4. Starting("process_ai_recommend") = {} /\ Starting("handle_ai_text") = {}
  BY <1>2 DEF Starting
<1>5. Counted
  <2>1. Cardinality({}) = 0
    BY FS_EmptySet
  <2>2. /\ Cardinality(Starting("process_ai_recommend")) = 0
        /\ Cardinality(Starting("handle_ai_text")) = 0
    BY <1>4, <2>1
  <2> QED
    BY <1>2, <2>2 DEF Counted
<1> QED
  BY <1>1, <1>3, <1>5 DEF BInv

LEMMA NextBInv == BInv /\ [BotNext]_<<vars, botVars>> => BInv'
<1> SUFFICES ASSUME BInv, [BotNext]_<<vars, botVars>> PROVE BInv'
  OBVIOUS
<1> USE BotAssumption
<1> DEFINE ai == "process_ai_recommend"
           text == "handle_ai_text"
<1>1. TypeOK /\ Standing /\ Counted /\ TypeOK'
  BY BotStep, TypeStep DEF BInv
<1>2. /\ asked \in Nat /\ recommended \in Nat /\ taps \in 0..MaxTaps /\ errors \in 0..MaxErrors
      /\ messages \in Nat /\ dialog \in Dialogs /\ handler \in [Tasks -> Handlers]
      /\ \A t \in Tasks : Stands(handler[t], script[t], task[t])
  BY <1>1 DEF TypeOK, Standing
<1>3. /\ Cardinality(Starting(ai)) \in Nat /\ Cardinality(Starting(ai)') \in Nat
      /\ Cardinality(Starting(text)) \in Nat /\ Cardinality(Starting(text)') \in Nat
      /\ asked + Cardinality(Starting(ai)) <= taps
      /\ recommended + Cardinality(Starting(text)) <= messages
  BY <1>1, StartingSize DEF Counted
<1>4. ai \in OfButtons /\ text \in OfMessages
      /\ ai \notin OfMessages /\ text \notin OfButtons
      /\ ai \in OfMessages \cup OfButtons /\ text \in OfMessages \cup OfButtons
  BY DEF OfButtons, OfMessages
<1>5. ASSUME NEW t \in Tasks, Moved(t), dialog' \in Dialogs, taps' \in 0..MaxTaps,
             errors' \in 0..MaxErrors, asked' \in Nat, recommended' \in Nat
      PROVE  Standing'
  <2>1. \A u \in Tasks : Stands(handler'[u], script'[u], task'[u])
    BY <1>1, <1>2, <1>5 DEF Moved, Standing, TypeOK
  <2>2. handler' \in [Tasks -> Handlers]
    <3>1. handler'[t] \in Handlers
      BY <1>5 DEF Moved, Stands, OfMessages, OfButtons, Handlers
    <3> QED
      BY <1>2, <1>5, <3>1 DEF Moved
  <2>3. script' = [u \in Tasks |-> script'[u]]
    BY <1>1, <1>5 DEF Moved, Standing
  <2> QED
    BY <1>5, <2>1, <2>2, <2>3 DEF Standing
<1>6. ASSUME NEW t \in Tasks,
             \/ \E kind \in Kinds : Receive(t, kind)
             \/ \E h \in OfButtons : Tap(t, h)
      PROVE  Standing' /\ Counted'
  <2>1. Moved(t) /\ UNCHANGED <<dialog, errors, asked, recommended>>
    BY <1>1, <1>6, ArrivalStands
  <2>2. CASE handler'[t] \in OfMessages /\ messages' = messages + 1 /\ taps' = taps
    <3>1. t \notin Starting(ai)'
      BY <1>4, <2>2 DEF Starting
    <3>2. /\ Cardinality(Starting(ai)') <= Cardinality(Starting(ai))
          /\ Cardinality(Starting(text)') <= Cardinality(Starting(text)) + 1
      BY <1>1, <2>1, <3>1, StartingMoves
    <3> QED
      BY <1>2, <1>3, <1>5, <2>1, <2>2, <3>2 DEF Counted
  <2>3. CASE /\ handler'[t] \in OfButtons /\ messages' = messages /\ taps' = taps + 1
             /\ taps < MaxTaps
    <3>1. t \notin Starting(text)'
      BY <1>4, <2>3 DEF Starting
    <3>2. /\ Cardinality(Starting(ai)') <= Cardinality(Starting(ai)) + 1
          /\ Cardinality(Starting(text)') <= Cardinality(Starting(text))
      BY <1>1, <2>1, <3>1, StartingMoves
    <3> QED
      BY <1>2, <1>3, <1>5, <2>1, <2>3, <3>2 DEF Counted
  <2> QED
    BY <1>1, <1>6, <2>2, <2>3, ArrivalStands
\* The first effect of a script is what the counters count.
<1>7. ASSUME NEW t \in Tasks, SetState(t) \/ Answer(t)
      PROVE  Standing' /\ Counted'
  <2>1. Ready(t) /\ GoOn(t)
    BY <1>7 DEF SetState, Answer
  <2>2. /\ Moved(t) /\ handler[t] # "none" /\ UNCHANGED <<messages, failures>>
        /\ t \notin Starting(ai)' /\ t \notin Starting(text)'
    BY <1>1, <1>4, <2>1, GoOnStands, StartingLeft
  <2>3. /\ Cardinality(Starting(ai)') <= Cardinality(Starting(ai))
        /\ Cardinality(Starting(text)') <= Cardinality(Starting(text))
        /\ t \in Starting(ai) => Cardinality(Starting(ai)') <= Cardinality(Starting(ai)) - 1
        /\ t \in Starting(text) => Cardinality(Starting(text)') <= Cardinality(Starting(text)) - 1
    BY <1>1, <2>2, StartingMoves
  <2>4. handler[t] \in OfMessages \cup OfButtons /\ script[t] \in Rest(handler[t])
    BY <1>2, <2>2 DEF Stands
  <2>5. CASE SetState(t)
    <3>1. dialog' \in Dialogs /\ UNCHANGED <<taps, errors, recommended>>
      BY <1>7, <2>5 DEF SetState, Dialogs
    <3>2. \/ asked' = asked
          \/ asked' = asked + 1 /\ t \in Starting(ai)
      <4>1. CASE Head(script[t]) # "ai_recommend"
        BY <2>5, <4>1 DEF SetState
      <4>2. CASE Head(script[t]) = "ai_recommend"
        <5>1. handler[t] = ai /\ script[t] = Script(ai)
          BY <2>4, <4>2 DEF Rest, Script, OfMessages, OfButtons
        <5> QED
          BY <2>5, <4>2, <5>1 DEF SetState, Starting
      <4> QED
        BY <4>1, <4>2
    <3> QED
      BY <1>2, <1>3, <1>5, <2>2, <2>3, <3>1, <3>2 DEF Counted
  <2>6. CASE Answer(t)
    <3>1. UNCHANGED <<dialog, taps, errors, asked>>
      BY <2>6 DEF Answer
    <3>2. \/ recommended' = recommended
          \/ recommended' = recommended + 1 /\ t \in Starting(text)
      <4>1. CASE handler[t] # text
        BY <2>6, <4>1 DEF Answer
      <4>2. CASE handler[t] = text
        <5>1. Head(script[t]) = "answer"
          BY <2>6 DEF Answer
        <5>2. script[t] = Script(text)
          BY <2>4, <4>2, <5>1 DEF Rest, Script
        <5> QED
          BY <2>6, <4>2, <5>2 DEF Answer, Starting
      <4> QED
        BY <4>1, <4>2
    <3> QED
      BY <1>2, <1>3, <1>5, <2>2, <2>3, <3>1, <3>2 DEF Counted
  <2> QED
    BY <1>7, <2>5, <2>6
<1>8. ASSUME NEW t \in Tasks, Warn(t) \/ Raise(t)
      PROVE  Standing' /\ Counted'
  <2>1. /\ Moved(t) /\ handler'[t] = "none"
        /\ UNCHANGED <<dialog, taps, asked, recommended, messages>>
        /\ errors' \in 0..MaxErrors
    BY <1>1, <1>2, <1>8, EndStands
  <2>2. t \notin Starting(ai)' /\ t \notin Starting(text)'
    BY <1>4, <2>1, StartingLeft
  <2>3. /\ Cardinality(Starting(ai)') <= Cardinality(Starting(ai))
        /\ Cardinality(Starting(text)') <= Cardinality(Starting(text))
    BY <1>1, <2>1, <2>2, StartingMoves
  <2> QED
    BY <1>2, <1>3, <1>5, <2>1, <2>3 DEF Counted
<1>9. ASSUME UNCHANGED <<handler, script, taps, errors, asked, recommended, messages>>,
             \A u \in Tasks : Stands(handler[u], script[u], task'[u]), dialog' \in Dialogs
      PROVE  Standing' /\ Counted'
  <2>1. Starting(ai)' = Starting(ai) /\ Starting(text)' = Starting(text)
    BY <1>9 DEF Starting
  <2>2. Standing'
    BY <1>1, <1>9 DEF Standing
  <2> QED
    BY <1>3, <1>9, <2>1, <2>2 DEF Counted
<1>10. CASE DialogExpires
  <2>1. Standing' /\ Counted'
    BY <1>2, <1>9, <1>10 DEF DialogExpires, vars, Dialogs
  <2> QED
    BY <1>1, <2>1 DEF BInv
<1>11. CASE Limit
  <2>1. Standing' /\ Counted'
    BY <1>1, <1>2, <1>9, <1>11, LimitStands DEF botVars
  <2> QED
    BY <1>1, <2>1 DEF BInv
<1>12. CASE UNCHANGED <<vars, botVars>>
  <2>1. Standing' /\ Counted'
    BY <1>2, <1>9, <1>12 DEF vars, botVars
  <2> QED
    BY <1>1, <2>1 DEF BInv
<1> QED
  <2>1. CASE \E t \in Tasks : \/ \E kind \in Kinds : Receive(t, kind)
                              \/ \E h \in OfButtons : Tap(t, h)
    BY <1>1, <1>6, <2>1 DEF BInv
  <2>2. CASE \E t \in Tasks : SetState(t) \/ Answer(t)
    BY <1>1, <1>7, <2>2 DEF BInv
  <2>3. CASE \E t \in Tasks : Warn(t) \/ Raise(t)
    BY <1>1, <1>8, <2>3 DEF BInv
  <2> QED
    BY <1>10, <1>11, <1>12, <2>1, <2>2, <2>3 DEF BotNext, OfButtons

\* The limiter knows of a handler exactly while it runs, every handler is
\* somewhere in its script, and the user gets no more recommendations than
\* messages are sent.
THEOREM BotTypeCorrect == BotSpec => []BotTypeOK
<1>1. BInv => BotTypeOK
  <2> SUFFICES ASSUME BInv PROVE BotTypeOK
    OBVIOUS
  <2>1. /\ TypeOK /\ Standing /\ Counted
        /\ Cardinality(Starting("process_ai_recommend")) \in Nat
        /\ Cardinality(Starting("handle_ai_text")) \in Nat
    BY StartingSize DEF BInv
  <2>2. asked \in 0..MaxTaps /\ recommended \in 0..MaxMessages
    BY <2>1, BotAssumption, RateLimiterAssumption DEF TypeOK, Standing, Counted
  <2>3. ASSUME NEW t \in Tasks
        PROVE  /\ script[t] \in {<<>>} \cup {<<e>> : e \in Effects}
                                   \cup {<<e, f>> : e \in Effects, f \in Effects}
               /\ script[t] = <<>> <=> handler[t] = "none"
               /\ task[t] # "idle" => handler[t] # "none"
    <3>1. Stands(handler[t], script[t], task[t])
      BY <2>1 DEF Standing
    <3>2. CASE handler[t] = "none"
      BY <3>1, <3>2 DEF Stands, OfMessages
    <3>3. CASE handler[t] # "none"
      BY <3>1, <3>3, RestType DEF Stands
    <3> QED
      BY <3>2, <3>3
  <2> QED
    BY <2>1, <2>2, <2>3 DEF BotTypeOK, Standing
<1> QED
  BY InitBInv, NextBInv, <1>1, PTL DEF BotSpec

-----------------------------------------------------------------------------
(* One update of the user at a time.  While the dialog waits for a text,   *)
(* or the handler of that text has not sent its answer, one recommendation *)
(* is owed.                                                                *)

Midway(t) == handler[t] = "handle_ai_text" /\ script[t] # Script("handle_ai_text")

Owed ==
  /\ \A t \in Tasks : handler[t] = "handle_text" => dialog # "ai_recommend"
  /\ errors = 0 =>
       /\ recommended <= asked
       /\ Starting("handle_ai_text") # {} => recommended < asked
       /\ dialog = "ai_recommend" /\ (\A t \in Tasks : ~Midway(t)) => recommended < asked

LEMMA NextOwed ==
  ASSUME BInv, Owed, Cardinality(Running) <= 1, Cardinality(Running') <= 1,
         [BotNext]_<<vars, botVars>>
  PROVE  Owed'
<1>1. TypeOK /\ Standing
  BY DEF BInv
<1>2. /\ asked \in Nat /\ recommended \in Nat /\ errors \in Nat
      /\ \A t \in Tasks : Stands(handler[t], script[t], task[t])
  BY <1>1, BotAssumption DEF Standing
<1>3. ASSUME NEW t \in Tasks, NEW u \in Tasks
      PROVE  /\ handler[t] # "none" /\ handler[u] # "none" => t = u
             /\ handler'[t] # "none" /\ handler'[u] # "none" => t = u
  <2>1. IsFiniteSet(Running) /\ IsFiniteSet(Running')
    BY RateLimiterAssumption, FS_Subset DEF Running
  <2> QED
    BY <2>1, OnlyOne DEF Running
<1>4. ASSUME NEW t \in Tasks, Moved(t)
      PROVE  \A u \in Tasks \ {t} :
                handler'[u] = handler[u] /\ script'[u] = script[u] /\ (Midway(u)' <=> Midway(u))
  BY <1>1, <1>4 DEF Moved, Standing, Midway
\* The update that arrives is alone: no other handler runs.
<1>5. ASSUME NEW t \in Tasks,
             \/ \E kind \in Kinds : Receive(t, kind)
             \/ \E h \in OfButtons : Tap(t, h)
      PROVE  Owed'
  <2>1. /\ Moved(t) /\ handler[t] = "none" /\ script'[t] = Script(handler'[t])
        /\ handler'[t] # "none"
        /\ UNCHANGED <<dialog, errors, asked, recommended>>
    BY <1>1, <1>5, ArrivalStands DEF OfMessages, OfButtons
  <2>2. \A u \in Tasks \ {t} : handler'[u] = "none"
    BY <1>3, <2>1
  <2>3. \A u \in Tasks : ~Midway(u) /\ ~Midway(u)'
    BY <1>4, <2>1, <2>2 DEF Midway
  <2>4. /\ handler'[t] = "handle_text" => dialog # "ai_recommend"
        /\ handler'[t] = "handle_ai_text" => dialog = "ai_recommend"
    <3>1. CASE \E h \in OfButtons : Tap(t, h)
      <4>1. handler'[t] \in OfButtons
        BY <1>1, <3>1 DEF Tap, Run, Standing
      <4> QED
        BY <4>1 DEF OfButtons
    <3>2. ASSUME NEW kind \in Kinds, Receive(t, kind)
          PROVE  /\ handler'[t] = "handle_text" => dialog # "ai_recommend"
                 /\ handler'[t] = "handle_ai_text" => dialog = "ai_recommend"
      <4>1. handler'[t] = HandlerOf(kind)
        BY <1>1, <3>2 DEF Receive, Run, Standing
      <4> QED
        BY <4>1 DEF HandlerOf
    <3> QED
      BY <1>5, <3>1, <3>2
  <2>5. Starting("handle_ai_text")' # {} => handler'[t] = "handle_ai_text"
    BY <2>2 DEF Starting
  <2> QED
    BY <1>2, <2>1, <2>2, <2>3, <2>4, <2>5 DEF Owed
<1>6. ASSUME NEW t \in Tasks, SetState(t) \/ Answer(t)
      PROVE  Owed'
  <2>1. Ready(t) /\ GoOn(t) /\ errors' = errors
    BY <1>6 DEF SetState, Answer
  <2>2. /\ Moved(t) /\ handler[t] # "none" /\ script'[t] # Script(handler[t])
        /\ handler'[t] = "none" \/ handler'[t] = handler[t]
    BY <1>1, <2>1, GoOnStands
  <2>3. /\ \A u \in Tasks \ {t} : handler[u] = "none" /\ handler'[u] = "none"
        /\ \A u \in Tasks \ {t} : ~Midway(u) /\ ~Midway(u)'
    BY <1>3, <1>4, <2>2 DEF Midway
  <2>4. Starting("handle_ai_text")' = {}
    BY <2>2, <2>3 DEF Starting
  <2>5. handler[t] \in OfMessages \cup OfButtons /\ script[t] \in Rest(handler[t])
    BY <1>2, <2>2 DEF Stands
  <2>6. CASE SetState(t)
    <3>1. UNCHANGED recommended
      BY <2>6 DEF SetState
    <3>2. CASE Head(script[t]) = "ai_recommend"
      <4>1. dialog' = "ai_recommend" /\ asked' = asked + 1
        BY <2>6, <3>2 DEF SetState
      <4>2. handler[t] = "process_ai_recommend"
        BY <2>5, <3>2 DEF Rest, OfMessages, OfButtons
      <4> QED
        BY <1>2, <2>1, <2>2, <2>3, <3>1, <4>1, <4>2 DEF Owed
    <3>3. CASE Head(script[t]) # "ai_recommend"
      <4>1. dialog' # "ai_recommend" /\ asked' = asked
        BY <2>6, <3>3 DEF SetState
      <4> QED
        BY <2>1, <2>4, <3>1, <4>1 DEF Owed
    <3> QED
      BY <3>2, <3>3
  <2>7. CASE Answer(t)
    <3>1. UNCHANGED <<dialog, asked>> /\ Head(script[t]) = "answer"
      BY <2>7 DEF Answer
    <3>2. handler'[t] = "handle_text" => dialog' # "ai_recommend"
      BY <2>2, <3>1 DEF Owed
    <3>3. CASE handler[t] = "handle_ai_text"
      <4>1. script[t] = Script("handle_ai_text") /\ Len(Script("handle_ai_text")) = 2
        BY <2>5, <3>1, <3>3 DEF Rest, Script
      <4>2. recommended' = recommended + 1 /\ t \in Starting("handle_ai_text")
        BY <2>7, <3>3, <4>1 DEF Answer, Starting
      <4>3. Midway(t)'
        <5>1. handler' = [handler EXCEPT ![t] = handler[t]]
          <6>1. ~Last(t)
            BY <4>1 DEF Last
          <6>2. handler' = [handler EXCEPT ![t] = IF Last(t) THEN "none" ELSE handler[t]]
            BY <2>1 DEF GoOn, Run
          <6> QED
            BY <6>1, <6>2
        <5>2. handler'[t] = "handle_ai_text"
          BY <1>1, <3>3, <5>1 DEF Standing
        <5> QED
          BY <2>2, <3>3, <5>2 DEF Midway
      <4> QED
        BY <1>2, <2>1, <2>3, <2>4, <3>1, <3>2, <4>2, <4>3 DEF Owed
    <3>4. CASE handler[t] # "handle_ai_text"
      <4>1. recommended' = recommended /\ \A u \in Tasks : ~Midway(u)
        BY <2>3, <2>7, <3>4 DEF Answer, Midway
      <4> QED
        BY <2>1, <2>3, <2>4, <3>1, <3>2, <4>1 DEF Owed
    <3> QED
      BY <3>3, <3>4
  <2> QED
    BY <1>6, <2>6, <2>7
\* A handler that is warned off has sent nothing.
<1>7. ASSUME NEW t \in Tasks, Warn(t) \/ Raise(t)
      PROVE  Owed'
  <2>1. /\ Moved(t) /\ handler[t] # "none" /\ handler'[t] = "none"
        /\ UNCHANGED <<dialog, asked, recommended>>
        /\ \/ errors' = errors /\ task[t] = "denied"
           \/ errors' = errors + 1
    BY <1>1, <1>7, EndStands
  <2>2. \A u \in Tasks : handler'[u] = "none"
    BY <1>3, <1>4, <2>1
  <2>3. Starting("handle_ai_text")' = {}
    BY <2>2 DEF Starting
  <2>4. CASE errors' = errors + 1
    BY <1>2, <2>2, <2>4 DEF Owed
  <2>5. CASE errors' = errors /\ task[t] = "denied"
    <3>1. ~Midway(t)
      BY <1>2, <2>5 DEF Stands, Midway
    <3>2. \A u \in Tasks : ~Midway(u)
      BY <1>3, <2>1, <3>1 DEF Midway
    <3> QED
      BY <2>1, <2>2, <2>3, <2>5, <3>2 DEF Owed
  <2> QED
    BY <2>1, <2>4, <2>5
<1>8. ASSUME UNCHANGED <<handler, script, errors, asked, recommended>>,
             dialog' \in {dialog, "none"}
      PROVE  Owed'
  <2>1. Starting("handle_ai_text")' = Starting("handle_ai_text")
    BY <1>8 DEF Starting
  <2>2. \A u \in Tasks : Midway(u)' <=> Midway(u)
    BY <1>8 DEF Midway
  <2> QED
    BY <1>8, <2>1, <2>2 DEF Owed
<1>9. CASE DialogExpires
  BY <1>8, <1>9 DEF DialogExpires
<1>10. CASE Limit \/ UNCHANGED <<vars, botVars>>
  BY <1>8, <1>10 DEF Limit, botVars
<1> QED
  BY <1>5, <1>6, <1>7, <1>9, <1>10 DEF BotNext, OfButtons

\* As long as one update of the user is handled at a time small talk does not
\* end the dialog, and no press of the button is answered twice.
THEOREM SerialDialogKept == BotSpec => DialogKeptIfSerial
<1> DEFINE Serial == Cardinality(Running) <= 1
           Kept == DialogSurvivesSmallTalk /\ OneRecommendationPerTap
<1>1. BotInit => Owed
  BY DEF BotInit, Owed, Starting, Script
<1>2. BInv /\ Owed /\ Serial /\ Serial' /\ [BotNext]_<<vars, botVars>> => Owed'
  BY NextOwed
<1>3. Owed => Kept
  BY DEF Owed, DialogSurvivesSmallTalk, OneRecommendationPerTap
<1> HIDE DEF Serial, Kept
<1>4. BotSpec /\ []Serial => []Kept
  BY InitBInv, NextBInv, <1>1, <1>2, <1>3, PTL DEF BotSpec
<1> QED
  BY <1>4, PTL DEF DialogKeptIfSerial, Serial, Kept
=============================================================================
