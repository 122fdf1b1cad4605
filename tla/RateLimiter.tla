---------------------------- MODULE RateLimiter -----------------------------
(***************************************************************************)
(* RateLimiter.is_allowed of shared/rate_limiter.py, called by every       *)
(* message handler of bot/main.py, for one user.  The dispatcher runs each *)
(* update in a coroutine of its own, and is_allowed is a GET followed by a *)
(* SETEX or an INCR: three commands that Redis runs one at a time, between *)
(* which other handlers run and the key may expire.  A handler that has    *)
(* its answer goes on in module Bot until it returns.                      *)
(***************************************************************************)
EXTENDS Naturals, FiniteSets

CONSTANTS
    Tasks,
    limit,          \* RateLimiter.limit
    MaxMessages,    \* bound: messages the user sends
    MaxFailures     \* bound: commands that Redis fails

ASSUME RateLimiterAssumption ==
    /\ IsFiniteSet(Tasks)
    /\ limit \in Nat \ {0}
    /\ MaxMessages \in Nat /\ MaxFailures \in Nat

VARIABLES
    key,        \* the counter in Redis; 0 when the key is absent
    ttl,        \* the key has an expiry
    task,       \* where each handler stands
    granted,    \* messages let through since the key was last absent
    messages, failures

vars == <<key, ttl, task, granted, messages, failures>>

Steps == {"idle", "get", "setex", "incr", "allowed", "denied"}

Init ==
    /\ key = 0
    /\ ttl = FALSE
    /\ task = [t \in Tasks |-> "idle"]
    /\ granted = 0
    /\ messages = 0
    /\ failures = 0

-----------------------------------------------------------------------------
At(t, step) == task[t] = step

Message(t) ==
    /\ At(t, "idle")
    /\ messages < MaxMessages
    /\ messages' = messages + 1
    /\ task' = [task EXCEPT ![t] = "get"]
    /\ UNCHANGED <<key, ttl, granted, failures>>

OneMore(count) == count <= limit                                    \* mutant

WithinLimit(count) == count < limit

\* GET, and the branch it decides.
Get(t) ==
    /\ At(t, "get")
    /\ task' = [task EXCEPT ![t] =
          IF key = 0 THEN "setex" ELSE IF WithinLimit(key) THEN "incr" ELSE "denied"]
    /\ UNCHANGED <<key, ttl, granted, messages, failures>>

Pass(t) ==
    /\ task' = [task EXCEPT ![t] = "allowed"]
    /\ granted' = IF key = 0 THEN 1 ELSE granted + 1

\* SETEX overwrites what others have counted since the GET.
SetEx(t) ==
    /\ At(t, "setex")
    /\ key' = 1
    /\ ttl' = TRUE
    /\ Pass(t)
    /\ UNCHANGED <<messages, failures>>

\* INCR of a key that has expired makes a new one that never expires.
Incr(t) ==
    /\ At(t, "incr")
    /\ key' = key + 1
    /\ ttl' = (key # 0 /\ ttl)
    /\ Pass(t)
    /\ UNCHANGED <<messages, failures>>

\* Redis fails the command: the limiter lets the message through.
FailOpen(t) ==
    /\ task[t] \in {"get", "setex", "incr"}
    /\ failures < MaxFailures
    /\ failures' = failures + 1
    /\ Pass(t)
    /\ UNCHANGED <<key, ttl, messages>>

\* The handler that asked ends.
Return(t) ==
    /\ task[t] \in {"allowed", "denied"}
    /\ task' = [task EXCEPT ![t] = "idle"]
    /\ UNCHANGED <<key, ttl, granted, messages, failures>>

\* The window ends.
Expire ==
    /\ key # 0
    /\ ttl
    /\ key' = 0
    /\ ttl' = FALSE
    /\ granted' = 0
    /\ UNCHANGED <<task, messages, failures>>

Command(t) == Get(t) \/ SetEx(t) \/ Incr(t)

Next ==
    \/ \E t \in Tasks : Message(t) \/ Command(t) \/ FailOpen(t) \/ Return(t)
    \/ Expire

Spec == Init /\ [][Next]_vars

\* Redis answers, and the time to live of a key runs out.
FairSpec ==
    /\ Spec
    /\ WF_vars(Expire)
    /\ \A t \in Tasks : WF_vars(Command(t) \/ Return(t))

-----------------------------------------------------------------------------
(* Properties                                                              *)

TypeOK ==
    /\ key \in Nat
    /\ ttl \in BOOLEAN
    /\ key = 0 => ~ttl
    /\ task \in [Tasks -> Steps]
    /\ granted \in Nat
    /\ messages \in 0..MaxMessages
    /\ failures \in 0..MaxFailures

\* Handlers that raced past the comparison push the counter over the limit
\* by one less than there are handlers, never further.
CounterBounded == key <= limit - 1 + Cardinality(Tasks)

\* A window lets through at most limit messages.
WindowKeepsLimit == failures = 0 => granted <= limit

AtWork == {t \in Tasks : task[t] # "idle"}

\* As long as a user's messages are handled one at a time no window lets
\* through more, even if the key expires between two commands of a handler.
LimitKeptIfSerial == [](Cardinality(AtWork) <= 1) => []WindowKeepsLimit

\* A window ends: no user stays limited for ever.
WindowEnds == (key # 0) ~> (key = 0)
=============================================================================
