------------------------------ MODULE Sessions ------------------------------
(***************************************************************************)
(* The sessions of the admin panel: login, refresh and logout of           *)
(* apps/admin_api/routes/auth.py, the tokens and the revocation list of    *)
(* shared/jwt_utils.py, and tenant_context_middleware, which asks the list *)
(* before it lets a request in.                                            *)
(*                                                                         *)
(* A token names its end in whole seconds, Redis drops an entry of the     *)
(* list at an instant: the clock counts half seconds, so that the two need *)
(* not fall together.  Access and refresh tokens are of one kind, which    *)
(* only their ends tell apart: the code never asks which one it was given. *)
(* A request with a token that is not accepted changes nothing and is left *)
(* out.                                                                    *)
(***************************************************************************)
EXTENDS Integers, FiniteSets

CONSTANTS
    Tokens, Tasks, NoToken,
    AccessTtl,      \* JWT_EXPIRATION_MINUTES, in seconds
    RefreshTtl,     \* REFRESH_TTL_SECONDS
    Horizon,        \* bound: last half second
    MaxRequests,    \* bound: requests with a token
    MaxFailures     \* bound: lost connections, to the database or to Redis

ASSUME SessionsAssumption ==
    /\ NoToken \notin Tokens
    /\ IsFiniteSet(Tokens) /\ IsFiniteSet(Tasks)
    /\ AccessTtl \in Nat \ {0} /\ RefreshTtl \in Nat \ {0}
    /\ Horizon \in Nat /\ MaxRequests \in Nat /\ MaxFailures \in Nat

VARIABLES
    clock,      \* half seconds
    exp,        \* the second a token ends; 0 if no client has it
    key,        \* the clock at which Redis drops jwt:revoked:<jti>; 0 if never set
    handed,     \* revocations that Redis answered: token, and where it was
                \* sent; a refusal, with nothing left to revoke, included
    audit,      \* tokens whose logout has a committed audit row
    task,       \* local state of each request handler
    requests, failures

vars == <<clock, exp, key, handed, audit, task, requests, failures>>

Steps == {"idle", "check", "handler", "own", "second", "body", "commit"}
Kinds == {"request", "logout"}
Places == {"own", "body"}

Idle == [pc |-> "idle", kind |-> "request", token |-> NoToken, body |-> NoToken,
         secs |-> 0, row |-> FALSE]

Init ==
    /\ clock = 0
    /\ exp = [k \in Tokens |-> 0]
    /\ key = [k \in Tokens |-> 0]
    /\ handed = {}
    /\ audit = {}
    /\ task = [t \in Tasks |-> Idle]
    /\ requests = 0
    /\ failures = 0

-----------------------------------------------------------------------------
Now == clock \div 2

\* jwt.decode compares whole seconds: a token lives through its last one.
Accepted(k) == exp[k] # 0 /\ Now <= exp[k]

\* is_revoked, when Redis answers.
Listed(k) == clock < key[k]

SecondsLeftLess(k) ==                                               \* mutant
    IF 2 * exp[k] - 2 > clock THEN (2 * exp[k] - 2 - clock) \div 2 ELSE 0

\* max(int((payload.exp - now).total_seconds()), 0)
SecondsLeft(k) == IF 2 * exp[k] > clock THEN (2 * exp[k] - clock) \div 2 ELSE 0

Go(t, pc) == task' = [task EXCEPT ![t].pc = pc]

Lose ==
    /\ failures < MaxFailures
    /\ failures' = failures + 1

Tick ==
    /\ clock < Horizon
    /\ clock' = clock + 1
    /\ UNCHANGED <<exp, key, handed, audit, task, requests, failures>>

-----------------------------------------------------------------------------
(* Tokens.  What these handlers do before and after they make the tokens   *)
(* reads and writes nothing the others do, but for an audit row.  Each    *)
(* hands out a pair; a step follows one token of it, and two steps at one  *)
(* time both.                                                              *)

\* create_access_token and create_refresh_token.
Issue ==
    /\ \E k \in Tokens, ttl \in {AccessTtl, RefreshTtl} :
          /\ exp[k] = 0
          /\ exp' = [exp EXCEPT ![k] = Now + ttl]
    /\ UNCHANGED <<clock, key, handed, audit, task, requests, failures>>

Login == Issue

\* refresh looks at the end of the token it is given and not at the list,
\* and leaves that token as it is.
RefreshToken(k) == Accepted(k) /\ Issue

-----------------------------------------------------------------------------
(* A request behind the middleware.                                        *)

Enter(t, kind, k, body) ==
    /\ task[t].pc = "idle"
    /\ Accepted(k)
    /\ task' = [task EXCEPT ![t] = [Idle EXCEPT !.pc = "check", !.kind = kind,
                                                !.token = k, !.body = body]]
    /\ requests < MaxRequests
    /\ requests' = requests + 1
    /\ UNCHANGED <<clock, exp, key, handed, audit, failures>>

\* Any request but logout: it has no part in what follows.
Request(t, k) == Enter(t, "request", k, NoToken)

Logout(t, k, body) ==
    /\ body # NoToken => exp[body] # 0
    /\ Enter(t, "logout", k, body)

\* The list refuses the token, or Redis fails, which counts as not listed.
CheckRevoked(t) ==
    /\ task[t].pc = "check"
    /\ UNCHANGED <<clock, exp, key, handed, audit, requests>>
    /\ \/ /\ Listed(task[t].token)
          /\ task' = [task EXCEPT ![t] = Idle]
          /\ UNCHANGED failures
       \/ /\ ~Listed(task[t].token)
          /\ Go(t, "handler")
          /\ UNCHANGED failures
       \/ /\ Lose
          /\ Go(t, "handler")

Serve(t) ==
    /\ task[t].pc = "handler"
    /\ task[t].kind = "request"
    /\ task' = [task EXCEPT ![t] = Idle]
    /\ UNCHANGED <<clock, exp, key, handed, audit, requests, failures>>

-----------------------------------------------------------------------------
(* logout                                                                  *)

\* The token of the request is verified again and its remaining time taken.
TakeOwn(t) ==
    /\ task[t].pc = "handler"
    /\ task[t].kind = "logout"
    /\ IF Accepted(task[t].token)
       THEN task' = [task EXCEPT ![t].pc = "own", ![t].secs = SecondsLeft(task[t].token)]
       ELSE Go(t, "second")
    /\ UNCHANGED <<clock, exp, key, handed, audit, requests, failures>>

\* The same for the token in the body, if there is one.
TakeBody(t) ==
    /\ task[t].pc = "second"
    /\ IF task[t].body # NoToken /\ Accepted(task[t].body)
       THEN task' = [task EXCEPT ![t].pc = "body", ![t].secs = SecondsLeft(task[t].body)]
       ELSE Go(t, "commit")
    /\ UNCHANGED <<clock, exp, key, handed, audit, requests, failures>>

\* revoke_token: SETEX, of which Redis refuses a time of 0 (the entry would
\* have expired at once), or nothing at all if the call is lost; in any case
\* the handler goes on.
SetEx(t, k, place) ==
    \/ /\ key' = IF task[t].secs = 0 THEN key
                 ELSE [key EXCEPT ![k] = clock + 2 * task[t].secs]
       /\ handed' = handed \cup {<<k, place>>}
       /\ UNCHANGED failures
    \/ /\ Lose
       /\ UNCHANGED <<key, handed>>

\* The audit row is added to the transaction whatever became of the call.
RevokeOwn(t) ==
    /\ task[t].pc = "own"
    /\ SetEx(t, task[t].token, "own")
    /\ task' = [task EXCEPT ![t].pc = "second", ![t].row = TRUE]
    /\ UNCHANGED <<clock, exp, audit, requests>>

RevokeBody(t) ==
    /\ task[t].pc = "body"
    /\ SetEx(t, task[t].body, "body")
    /\ Go(t, "commit")
    /\ UNCHANGED <<clock, exp, audit, requests>>

LoggedEarly(t) == audit                                             \* mutant

Logged(t) == IF task[t].row THEN audit \cup {task[t].token} ELSE audit

\* The middleware's COMMIT.
Commit(t) ==
    /\ task[t].pc = "commit"
    /\ audit' = Logged(t)
    /\ task' = [task EXCEPT ![t] = Idle]
    /\ UNCHANGED <<clock, exp, key, handed, requests, failures>>

\* An exception or a lost database: the row is rolled back, the list is not.
Fail(t) ==
    /\ task[t].pc # "idle"
    /\ Lose
    /\ task' = [task EXCEPT ![t] = Idle]
    /\ UNCHANGED <<clock, exp, key, handed, audit, requests>>

-----------------------------------------------------------------------------
HandlerStep(t) ==
    \/ CheckRevoked(t)
    \/ Serve(t)
    \/ TakeOwn(t)
    \/ RevokeOwn(t)
    \/ TakeBody(t)
    \/ RevokeBody(t)
    \/ Commit(t)

Receive(t) ==
    \E k \in Tokens :
        \/ Request(t, k)
        \/ \E body \in Tokens \cup {NoToken} : Logout(t, k, body)

Next ==
    \/ Tick
    \/ Login
    \/ \E k \in Tokens : RefreshToken(k)
    \/ \E t \in Tasks : Receive(t) \/ HandlerStep(t) \/ Fail(t)

Spec == Init /\ [][Next]_vars

-----------------------------------------------------------------------------
(* Properties                                                              *)

Local == [pc: Steps, kind: Kinds, token: Tokens \cup {NoToken},
          body: Tokens \cup {NoToken}, secs: Nat, row: BOOLEAN]

TypeOK ==
    /\ clock \in 0..Horizon
    /\ exp \in [Tokens -> Nat]
    /\ key \in [Tokens -> Nat]
    /\ handed \subseteq Tokens \X Places
    /\ audit \subseteq Tokens
    /\ task \in [Tasks -> Local]
    /\ requests \in 0..MaxRequests
    /\ failures \in 0..MaxFailures

Revoked(k) == \E place \in Places : <<k, place>> \in handed

\* The entry of a revoked token outlasts all but the last two seconds in
\* which the token is accepted, although the time it is given is taken before
\* the call and cut to whole seconds, and although another logout may set it
\* again.
RevocationLasts ==
    \A k \in Tokens : Revoked(k) /\ clock <= 2 * exp[k] - 2 => Listed(k)

\* So the middleware lets a request with a revoked token in, before these
\* seconds, only if Redis does not answer it.
LetsIn(t) == task[t].pc = "check" /\ task'[t].pc = "handler"

RevokedIsRefused ==
    [][\A t \in Tasks :
          /\ LetsIn(t)
          /\ Revoked(task[t].token)
          /\ clock <= 2 * exp[task[t].token] - 2
          => failures' > failures]_vars

\* The list and the audit log are written one after the other, and only the
\* log is in the transaction.  But for the logouts under way they differ by
\* no more tokens than there were failures.
Own == {k \in Tokens : <<k, "own">> \in handed}
Leaving == {k \in Tokens : \E t \in Tasks : task[t].row /\ task[t].token = k}
Untold == (Own \ audit) \cup (audit \ Own)

TrailBounded == Cardinality(Untold \ Leaving) <= failures

(* What one could expect and the code does not keep.                       *)

\* A revoked token is refused for as long as it would have been accepted.
RevokedToTheEnd == \A k \in Tokens : Revoked(k) /\ Accepted(k) => Listed(k)

\* A refresh token that was revoked yields no more tokens.
RevokedYieldsNothing ==
    [][\A k \in Tokens : Revoked(k) => ~RefreshToken(k)]_vars
=============================================================================
