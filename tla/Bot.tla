--------------------------------- MODULE Bot ---------------------------------
(***************************************************************************)
(* The handlers of bot/main.py, for one user.  The dispatcher reads the    *)
(* state of the user's dialog from Redis, chooses a handler and runs it in *)
(* a coroutine of its own; a handler of a message asks the rate limiter    *)
(* first.  What a handler does next is a script of effects, between which  *)
(* other handlers of the same user run.                                    *)
(*                                                                         *)
(* A button that no handler answers ("my_orders", "order_delivery",        *)
(* "order_pickup", "order_dinein", "cancel_delete") changes nothing and is *)
(* no step here; neither is an update the dispatcher cannot read a state   *)
(* for.                                                                    *)
(***************************************************************************)
EXTENDS RateLimiter, Sequences

CONSTANTS
    MaxTaps,        \* bound: buttons the user presses
    MaxErrors       \* bound: calls to Telegram or to the storage that raise

ASSUME BotAssumption == MaxTaps \in Nat /\ MaxErrors \in Nat

VARIABLES
    dialog,         \* the user's state in RedisStorage
    handler,        \* the handler each coroutine runs
    script,         \* what is left of it
    taps, errors,
    asked,          \* times the dialog was set to ai_recommend
    recommended     \* recommendations sent

botVars == <<dialog, handler, script, taps, errors, asked, recommended>>

\* UserFlow; order_address and order_phone are states nothing sets.
Dialogs == {"none", "ai_recommend", "order_type"}

\* Kinds of message: /start and /help; /order; the commands that only
\* answer; any other text.
Kinds == {"restart", "order", "info", "text"}

ScriptNeverClears(h) ==                                             \* mutant
    CASE h \in {"cmd_start", "handle_text"} -> <<"clear", "answer">>
      [] h = "cmd_order" -> <<"order_type", "answer">>
      [] h = "process_ai_recommend" -> <<"ai_recommend", "answer">>
      [] OTHER -> <<"answer">>

Script(h) ==
    CASE h \in {"cmd_start", "handle_text"} -> <<"clear", "answer">>
      [] h = "cmd_order" -> <<"order_type", "answer">>
      [] h = "process_ai_recommend" -> <<"ai_recommend", "answer">>
      [] h = "handle_ai_text" -> <<"answer", "clear">>
      [] OTHER -> <<"answer">>

Handlers == {"none", "cmd_start", "cmd_order", "cmd_info", "handle_ai_text",
             "handle_text", "process_ai_recommend", "process_delete_account"}

\* Handlers are tried in the order they are registered: commands, then the
\* text of a dialog, then any text.
HandlerOf(kind) ==
    CASE kind = "restart" -> "cmd_start"
      [] kind = "order" -> "cmd_order"
      [] kind = "info" -> "cmd_info"
      [] dialog = "ai_recommend" -> "handle_ai_text"
      [] OTHER -> "handle_text"

BotInit ==
    /\ Init
    /\ dialog = "none"
    /\ handler = [t \in Tasks |-> "none"]
    /\ script = [t \in Tasks |-> <<>>]
    /\ taps = 0
    /\ errors = 0
    /\ asked = 0
    /\ recommended = 0

-----------------------------------------------------------------------------
Run(t, h, s) ==
    /\ handler' = [handler EXCEPT ![t] = h]
    /\ script' = [script EXCEPT ![t] = s]

\* A message arrives.
Receive(t, kind) ==
    /\ handler[t] = "none"
    /\ Message(t)
    /\ Run(t, HandlerOf(kind), Script(HandlerOf(kind)))
    /\ UNCHANGED <<dialog, taps, errors, asked, recommended>>

\* A button is pressed: its handler does not ask the limiter.
Tap(t, h) ==
    /\ handler[t] = "none"
    /\ taps < MaxTaps
    /\ taps' = taps + 1
    /\ Run(t, h, Script(h))
    /\ UNCHANGED <<vars, dialog, errors, asked, recommended>>

\* A handler that must ask the limiter goes on when it is allowed to.
Ready(t) ==
    /\ script[t] # <<>>
    /\ handler[t] \in {"process_ai_recommend", "process_delete_account"}
          \/ task[t] = "allowed"

Last(t) == Len(script[t]) = 1

\* The end of a handler's next effect, and of the handler if it is the last.
GoOn(t) ==
    /\ Run(t, IF Last(t) THEN "none" ELSE handler[t], Tail(script[t]))
    /\ IF Last(t) /\ task[t] = "allowed" THEN Return(t) ELSE UNCHANGED vars

SetState(t) ==
    /\ Ready(t)
    /\ Head(script[t]) \in {"ai_recommend", "order_type", "clear"}
    /\ dialog' = IF Head(script[t]) = "clear" THEN "none" ELSE Head(script[t])
    /\ asked' = IF Head(script[t]) = "ai_recommend" THEN asked + 1 ELSE asked
    /\ GoOn(t)
    /\ UNCHANGED <<taps, errors, recommended>>

Answer(t) ==
    /\ Ready(t)
    /\ Head(script[t]) = "answer"
    /\ recommended' = IF handler[t] = "handle_ai_text" THEN recommended + 1 ELSE recommended
    /\ GoOn(t)
    /\ UNCHANGED <<dialog, taps, errors, asked>>

\* _check_rate_limit: too many messages; remaining() is read and reported.
Warn(t) ==
    /\ task[t] = "denied"
    /\ Run(t, "none", <<>>)
    /\ Return(t)
    /\ UNCHANGED <<dialog, taps, errors, asked, recommended>>

\* A call raises: handle_error apologises and the rest is not run.
Raise(t) ==
    /\ Ready(t)
    /\ errors < MaxErrors
    /\ errors' = errors + 1
    /\ Run(t, "none", <<>>)
    /\ IF task[t] = "allowed" THEN Return(t) ELSE UNCHANGED vars
    /\ UNCHANGED <<dialog, taps, asked, recommended>>

\* state_ttl passes.
DialogExpires ==
    /\ dialog # "none"
    /\ dialog' = "none"
    /\ UNCHANGED <<vars, handler, script, taps, errors, asked, recommended>>

Limit ==
    /\ \/ \E t \in Tasks : Command(t) \/ FailOpen(t)
       \/ Expire
    /\ UNCHANGED botVars

BotNext ==
    \/ \E t \in Tasks :
          \/ \E kind \in Kinds : Receive(t, kind)
          \/ \E h \in {"process_ai_recommend", "process_delete_account"} : Tap(t, h)
          \/ SetState(t)
          \/ Answer(t)
          \/ Warn(t)
          \/ Raise(t)
    \/ DialogExpires
    \/ Limit

BotSpec == BotInit /\ [][BotNext]_<<vars, botVars>>

-----------------------------------------------------------------------------
(* Properties                                                              *)

Effects == {"ai_recommend", "order_type", "clear", "answer"}

\* Types, and that the limiter knows of a handler exactly while it runs.
BotTypeOK ==
    /\ TypeOK
    /\ dialog \in Dialogs
    /\ handler \in [Tasks -> Handlers]
    /\ \A t \in Tasks :
          /\ script[t] \in {<<>>} \cup {<<e>> : e \in Effects}
                \cup {<<e, f>> : e \in Effects, f \in Effects}
          /\ script[t] = <<>> <=> handler[t] = "none"
          /\ task[t] # "idle" => handler[t] # "none"
    /\ taps \in 0..MaxTaps
    /\ errors \in 0..MaxErrors
    /\ asked \in 0..MaxTaps
    /\ recommended \in 0..MaxMessages

Running == {t \in Tasks : handler[t] # "none"}

\* A text that was taken for small talk does not end the dialog that the
\* user opened with the recommendation button.
DialogSurvivesSmallTalk ==
    \A t \in Tasks :
        handler[t] = "handle_text" /\ Ready(t) /\ Head(script[t]) = "clear"
            => dialog # "ai_recommend"

\* Each press of the button is answered with one recommendation at most,
\* unless a call raised between the recommendation and the reset.
OneRecommendationPerTap == errors = 0 => recommended <= asked

\* Both hold as long as one update of the user is handled at a time, under
\* every order of updates, expiry of the dialog and failure of the limiter.
DialogKeptIfSerial ==
    [](Cardinality(Running) <= 1) => [](DialogSurvivesSmallTalk /\ OneRecommendationPerTap)
=============================================================================
