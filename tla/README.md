# RestoBot: TLA+ models, checks and proofs

RestoBot is a restaurant back end in Python: a Telegram bot, a JSON API for the
bot, an admin API, a widget for guests, a payment worker and an AI
recommendation engine, on PostgreSQL (one schema per restaurant, `tenant_<id>`,
and one called `shared`) and Redis. This directory holds TLA+ models of its
stateful parts, the TLC instances that check them and TLAPS proofs about them.
Paths below are relative to the repository; definitions of the models keep the
names of the code they stand for, and PROJECT.json maps each to its lines.

## 1. Inventory

| Component (source) | State | Operations | Hard part |
|---|---|---|---|
| Payment worker (`payments/worker.py`, `api/routes/payments.py`) | `orders` rows, loyalty points, YooKassa's payments | `process_payment`, `handle_webhook`, `poll_payment_status` | notifications lost, repeated and concurrent; crash between statements; row locks |
| Order intake (`api/routes/orders.py`, `api/routes/ingredients.py`) | ingredient stock, orders, points, idempotency keys | `create_order`, `stock_incoming` | check-then-act on stock; deadlock; client retry |
| Reservations (`api/routes/bookings.py`) | `reservations` rows | `create_reservation` | check-then-act |
| Orders of admin panel and widget (`backend/orders/service.py`, `apps/admin_api`, `apps/public_api`) | order status, `order_events`, audit log, guest sessions, Redis channel | status change, manual order, widget order, guest session | transaction spans the request; publication before COMMIT; stale read of the status |
| Onboarding (`apps/admin_api/routes/onboarding.py`, `backend/auth/bootstrap.py`) | tenants, schemas, tables, role catalog, owners | `onboarding_start` | two connections; unique indexes decide races; partial failure |
| Rate limiter (`shared/rate_limiter.py`) | one Redis key per user | `is_allowed`, `remaining` | GET / SETEX / INCR are three commands; expiry; fail open |
| Bot (`bot/main.py`) | dialog state in Redis | ten message handlers, two button handlers | updates of one user run concurrently |
| AI engine (`ai/rag_engine.py`, `shared/redis_client.py`) | circuit breaker, IAM token, embedding cache | `recommend` | retries, timeouts, coroutines that share the breaker |
| Start-up (`shared/database.py`, `backend/bootstrap/shared_seed.py`) | shared schema, plans, raw pool | `init_database`, `seed_shared_data`, `close_raw_pool` | several services start together and restart |
| Sessions (`apps/admin_api/routes/auth.py`, `shared/jwt_utils.py`, `apps/admin_api/middleware.py`) | tokens, revocation list in Redis, audit row | login, refresh, logout, the middleware's question | time taken before the call and cut to seconds; list and log in two stores; Redis down counts as not revoked |
| Wizard, settings, menu (`apps/admin_api/routes/onboarding.py`, `settings.py`, `menu.py`) | the tenant's step, tenant settings, menu, audit log, photos | six steps of the wizard, PATCH of the settings, a new dish | steps in any order; rows loaded, compared and written later; unique slugs; storage and channel outside the transaction |
| Dashboard, audit listing (`apps/admin_api/routes`) | - | reads | - |
| Legacy routes (`api/routes/menu.py`, `dashboard.py`, `loyalty.py`, `users.py`) | menu, users | single statements | - |
| Configuration, schemas, migrations, storage, metrics, compliance, scripts | - | - | - |

How they interact. Each HTTP request and each bot update is a coroutine.
Coroutines share no Python state except the circuit breaker, the token and the
global raw pool; everything else they share is in PostgreSQL (READ COMMITTED, row
locks from UPDATE to COMMIT) and Redis (atomic single commands, no
transactions). The bot API and the worker use asyncpg transactions of their own;
the admin and widget APIs use one SQLAlchemy session per request, opened and
committed by a middleware. Subscribers of `tenant:<id>:orders` learn of order
changes through Redis. The payment webhook calls the worker's `handle_webhook`
directly, and so does polling.

What makes each part correct:

* payments: order row and points change together; what is recorded happened at
  the provider; an outcome is final; a charge is recorded in the end; a repetition
  moves no points;
* intake: stock is conserved through rejections and failures; nothing is oversold;
  one order per key; no handler hangs;
* reservations: no table is given twice;
* order life: event log, status and announcements agree (`OrderBoard`); changes follow the
  policy; roles stay within their permissions;
* onboarding: a tenant is complete or absent; every request ends;
* wizard, settings, menu: the step stored is the step told; whoever follows the
  answers ends with settings, a menu and an order; the audit log tells every
  change; nothing is left outside the database without its row;
* sessions: a revoked token stays refused; list and audit log agree;
* limiter and bot: a window lets `limit` messages through; a dialog ends only by
  what belongs to it;
* AI: the breaker counts right, cools down and limits late calls; every guest is
  answered;
* start-up: a service that runs has schema and plans; plans are stored once; all
  services come up.

PROJECT.json lists the hazards line by line with the property that covers each.

## 2. Modules

All modules follow one scheme. A *task* is a coroutine with a program counter; it
takes one step per await at which another coroutine can change what it
uses: SQL statement, Redis command, remote call, COMMIT. A SELECT reads committed
rows; an UPDATE waits for the row's lock and holds it to COMMIT; what a
transaction wrote becomes visible in its commit step only. Deadlock is
PostgreSQL's: a task in a cycle of waits is aborted. `Fail` (`FailStart`,
`FailBooking`) is an exception or a lost connection (the transaction rolls back), `Crash` the end of a process.
A task is called a handler in `Reservations` and a service in `Startup`. Bounds are
constants named `Max...` and appear in guards only.

| Module | Models | Notes |
|---|---|---|
| `Payments` | worker, webhook, polling, YooKassa | points are kept as credits per order, because the code only adds to them in place; `Named` are orders whose items have a name, the others raise in `process_payment`; `Earning` are orders whose `user_id` names a row of users (widget orders have none, panel orders the employee's id), and for the others the UPDATE of users touches no row; `Signed`: the webhook verifies signatures; `PanelSetsStatus` is the panel writing `orders.status` at any time |
| `PaymentContract` | what the worker promises: an outcome per order, moved in one step with the credits of an order that earns somebody points | abstract specification; `Payments!ImplementsContract` is the refinement |
| `OrderIntake` | `create_order`, `_reserve_ingredients`, `stock_incoming` | items and recipes are flattened to lines `[ing, need]` in the order the loops visit them |
| `Reservations` | `create_reservation` | intervals are pairs of times; reversed ones are accepted as in the code |
| `OrderLifecycle` | `backend/orders/service.py` with both middlewares, the routes, guest sessions and the permission matrix | `history` is the event row together with its audit row, `board` what a subscriber believes |
| `OrderBoard` | what the order service promises those who follow its channel: announced before committed, the last announced is the one that is committed, the log begins with the creation, cooks stay in the kitchen | abstract specification; `OrderLifecycle!ImplementsBoard` is the refinement |
| `Onboarding` | `onboarding_start`, `ensure_role_catalog` | name resolution along the search path of two connections is explicit (`Target`, `Resolved`); begins on an empty database or on one that has the tables and the catalog of revision 004 (`Migrated`) |
| `Setup` | the wizard, `patch_settings`, `create_dish` | `overlaps`, `detours` and `edits` count the requests that met another, came out of turn or were none of the wizard's: the properties are stated in them |
| `Sessions` | login, refresh, logout, the revocation list, the middleware's question | the clock counts half seconds, so that a token's end (a whole second) and the end of its entry (an instant) can differ |
| `RateLimiter`, `Bot` | limiter; the handlers as scripts of effects | `Bot` EXTENDS `RateLimiter` and composes its actions with the dialog |
| `Recommender` | `RAGEngine.recommend`, `CircuitBreaker`, `YandexGPTClient` | time is what the code compares it with: cooled down, token valid, cached; `described`: every dish has a description, until a dish without one is stored (`AddUndescribedDish`) and slicing it raises TypeError |
| `Startup` | `init_database`, seed, raw pool, restarts | IF NOT EXISTS collides with a concurrent creator; a service that ends is *down* and restarted, or *stopped* by an operator and not |
| `*Proofs` | theorems (section 4) | `PaymentsProofs`, `OrderIntakeProofs`, `OrderLifecycleProofs`, `SessionsProofs` and `SetupProofs` extend the module of that name, `BotProofs` extends `Bot` and with it `RateLimiter`, `GuestProofs` extends `Recommender` and `Reservations`, `ProvisioningProofs` `Startup` and `Onboarding` |
| `MC*` | instances and definitions for TLC | |

Operators named `... \* mutant` beside a definition are plausible defects of that
definition (a guard dropped, a commit in the wrong place); with the definition
replaced by them the named property fails, which shows that it depends on the code.

## 3. Runs

Eleven runs pass, one shows a violation. Symmetry is used only where the run has
no liveness property (`MCPayments_rows`, `MCSetup_wizard` and `MCSessions_logout`,
where tasks, payments, the orders of one user and tokens are interchangeable).

| Configuration | States | What it shows |
|---|---|---|
| `MCPayments_rows` | 2,599,960 | with a webhook secret. `StatusAgreesWithCredits`: row and points move together under crashes, deadlock and overlap; `StatusIsBacked`: nothing is recorded that the provider did not decide, for this very order |
| `MCPayments_contract` | 36,880 | with a secret and one checkout per order: `ImplementsContract`, by which a settled order stays settled; `ChargeIsRecorded` (liveness); `BonusOnceIfSerial`: the idempotency guard is enough without overlap; `RefundsCounted`: the branch without a guard refunds once for each delivery at most, also if deliveries fail half-way |
| `MCPayments_double_bonus` | violation | `BonusAccruedOnce`: two overlapping deliveries both pass the guard |
| `MCOrderIntake_stock` | 111,536 | `StockConserved`: no rejected or failed order keeps stock, no update is lost; `OversellBounded`: how far the check can be overtaken; `NoOversellIfSerial`; `HandlersFinish` through real deadlocks |
| `MCOrderLifecycle_policy` | 227,658 | `ImplementsBoard`: what is committed was announced, and announced last; `HistoryTellsStatus`: the log tells the status through failures; `BoardConverges`: without failures subscribers know it; `CookStaysInKitchen`; `PolicyHoldsIfSerial` |
| `MCReservations_tables` | 15,997 | `OverbookingBounded`, `NoDoubleBookingIfSerial` |
| `MCBot_window` | 292,627 | `CounterBounded`, `LimitKeptIfSerial`, `DialogKeptIfSerial` |
| `MCOnboarding_start` | 10,247 | `TenantIsComplete`, `StartEnds`; `TypeOK` includes that a place without tables has no rows |
| `MCRecommender_circuit` | 231,164 | `CircuitCounts`, `LateCallsBounded`; `GuestIsAnswered`: with the fallback and while every dish has a description, timeouts never cost the guest the answer; `RecommendEnds`: the part between the calls of Redis ends, and all of it if Redis answers |
| `MCStartup_together` | 69,034 | `PlansComplete`, `PlansBounded`, `SeededOnceIfSerial`, `ServicesStart` |
| `MCSetup_wizard` | 659,070 | `SettingsRowsBounded`, `StepToldIfAlone`, `AuditGapsBounded`, `GuidedWizardLeadsThrough`, `StrandedBounded` |
| `MCSessions_logout` | 3,488,386 | `RevokedIsRefused`: the list refuses a revoked token up to its last two seconds unless Redis is down; `TrailBounded`: list and audit log differ by no more than the failures |

The type invariants of intake, onboarding and wizard are checked by their
runs as well as proved; those of the other modules are proved and not run again.

Properties of the form `...IfSerial` are temporal implications, *if in this
behaviour handlers never overlap, the strong property always holds*: they say that
the code's check is right and that overlap is the only thing that breaks it. The
strong property by itself does not hold; section 6 says so for each. Properties
of the form `...Bounded` say by how much: what is wrong is counted against the
requests that overlapped and the steps that failed.

### Bounds

* Two tasks are enough for a check to be overtaken and for a deadlock, three for
  a waiter behind a waiter (onboarding, start-up).
* Payments: two orders of one user, so that user rows are contended, and one of
  nobody; two payments, so that a second checkout can replace an id; a repeated
  notification and one failure. The contract run has two orders, one of them of nobody, one payment
  that is for either, two repetitions and two polling attempts (12 in the code:
  the model needs "another" and "the last").
* Intake: two dishes need the same two ingredients in opposite order; stock covers
  one order and a half; a third request wants to spend points it does not have;
  each request may be sent twice, one delivery of stock and one failure may come.
* Life of an order: one order, five requests (creation, three changes and one
  more), a basket that can be served and one with a dish that is sold out.
* Reservations: bookings that overlap, contain each other, touch, run backwards and
  are of another table.
* Bot: limit 2 (5 in the code) is reached and overtaken with four messages; one
  button press (with two all properties hold too, over 858,777 states); one failure of Redis, one of Telegram or the storage.
* Recommender: threshold 3 as in the code, two attempts (3 in the code), five calls,
  so that the breaker opens, cools down, is probed and opens again; one dish
  without a description may come at any time.
* Wizard: one restaurant, new or older than the wizard, two requests at a time.
  A request of the wizard that is due and comes alone is free, so every run can go
  through all six steps; three may overlap, come out of turn or edit something, in
  any mixture; one fails. Two menus hold the same dish in different categories.
  Two restaurants on one set of tables hold all properties too, with `MaxStrays = 2`
  (3,364,482 states, too long for a run that is repeated often).
* Sessions: two tokens (one may be handed out for the other by refresh), which end
  two and three seconds after they are made; seven half seconds, so that tokens
  that were made late end after the horizon and the others inside it; two
  requests, which can be two logouts of one token, and one failure.
* Start-up: three services, three attempts as in the code, two plans, three
  failures, two running services that end or are stopped.

`CHECK_DEADLOCK FALSE` is set everywhere since every instance stops when the
clients' bounds are used up.

### Fairness

Only what runs by itself is fair: the handler steps of each coroutine (the event
loop resumes whatever is ready, statements end by `command_timeout=30` of
`shared/database.py`, HTTP requests by the timeout of their client),
PostgreSQL's abort of deadlocked transactions, YooKassa's repetition of an
unanswered notification until it is answered, the restart of containers that
nobody has stopped (`restart: unless-stopped`). The Redis client has no
timeout (`shared/redis_client.py:22`), so its calls are not fair: `RecommendEnds` names
the condition `RedisAnswers` where a call waits for Redis. The only other
specification that counts on Redis is `FairSpec` of `RateLimiter`, which no run uses:
the claim `WindowEnds` fails even under it. Weak fairness is enough. Nobody has to
send, pay, poll, press, fail, recover or start what was stopped.

### Defects that are switched off

Four constants stand for defects that stop a component before the behaviour
behind them is reached. In the code as it is, or with the files it comes with,
their value is the first one; the passing runs use the second, to examine what
lies behind, so what they show is true of the code with that line repaired.
Section 6 has what each breaks.

* `BeginRaises` TRUE / FALSE: `apps/admin_api/middleware.py:112`. The transaction
  that the comment above the line asks for has been begun by the SELECT before
  it, and SQLAlchemy 2 raises: every request of an employee ends in an error 500,
  every login (`auth.py:59`) and every guest session (`widget.py:36`) too. `Setup`
  and `Sessions` begin behind this line and have no such constant.
* `DsnAccepted` FALSE / TRUE: the address of docker-compose.yml and .env.example
  is handed to asyncpg as it is (`shared/database.py:65`); it does not parse
  `postgresql+asyncpg://`, and the service exits at every start. An address
  without `+asyncpg` is accepted.
* `VectorAvailable` FALSE / TRUE: `init_database` begins with CREATE EXTENSION vector
  (`shared/database.py:127`), which the image `postgres:15-alpine` of
  docker-compose.yml does not have; the managed server of the README has it.
* `SearchRaises` TRUE / FALSE: `ai/rag_engine.py:254` passes `{where_sql}` through
  `format_sql`, which raises KeyError.

Two more constants are settings with which the code behaves differently by
design, and the properties that need one of them say so themselves:

* `Signed` FALSE by default: `YOOKASSA_WEBHOOK_SECRET` is None, and `api/routes/payments.py:25`
  then takes every request that names a payment for the provider's. `StatusAgreesWithCredits`
  holds there too: the theorem says so for both values, and TLC agrees for `MCPayments_rows`
  with `Signed = FALSE` and `MaxFailures = 0` (4,178,219 states). `StatusIsBacked` begins with `Signed =>`; the contract, the serial bonus and
  the recording of charges are run with a secret, and do not hold without one:
  a settled order could then be settled the other way. With a secret they assume that the
  provider signs as tests/test_webhook_signature.py does, and nobody else can.
* `FallbackEnabled` TRUE by default: `AI_FALLBACK_ENABLED`. `GuestIsAnswered` asks for it.

`Onboarding` needs none. A permission code is unique over all roles while the role
catalog gives codes to several roles (`backend/auth/models.py:26`): where the
catalog has to be filled, on an empty database, every registration collides with
itself and ends in an error 500; where revision 004 has filled it, with one role per code,
nothing is missing and registrations succeed. The run begins in both states.

## 4. Proofs

Each invariant, refinement and `...IfSerial` implication that a run checks is
also a theorem, except `RefundsCounted`:

| Module | Theorem | Says |
|---|---|---|
| `PaymentsProofs` | `TypeCorrect` | `Spec => []TypeOK` |
| | `SettlementIsAtomic` | `Spec => []StatusAgreesWithCredits` |
| | `OutcomeIsBacked` | `Spec => []StatusIsBacked` |
| | `ContractImplemented` | `Spec => ImplementsContract`, if `SingleCheckout`, `Signed` and not `ExactlyOnce` |
| | `SerialBonusOnce` | `Spec => BonusOnceIfSerial`, if `SingleCheckout` and `Signed` |
| `OrderIntakeProofs` | `TypeCorrect`, `StockIsConserved` | `[]TypeOK`, `[]StockConserved` |
| | `OversellIsBounded`, `SerialNoOversell` | `[]OversellBounded`, `NoOversellIfSerial` |
| `GuestProofs` | `TypeCorrect`, `CircuitConsistent`, `LateCalls` | `[]TypeOK`, `[]CircuitCounts`, `[]LateCallsBounded` of `Recommender` |
| | `GuestAnswered` | `Spec => []GuestIsAnswered`, if not `SearchRaises` |
| | `BookingTypeCorrect`, `Overbooking`, `SerialBookings` | `[]BookingTypeOK`, `[]OverbookingBounded`, `NoDoubleBookingIfSerial` of `Reservations` |
| `BotProofs` | `CounterOvershoot`, `SerialLimitKept` | `[]CounterBounded`, `LimitKeptIfSerial` of `RateLimiter` |
| | `BotKeepsLimiterProtocol` | `BotSpec => Spec`: the bot implements the limiter's specification |
| | `BotCounterOvershoot`, `BotSerialLimitKept` | the first two of the bot, by the third |
| | `BotTypeCorrect`, `SerialDialogKept` | `[]BotTypeOK`, `DialogKeptIfSerial` |
| `ProvisioningProofs` | `StartupTypeCorrect`, `RunningServiceHasItsData` | `[]StartupTypeOK`, `[]PlansComplete` of `Startup` |
| | `SeedingBounded`, `SerialSeeding` | `[]PlansBounded`, `SeededOnceIfSerial` |
| | `TypeCorrect`, `TenantsComplete` | `[]TypeOK`, `[]TenantIsComplete` of `Onboarding` |
| `OrderLifecycleProofs` | `TypeCorrect`, `LogTellsStatus` | `[]TypeOK`, `[]HistoryTellsStatus` |
| | `SubscribersAgree`, `KitchenOnly` | `[]BoardConverges`, `[]CookStaysInKitchen` |
| | `BoardImplemented` | `Spec => ImplementsBoard`: every step is a step of `OrderBoard` or none |
| | `SerialPolicy` | `Spec => PolicyHoldsIfSerial` |
| `SetupProofs` | `TypeCorrect`, `RowsBounded` | `[]TypeOK`, `[]SettingsRowsBounded` |
| | `StepTold`, `WizardLeadsThrough` | `[]StepToldIfAlone`, `[]GuidedWizardLeadsThrough` |
| | `AuditTells`, `Stranded` | `[]AuditGapsBounded`, `[]StrandedBounded` |
| `SessionsProofs` | `TypeCorrect`, `ListLasts`, `TrailKept` | `[]TypeOK`, `[]RevocationLasts`, `[]TrailBounded` |
| | `Refused` | `Spec => RevokedIsRefused` |

### From which assumptions

The theorems hold for every value of the constants that satisfies the named
assumption of the module: that bounds are naturals, that "none" values are no
members of the sets they stand beside, and that the sets which properties count are
finite. Where a bound mentions `Cardinality(Tasks) - 1` there is one task at least.
`SettlementIsAtomic` and `OutcomeIsBacked` hold for every `UserOf`, users or none, and for both
values of `Signed`, which the second has in its statement. `GuestAnswered` is about the
states in which the fallback is enabled, every dish has a description and no error
status was met. Three theorems need a constant to have the value that the code or a run gives it:

* `SingleCheckout`: one checkout per order. With a second one the first payment's
  id is overwritten and a paid order can be cancelled (`PaidIsFinal` in section 6).
  `ExactlyOnce` asks `PaymentContract` for one credit per outcome; FALSE is what the
  code keeps, as deliveries that overlap break the other.
* `Signed`: the webhook has a secret, so only the provider's notifications pass.
* `SearchRaises` FALSE: the line that raises, repaired (section 3).

Recommender and Reservations share a proof module, and so do Startup and
Onboarding. They have no state and no constant in common, so an assumption of one
says nothing about the other; `Reservations` and `Startup` have names of their own
for what every module has (`BookingSpec`, `StartupSpec`).

### Along which argument

An inductive invariant holds initially, each action preserves it (one lemma or
step per action), it implies the property, and PTL concludes. An `...IfSerial`
implication is the same argument with "at most one at work" as one more hypothesis
of the step: what a handler has read is still true when it writes. The
strengthenings, and why they are needed:

* *Payments.* The state committed says nothing about a task in the middle of
  `handle_webhook`. The invariant adds that a handler past its SELECT works on the
  order that names its payment or has named it, that the payment was made for
  this order and, with a secret, that it has the status the handler's event claims. With row locks
  nothing more is needed: what a handler is about to commit is consistent by itself.
  For the contract, an order has one payment (`OnePayment`), so an outcome once
  recorded can only be repeated; for the bonus, a handler that accrues has read its order
  unpaid and nobody else is between its SELECT and COMMIT (`BonusOwed`).
* *Intake.* Stock and placed orders alone do not add up while a handler has taken
  some of its lines; what it has taken and not committed is not in the committed
  rows, and the invariant says for each handler how many of its lines that is. For
  overselling, these pending amounts are taken off the stock (`Slack`): a handler that
  compares sees at least what it needs, and only the pending amounts of the others can come
  between. Most of the module is about sums over finite sets.
* *Reservations.* Bookings that cover one moment are counted together with the
  handlers that have passed the check and are about to insert one. A handler passes only
  when no committed booking overlaps; the sum is then bounded by the
  number of handlers, and an insertion leaves it as it is.
* *Rate limiter.* The key plus the handlers between GET and INCR stays at most
  `limit - 1 + Cardinality(Tasks)`; GET lets a handler in only below `limit`. With one
  handler at a time the counter is what the window has let through (`SerialInv`).
* *Bot.* Which handler runs fixes what can be left of its script and where it can
  stand in the limiter (`Stands`). For the dialog, as long as `ai_recommend` is the state a
  press of the button is still owed its recommendation (`Owed`).
* *Recommender.* The type invariant and the equivalence itself are inductive; state
  and count are written together by every action that touches the breaker. For late
  calls, a request that a call may still send while the circuit is open is a ticket:
  each request uses one up, and nobody gets new ones before the circuit half-opens
  (`Budget`).
* *Startup.* A service past its INSERT finds every plan stored, because what it
  took for missing was really read and rows are never removed. For the upper
  bound, plans stored plus services about to insert them stay at most the number
  of services: a service that has found a plan missing reads zero, and from
  the first INSERT on no new reader joins.
* *Onboarding.* A handler past `create_all` has tables it can see, and one past
  `ensure_role_catalog` has a catalog which its own rows complete (`Known`). Tables and
  catalogs only grow, so this stays true whatever others commit.
* *Wizard.* Every action is first reduced to one of five shapes: a request arrives,
  moves on, is refused, commits or fails. `CrowdBounded`: no more are at work than one
  and the counted meetings. Rows and the requests about to insert one are counted
  together once there is a row (`RowsCounted`). Alone, a request that has loaded its tenant has seen the
  step stored (`SeesStep`). On the guided path, each step that is told or stored
  comes with what the steps before it make (`Guided`). Losses are charged
  (`Charged`): the losses there are and one for each request at work but one are never
  more than the meetings and failures counted, and the last request has a loss of its
  own left only if it has been beaten to a slug, or holds a value that is stale.
* *Life of an order.* From the flush to COMMIT one request at most holds the row
  of an order, and while it does the row and the log stay as they are; a request
  that creates an order is the only one that knows it. So what a request publishes
  is announced last when it commits, its event begins the log exactly if the order
  is new, and its permission, asked of the status it had read, still decides where
  a cook may move an order, whatever the status has become. Without failures the
  board and the status differ only while somebody holds the row.
* *Sessions.* A handler that has taken the time of a token's entry has taken
  enough: from now on it reaches to the token's last two half seconds or further,
  and the later it is used the further (`Timely`). So whichever call sets the entry
  last, it outlasts the token but for these (`Lasting`). For `TrailBounded` each
  token that one store alone has, or will have when its handler ends,
  is charged to a failure of its own, as soon as its revocation is lost and not
  only when its row is committed (`Charged`).

Where a fact about every number or finite set is needed (sums, the free slug), it
is proved by its least counterexample: the library says that a set of naturals that
is not empty has a least member, and the induction theorems themselves take an
operator as a parameter, which the provers cannot instantiate.

Only model-checked: liveness (`ChargeIsRecorded`, `HandlersFinish`, `StartEnds`,
`RecommendEnds`, `ServicesStart`), because the prover has no ENABLED, and
`RefundsCounted`, which the run shows on its instance only.

## 5. Findings

`payments/worker.py:153`: the guard of "Handle ЮKassa webhook with idempotency
guard." (line 129) lets two overlapping deliveries through; `MCPayments_double_bonus`
shows how.

Where the code stops altogether, at `middleware.py:112`, `database.py:65` and
`database.py:127`, see the constants of section 3 and the claims `MiddlewareServes`
and `ServicesStart` below.

## 6. Claims the code does not keep

These definitions are in the modules and are not part of the runs. Each is
violated when it is put into the configuration named in place of its properties
(and with the constants given):

| Claim | Configuration | Why |
|---|---|---|
| `PointsRefundedOnce` | `MCPayments_double_bonus`, `Used <- UsedByAll` | a repeated cancellation has no guard |
| `PaidOrderHasBonus` | `MCPayments_rows` | `orders.user_id` is NULL or no guest's, and nobody looks at how many rows the UPDATE of users has touched |
| `StatusIsBacked` without `Signed =>` | `MCPayments_rows`, `Signed = FALSE` | without a secret every request is believed |
| `StatusAsDocumented` | `MCPayments_double_bonus` | `payments/worker.py:162` gives a paid order the status `confirmed`; PHASE1_PRIVATE_BETA_BLUEPRINT.md:334 lists `new\|accepted\|preparing\|ready\|delivering\|completed\|cancelled`, and `ALLOWED_STATUS_TRANSITIONS` (`backend/orders/service.py:26`) has no way on from it, so the panel cannot move the order any more |
| `ChargedOnce`, `PaidIsFinal` | `MCPayments_rows`, `Orders = {o1}`, `Named = {o1}`, no symmetry | a fresh key per checkout; the second payment's expiry cancels the paid order |
| `ChargeIsRecorded` | `MCPayments_contract`, `SingleCheckout = FALSE`, two payments, `MaxDuplicates = 0` | the first payment's id is overwritten |
| `NoOversell` | `MCOrderIntake_stock` | check and decrement are two statements |
| `OneOrderPerKey` | `MCOrderIntake_stock` | the key is never stored (tests/test_idempotency.py:23 says it is) |
| `PointsCanBeSpent` | `MCOrderIntake_stock`, `Balance <- Rich`, `MaxFailures = 0` | placeholder `{4}` in `api/routes/orders.py:294` |
| `PublishedWasCommitted` | `MCOrderLifecycle_policy` | published before COMMIT |
| `HistoryFollowsPolicy`, `ClosedIffCompleted` | `MCOrderLifecycle_policy` | two employees decide on the same old status |
| `RefusedOnlyIfUnavailable` | `MCOrderLifecycle_policy`, `Baskets <- SoupTwice` | a dish twice in a basket counts as unavailable (`service.py:85`) |
| `ManagerHasFullAccess` | `MCOrderLifecycle_policy`, `Roles = {"manager"}` | the matrix lacks `orders.status.kitchen` for managers (BLUEPRINT:723) |
| `MiddlewareServes` | `MCOrderLifecycle_policy`, `BeginRaises = TRUE` | `begin()` after a SELECT; the comment at `middleware.py:110` says a transaction is started here |
| `CompletedIsFinal` | `MCSetup_wizard` | a step of the wizard may be repeated after the last one |
| `OneSettingsRow` | `MCSetup_wizard` | two requests insert the row that neither has found |
| `RevokedToTheEnd` | `MCSessions_logout` | the time is cut to seconds, the token is accepted through its last one |
| `RevokedYieldsNothing` | `MCSessions_logout` | `refresh` does not ask the list; the docstring of `logout` says the refresh token is revoked |
| `NoDoubleBooking` | `MCReservations_tables` | no constraint behind the SELECT |
| `WindowKeepsLimit` | `MCBot_window` | three commands |
| `WindowEnds` | `RateLimiter` with `FairSpec` and one task | INCR on a key that has just expired makes one without expiry |
| `DialogSurvivesSmallTalk`, `OneRecommendationPerTap` | `MCBot_window` | state read before and cleared after an await |
| `FirstStartSucceeds` | `MCOnboarding_start`, `Restaurants = {roma}` | on an empty database; see section 3 |
| `TablesArePrivate` | `MCOnboarding_start` | the second connection does not see the new schema and makes the tables in `shared` |
| `CooldownRespected` | `MCRecommender_circuit` | a success of a call let through before closes the breaker |
| `GuestIsAnswered` | `MCRecommender_circuit`, `SearchRaises = TRUE` | see section 3 |
| `GuestIsAnswered` without `described` | `MCRecommender_circuit` | slicing a description that is NULL raises TypeError (`rag_engine.py:313` and, in the fallback itself, `rag_engine.py:196`) |
| `GuestIsAnswered` without `FallbackEnabled` | `MCRecommender_circuit`, `FallbackEnabled = FALSE` | the error is raised again (`rag_engine.py:337`) |
| `RecommendEnds` without `RedisAnswers =>` | `MCRecommender_circuit` | the Redis client has no timeout |
| `PlansSeededOnce` | `MCStartup_together` | all read an empty table |
| `ServicesStart` without its condition | `MCStartup_together`, `DsnAccepted = FALSE` or `VectorAvailable = FALSE` | the address, or the image, of docker-compose.yml (README.md:32 says `docker-compose up -d` starts them) |

## 7. Not modelled

* Passwords and the rows that login reads, `last_login_at`, the audit row of a login;
  `expires_in`, which the answers give as an hour whatever the setting is.
* `api/main.py` has a middleware of its own for the bot's API, which verifies a token
  and does not ask the revocation list: a token revoked in the admin panel is
  accepted there until it ends. There is no state to model behind it.
* The dashboard: `get_summary` declares `request: Any`, which FastAPI takes for a
  query parameter that must be given, so its cache is never reached. `get_settings`
  and the audit listing only read.
* Order numbers: one of 9,000 a day, drawn at random, and nothing keeps two orders
  from having the same; no code looks an order up by its number.
* Categories are made by the wizard only; modifiers and the stop list have tables
  and no operation.
* `require_active_subscription`: reads `billing_status`, which no code changes.
* A missing or expired guest token (401), tenant checks of the middlewares: they
  end the request before any state is touched.
* Contents: prices, totals, texts, prompts, receipts. Prices matter only through
  `Total` and `Valid`.
* The bot's `order_type` dialog has no handler that leaves it except a command or
  free text; `order_address` and `order_phone` are never set. Bot does the same.
* `ingredients.py` is not mounted by `api/main.py`; `stock_incoming` is modelled
  as the counterpart of `create_order` on the stock rows.
* The lazily created raw pool, `enqueue_dlq` (never called), `worker.run` (a loop
  that only sleeps).
* Legacy routes with one statement each, schemas, migrations, storage, metrics,
  configuration, compliance documents, scripts.

### Where the models allow more than the code does

Where a statement of the code can never succeed as it is written, or comes at a
narrower moment, the model lets it succeed or fail, or lets more come between, so
that what lies behind it can be examined. The program has fewer behaviours
there; what the models show of safety holds for it too.

* `OrderIntake!InsertOrder`: `api/routes/orders.py:265` passes a list for a JSONB column
  to a pool without a codec, and the loops read a table `recipes` where the
  migration makes `recipe`; both raise.
* `Reservations!Insert`: `api/routes/bookings.py:35` passes the times as strings, which asyncpg
  refuses for TIMESTAMPTZ.
* `Setup!PatchSettings`: a `min_order_amount` is a Decimal, which the JSONB column of the audit row
  cannot take: that edit raises at the flush. The edits of the model are of the flag.
* `Onboarding!CreateTables`: two `create_all` at once on one schema may collide on a CREATE
  TABLE, and one raises. The model has the tables made and leaves the failure to `Fail`,
  which leads to the same state.
* `Setup!LoadTenant`: the tenant is in the session's identity map since the middleware
  (`middleware.py:89`), so the step is read there, before the handler's SELECT. Every request that could
  come between counts as an overlap in both.
* `Sessions!SetEx`: Redis refuses a time of 0. The model counts the revocation as answered,
  like an entry that has expired at once.
* `Payments`: `loyalty_used` can be above 0 for orders of the bot API only, and those
  raise as long as `api/routes/orders.py:294` is what it is; the model allows it for every order.

## 8. Plan

Order of work, most important first; steps 1 to 7 are done.

1. Payments with contract and proofs (money).
2. Intake and reservations (stock, tables), reservation proofs.
3. Life of an order with its middlewares; rate limiter and bot, proofs.
4. Onboarding, recommender, start-up; proofs of the last two.
5. Wizard, settings and menu (`Setup`); login, refresh and logout with the
   revocation list (`Sessions`).
6. `OrderBoard`, which `OrderLifecycle` implements; proofs of both, and of `Sessions`.
7. Prove what the runs check: payments against their contract, intake, bot,
   onboarding, late calls, the wizard, and every `...IfSerial` implication.
8. Model PATCH of an ingredient with the intake.
