-------------------------------- MODULE Setup --------------------------------
(***************************************************************************)
(* After registration: the wizard of apps/admin_api/routes/onboarding.py,  *)
(* PATCH /settings of routes/settings.py and POST /menu/dishes of          *)
(* routes/menu.py, for the restaurants whose rows share one set of tenant  *)
(* tables (see Onboarding!TablesArePrivate: one restaurant, or many).      *)
(*                                                                         *)
(* A task is a request that the middleware has let in.  It works in one    *)
(* transaction of its own, committed by the middleware; Telegram, the      *)
(* object storage and the channel in Redis are outside the transaction.    *)
(* An ORM object is loaded once: a flush writes the columns in which it    *)
(* differs from what was loaded, whatever the row holds by then.           *)
(***************************************************************************)
EXTENDS Integers, Sequences, FiniteSets

CONSTANTS
    Restaurants, Tasks, NoRestaurant,
    Uploads,        \* menus sent to the wizard: one category with one dish
    NoUpload,
    DishNames,      \* names of dishes, up to what the slug keeps of them
    MaxStrays,      \* bound: requests that do not wait their turn (see Accept)
    MaxFailures     \* bound: exceptions and lost connections

ASSUME SetupAssumption ==
    /\ IsFiniteSet(Restaurants) /\ IsFiniteSet(Tasks)
    /\ NoRestaurant \notin Restaurants
    /\ NoUpload \notin Uploads
    /\ \A u \in Uploads : u.dish \in DishNames
    /\ MaxStrays \in Nat /\ MaxFailures \in Nat

VARIABLES
    step,           \* tenants.onboarding_step
    completedAt,    \* restaurants with onboarding_completed_at
    settings,       \* rows of tenant_settings
    audit,          \* audit rows of changed settings, oldest first
    categories,     \* slugs of menu_categories
    dishes,         \* slugs of menu_items
    orders,         \* committed test orders of each restaurant
    announced,      \* test orders announced on the channel
    photos,         \* photos in the object storage
    pictured,       \* committed dishes that have a photo
    told,           \* step that the last answer of the wizard named
    task,           \* local state of each request handler
    overlaps,       \* requests that arrived while another was at work
    detours,        \* requests of the wizard for another step than the one told
    edits,          \* requests other than the wizard's
    failures

counters == <<overlaps, detours, edits, failures>>
tables == <<step, completedAt, settings, audit, categories, dishes, orders, pictured>>
outside == <<announced, photos>>
vars == <<tables, outside, told, task, counters>>

WizardKinds == {"restaurant_info", "menu_upload", "telegram_setup",
                "payment_setup", "test_order", "complete"}
Kinds == WizardKinds \cup {"patch", "dish"}
Wizard == {"restaurant_info", "menu_upload", "telegram_setup",
           "payment_setup", "test_order", "completed"}
Steps == {"idle", "tenant", "ask", "row", "category", "dishes", "order", "find",
          "photo", "slug", "insert", "flush", "commit"}

\* Columns of tenant_settings: those the wizard writes, and those only PATCH does.
Columns == {"profile", "flag"}
Values == {0, 1}
Row == [Columns -> Values]
Fresh == [c \in Columns |-> 0]
Nothing == << >>

Slugs == DishNames \X (Nat \ {0})
NoSlug == << >>

Idle == [pc |-> "idle", kind |-> "complete", rest |-> NoRestaurant, seen |-> "none",
         row |-> 0, writes |-> Nothing, old |-> Nothing, upload |-> NoUpload,
         slug |-> NoSlug, photo |-> FALSE]

\* A restaurant comes from onboarding_start, which made its settings, or is
\* older than the wizard and has none.
Init ==
    /\ \/ /\ settings = [i \in 1..Cardinality(Restaurants) |-> Fresh]
          /\ step = [r \in Restaurants |-> "restaurant_info"]
       \/ /\ settings = << >>
          /\ step = [r \in Restaurants |-> "none"]
    /\ completedAt = {}
    /\ audit = << >>
    /\ categories = {} /\ dishes = {}
    /\ orders = [r \in Restaurants |-> 0]
    /\ announced = [r \in Restaurants |-> 0]
    /\ photos = 0 /\ pictured = 0
    /\ told = step
    /\ task = [t \in Tasks |-> Idle]
    /\ overlaps = 0 /\ detours = 0 /\ edits = 0 /\ failures = 0

-----------------------------------------------------------------------------
NextStepSkips(kind) ==                                              \* mutant
    CASE kind = "restaurant_info" -> "menu_upload"
      [] kind = "menu_upload"     -> "telegram_setup"
      [] kind = "telegram_setup"  -> "payment_setup"
      [] OTHER                    -> "completed"

NextStepByKind(kind) ==                                             \* mutant
    CASE kind = "restaurant_info" -> "menu_upload"
      [] kind = "menu_upload"     -> "telegram_setup"
      [] kind = "telegram_setup"  -> "payment_setup"
      [] kind = "payment_setup"   -> "test_order"
      [] OTHER                    -> "complete"

\* The step that a request of the wizard sets and answers.
NextStep(kind) ==
    CASE kind = "restaurant_info" -> "menu_upload"
      [] kind = "menu_upload"     -> "telegram_setup"
      [] kind = "telegram_setup"  -> "payment_setup"
      [] kind = "payment_setup"   -> "test_order"
      [] OTHER                    -> "completed"

\* The step after the tenant is loaded.
FirstStep(kind) ==
    CASE kind \in {"restaurant_info", "payment_setup"} -> "row"
      [] kind = "menu_upload"    -> "category"
      [] kind = "telegram_setup" -> "ask"
      [] kind = "test_order"     -> "order"
      [] OTHER                   -> "flush"

Go(t, pc) == task' = [task EXCEPT ![t].pc = pc]

\* 404 and 422, which come before any write, or 500 and a rollback.
Refuse(t) == task' = [task EXCEPT ![t] = Idle]

-----------------------------------------------------------------------------
(* A request arrives.                                                      *)

AtWork == {t \in Tasks : task[t].pc # "idle"}

\* The request that an owner who follows the answers sends next.
Due(r) ==
    CASE told[r] = "completed" -> "complete"
      [] told[r] = "none"      -> "restaurant_info"
      [] OTHER                 -> told[r]

Count(happens) == IF happens THEN 1 ELSE 0

Accept(t, r, local) ==
    /\ task[t].pc = "idle"
    /\ task' = [task EXCEPT ![t] = [local EXCEPT !.rest = r]]
    /\ overlaps' = overlaps + Count(AtWork # {})
    /\ detours' = detours + Count(local.kind \in WizardKinds \ {Due(r)})
    /\ edits' = edits + Count(local.kind \notin WizardKinds)
    /\ overlaps' + detours' + edits' <= MaxStrays
    /\ UNCHANGED <<tables, outside, told, failures>>

Started(kind) == [Idle EXCEPT !.pc = "tenant", !.kind = kind]

RestaurantInfo(t, r) ==
    Accept(t, r, [Started("restaurant_info") EXCEPT !.writes = [c \in {"profile"} |-> 1]])

MenuUpload(t, r, u) ==
    Accept(t, r, [Started("menu_upload") EXCEPT !.upload = u, !.slug = <<u.dish, 1>>])

TelegramSetup(t, r) ==
    Accept(t, r, [Started("telegram_setup") EXCEPT !.writes = [c \in {"profile"} |-> 1]])

\* With skip nothing is written but the step.
PaymentSetup(t, r, skip) ==
    Accept(t, r, [Started("payment_setup") EXCEPT
                    !.writes = IF skip THEN Nothing ELSE [c \in {"profile"} |-> 1]])

TestOrder(t, r) == Accept(t, r, Started("test_order"))

Complete(t, r) == Accept(t, r, Started("complete"))

\* PATCH /settings with the fields that the client has set.
PatchSettings(t, r, body) ==
    Accept(t, r, [Idle EXCEPT !.pc = "row", !.kind = "patch", !.writes = body])

CreateDish(t, r, name, photo) ==
    Accept(t, r, [Idle EXCEPT !.pc = "find", !.kind = "dish", !.photo = photo,
                              !.slug = <<name, 1>>])

-----------------------------------------------------------------------------
(* Reading                                                                 *)

LoadTenant(t) ==
    /\ task[t].pc = "tenant"
    /\ task' = [task EXCEPT ![t].pc = FirstStep(task[t].kind),
                            ![t].seen = step[task[t].rest]]
    /\ UNCHANGED <<tables, outside, told, counters>>

\* getMe over HTTP, while the transaction is open.
AskTelegram(t) ==
    /\ task[t].pc = "ask"
    /\ Go(t, "row") \/ Refuse(t)
    /\ UNCHANGED <<tables, outside, told, counters>>

\* Columns that the ORM finds changed.
Changed(loaded, writes) == {c \in DOMAIN writes : writes[c] # loaded[c]}

\* SELECT ... LIMIT 1 without an order: any row, or none.
ReadSettings(t) ==
    /\ task[t].pc = "row"
    /\ UNCHANGED <<tables, outside, told, counters>>
    /\ \/ /\ settings = << >>
          /\ task[t].kind \in {"payment_setup", "patch"}
          /\ Refuse(t)
       \/ /\ settings = << >>
          /\ task[t].kind \notin {"payment_setup", "patch"}
          /\ Go(t, "flush")
       \/ \E i \in DOMAIN settings :
             LET changed == Changed(settings[i], task[t].writes)
             IN  task' = [task EXCEPT
                    ![t].pc = "flush", ![t].row = i,
                    ![t].writes = [c \in changed |-> task[t].writes[c]],
                    ![t].old = [c \in changed |-> settings[i][c]]]

-----------------------------------------------------------------------------
(* Menu                                                                    *)

\* The unique index on a slug: an INSERT waits for whoever has inserted it
\* and not yet committed, and fails if it is committed.
InsertedCategory(t, u) ==
    /\ task[u].kind = "menu_upload" /\ task[u].pc \in {"dishes", "commit"}
    /\ task[u].upload.category = task[t].upload.category

InsertedDish(t, u) ==
    /\ task[u].pc = "commit"
    /\ task[u].slug # NoSlug /\ task[u].slug = task[t].slug

UploadCategory(t) ==
    /\ task[t].pc = "category"
    /\ \A u \in Tasks \ {t} : ~InsertedCategory(t, u)
    /\ IF task[t].upload.category \in categories THEN Refuse(t) ELSE Go(t, "dishes")
    /\ UNCHANGED <<tables, outside, told, counters>>

\* create_dish: the category, then the photo, which goes to the storage.
FindCategory(t) ==
    /\ task[t].pc = "find"
    /\ \/ Refuse(t)
       \/ /\ categories # {}
          /\ Go(t, IF task[t].photo THEN "photo" ELSE "slug")
    /\ UNCHANGED <<tables, outside, told, counters>>

UploadPhoto(t) ==
    /\ task[t].pc = "photo"
    /\ photos' = photos + 1
    /\ Go(t, "slug")
    /\ UNCHANGED <<tables, announced, told, counters>>

FirstSlug(name) == <<name, 1>>                                      \* mutant

\* The loop over suffixes: one SELECT each, and what is taken stays taken.
\* One suffix more than there are dishes is enough for one to be free.
FreeSlug(name) ==
    CHOOSE s \in ({name} \X (1..(Cardinality(dishes) + 1))) \ dishes :
        \A n \in 1..(s[2] - 1) : <<name, n>> \in dishes

ChooseSlug(t) ==
    /\ task[t].pc = "slug"
    /\ task' = [task EXCEPT ![t].pc = "insert", ![t].slug = FreeSlug(task[t].slug[1])]
    /\ UNCHANGED <<tables, outside, told, counters>>

InsertDish(t) ==
    /\ task[t].pc = "insert"
    /\ \A u \in Tasks \ {t} : ~InsertedDish(t, u)
    /\ IF task[t].slug \in dishes THEN Refuse(t) ELSE Go(t, "commit")
    /\ UNCHANGED <<tables, outside, told, counters>>

\* The test order: any available dish; create_order, which announces it.
PlaceTestOrder(t) ==
    /\ task[t].pc = "order"
    /\ IF dishes = {} THEN Refuse(t) /\ UNCHANGED outside
       ELSE /\ Go(t, "flush")
            /\ announced' = [announced EXCEPT ![task[t].rest] = @ + 1]
            /\ UNCHANGED photos
    /\ UNCHANGED <<tables, told, counters>>

-----------------------------------------------------------------------------
(* Flush and COMMIT                                                        *)

MovesStep(t) == task[t].kind \in WizardKinds /\ task[t].seen # NextStep(task[t].kind)
WritesTenant(t) == MovesStep(t) \/ task[t].kind = "complete"
WritesRow(t) == task[t].row # 0 /\ task[t].writes # Nothing

\* u holds the lock of a row that t is about to update.
Blocks(u, t) ==
    /\ task[u].pc = "commit"
    /\ \/ WritesTenant(u) /\ WritesTenant(t) /\ task[u].rest = task[t].rest
       \/ WritesRow(u) /\ WritesRow(t) /\ task[u].row = task[t].row

\* The last flush: UPDATE of the rows, for a menu after INSERT of the dish.
Flush(t) ==
    /\ task[t].pc \in {"flush", "dishes"}
    /\ \A u \in Tasks \ {t} : ~Blocks(u, t) /\ ~InsertedDish(t, u)
    /\ IF task[t].slug \in dishes THEN Refuse(t) ELSE Go(t, "commit")
    /\ UNCHANGED <<tables, outside, told, counters>>

Over(row, writes) == [c \in Columns |-> IF c \in DOMAIN writes THEN writes[c] ELSE row[c]]

StoredSettingsAnew(t) ==                                            \* mutant
    IF task[t].kind \in {"restaurant_info", "telegram_setup"}
    THEN Append(settings, Over(Fresh, task[t].writes))
    ELSE settings

StoredSettings(t) ==
    CASE WritesRow(t) -> [settings EXCEPT ![task[t].row] = Over(@, task[t].writes)]
      [] task[t].row = 0 /\ task[t].kind \in {"restaurant_info", "telegram_setup"}
           -> Append(settings, Over(Fresh, task[t].writes))
      [] OTHER -> settings

AuditedStale(t) ==                                                  \* mutant
    IF task[t].kind = "patch" /\ task[t].writes # Nothing
    THEN Append(audit, [row |-> task[t].row, old |-> task[t].writes, new |-> task[t].writes])
    ELSE audit

\* Only PATCH writes its changes to the audit log.
Audited(t) ==
    IF task[t].kind = "patch" /\ task[t].writes # Nothing
    THEN Append(audit, [row |-> task[t].row, old |-> task[t].old, new |-> task[t].writes])
    ELSE audit

StoredStepAlways(t) ==                                              \* mutant
    IF task[t].seen = "restaurant_info" THEN [step EXCEPT ![task[t].rest] = "menu_upload"]
    ELSE step

StoredStep(t) ==
    IF MovesStep(t) THEN [step EXCEPT ![task[t].rest] = NextStep(task[t].kind)] ELSE step

Commit(t) ==
    LET rest == task[t].rest
        kind == task[t].kind
    IN  /\ task[t].pc = "commit"
        /\ step' = StoredStep(t)
        /\ completedAt' = IF kind = "complete" THEN completedAt \cup {rest} ELSE completedAt
        /\ settings' = StoredSettings(t)
        /\ audit' = Audited(t)
        /\ categories' = IF kind = "menu_upload"
                         THEN categories \cup {task[t].upload.category} ELSE categories
        /\ dishes' = dishes \cup ({task[t].slug} \ {NoSlug})
        /\ orders' = IF kind = "test_order" THEN [orders EXCEPT ![rest] = @ + 1] ELSE orders
        /\ pictured' = IF task[t].photo THEN pictured + 1 ELSE pictured
        /\ told' = IF kind \in WizardKinds THEN [told EXCEPT ![rest] = NextStep(kind)] ELSE told
        /\ task' = [task EXCEPT ![t] = Idle]
        /\ UNCHANGED <<outside, counters>>

\* An exception: what is outside the transaction stays.
Fail(t) ==
    /\ task[t].pc # "idle"
    /\ failures < MaxFailures
    /\ failures' = failures + 1
    /\ Refuse(t)
    /\ UNCHANGED <<tables, outside, told, overlaps, detours, edits>>

-----------------------------------------------------------------------------
HandlerStep(t) ==
    \/ LoadTenant(t)
    \/ AskTelegram(t)
    \/ ReadSettings(t)
    \/ UploadCategory(t)
    \/ FindCategory(t)
    \/ UploadPhoto(t)
    \/ ChooseSlug(t)
    \/ InsertDish(t)
    \/ PlaceTestOrder(t)
    \/ Flush(t)
    \/ Commit(t)

Bodies == UNION {[S -> Values] : S \in SUBSET Columns}

Receive(t, r) ==
    \/ RestaurantInfo(t, r)
    \/ TelegramSetup(t, r)
    \/ \E u \in Uploads : MenuUpload(t, r, u)
    \/ \E skip \in BOOLEAN : PaymentSetup(t, r, skip)
    \/ TestOrder(t, r)
    \/ Complete(t, r)
    \/ \E body \in Bodies : PatchSettings(t, r, body)
    \/ \E name \in DishNames, photo \in BOOLEAN : CreateDish(t, r, name, photo)

Next ==
    \E t \in Tasks :
        \/ \E r \in Restaurants : Receive(t, r)
        \/ HandlerStep(t)
        \/ Fail(t)

Spec == Init /\ [][Next]_vars

-----------------------------------------------------------------------------
(* Properties                                                              *)

Assignments == UNION {[S -> Values] : S \in SUBSET Columns}

TypeOK ==
    /\ step \in [Restaurants -> Wizard \cup {"none"}]
    /\ completedAt \subseteq Restaurants
    /\ settings \in Seq(Row)
    /\ audit \in Seq([row: Nat \ {0}, old: Assignments, new: Assignments])
    /\ categories \subseteq {u.category : u \in Uploads}
    /\ dishes \subseteq Slugs
    /\ orders \in [Restaurants -> Nat] /\ announced \in [Restaurants -> Nat]
    /\ photos \in Nat /\ pictured \in Nat
    /\ told \in [Restaurants -> Wizard \cup {"none"}]
    /\ task \in [Tasks ->
          [pc: Steps, kind: Kinds, rest: Restaurants \cup {NoRestaurant},
           seen: Wizard \cup {"none"}, row: Nat, writes: Assignments,
           old: Assignments, upload: Uploads \cup {NoUpload},
           slug: Slugs \cup {NoSlug}, photo: BOOLEAN]]
    /\ overlaps \in 0..MaxStrays /\ detours \in 0..MaxStrays /\ edits \in 0..MaxStrays
    /\ failures \in 0..MaxFailures

\* A restaurant older than the wizard gets one row of settings, and one more
\* for each request that met the first: the row is looked for and inserted
\* with nothing that keeps a second one out.
SettingsRowsBounded == Len(settings) <= Cardinality(Restaurants) + overlaps

StepIsTold == \A r \in Restaurants : step[r] = told[r]

\* The step stored is the step that the owner was told last, in whatever
\* order the steps are repeated.  Two requests that meet may leave the step of
\* the one answered first: the ORM does not write a value it has loaded.
StepToldIfAlone == overlaps = 0 => StepIsTold

\* The entries of the audit log that change the flag of a row, and those that
\* the next of them, or for the last one the row, contradicts.
FlagChanges(i) == {k \in DOMAIN audit : audit[k].row = i /\ "flag" \in DOMAIN audit[k].new}

Follows(i, k, n) == n > k /\ (k + 1)..(n - 1) \cap FlagChanges(i) = {}

IsLast(i, k) == \A n \in FlagChanges(i) : n <= k

Gaps(i) ==
    {k \in FlagChanges(i) :
        \/ \E n \in FlagChanges(i) :
              Follows(i, k, n) /\ audit[n].old["flag"] # audit[k].new["flag"]
        \/ IsLast(i, k) /\ settings[i]["flag"] # audit[k].new["flag"]}

\* Read one by one, the entries of PATCH tell every value that a setting of
\* its own had, but for two edits that met: both log the value from before.
AuditGapsBounded == \A i \in DOMAIN settings : Cardinality(Gaps(i)) <= overlaps

\* An owner who asks for no step but the one told, whatever else is edited
\* and even if requests meet or fail, does not get past the last step
\* without settings, a menu and an order.
GuidedWizardLeadsThrough ==
    detours = 0 =>
        \A r \in Restaurants :
            step[r] = "completed" \/ r \in completedAt =>
                settings # << >> /\ dishes # {} /\ orders[r] > 0

\* Photos and announcements are made before their transaction commits.  An
\* announcement is left without its order by a failure only; a photo without
\* its dish also by a request that met another, for the slug is unique.
StrandedBounded ==
    AtWork = {} =>
        /\ photos - pictured \in 0..(failures + overlaps)
        /\ \A r \in Restaurants : announced[r] - orders[r] \in 0..failures

(* What one could expect and the code does not keep.                       *)

\* A restaurant that has completed the wizard stays completed.
CompletedIsFinal ==
    [][\A r \in Restaurants : step[r] = "completed" => step'[r] = "completed"]_vars

\* There is one row of settings for each restaurant.
OneSettingsRow == Len(settings) <= Cardinality(Restaurants)
=============================================================================
