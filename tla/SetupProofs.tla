---------------------------- MODULE SetupProofs ----------------------------
(***************************************************************************)
(* Proofs about Setup, the wizard, settings and menu of the admin panel.   *)
(*                                                                         *)
(* Every action is first reduced to one of a few shapes (a request         *)
(* arrives, moves on, is refused, commits or fails; lemma StepShapes), so  *)
(* that each invariant looks at the shapes and not at the actions.  TInv   *)
(* adds to the types what a handler knows where it stands.  Then follow:   *)
(* how many requests meet, the rows of settings, the step an answer names, *)
(* the guided wizard, what failures strand and what the audit log misses.  *)
(* The last two charge each loss to a failure or to a request that met     *)
(* another (Charged): the ones there are and the ones in the making are    *)
(* never more than what was paid.                                          *)
(*                                                                         *)
(* A slug is free because there are more candidates than dishes; the least *)
(* such candidate exists by well-founded induction on the naturals.        *)
(***************************************************************************)
EXTENDS Setup, FiniteSetTheorems, WellFoundedInduction, TLAPS

Local == [pc: Steps, kind: Kinds, rest: Restaurants \cup {NoRestaurant},
          seen: Wizard \cup {"none"}, row: Nat, writes: Assignments,
          old: Assignments, upload: Uploads \cup {NoUpload},
          slug: Slugs \cup {NoSlug}, photo: BOOLEAN]

\* Where the requests of each kind go.
Route(me) ==
    /\ me.pc = "ask" => me.kind = "telegram_setup"
    /\ me.pc \in {"category", "dishes"} => me.kind = "menu_upload"
    /\ me.pc \in {"find", "photo", "slug", "insert"} => me.kind = "dish"
    /\ me.pc = "order" => me.kind = "test_order"
    /\ me.pc = "row" => me.kind \in {"restaurant_info", "telegram_setup", "payment_setup", "patch"}
    /\ me.pc = "flush" => me.kind \notin {"menu_upload", "dish"}
    /\ me.pc = "tenant" => me.kind \in WizardKinds

\* What a request brings, or has read from the tables.
Known(me) ==
    /\ Route(me)
    /\ me.pc # "idle" => me.rest \in Restaurants
    /\ me.kind = "menu_upload" /\ me.pc # "idle" =>
          me.upload \in Uploads /\ me.slug = <<me.upload.dish, 1>>
    /\ me.kind = "dish" => me.slug \in Slugs
    /\ me.kind \notin {"menu_upload", "dish"} => me.slug = NoSlug
    /\ me.photo => me.kind = "dish"
    /\ me.pc = "photo" => me.photo
    /\ me.row \in {0} \cup DOMAIN settings
    /\ me.kind = "patch" /\ me.pc \in {"flush", "commit"} =>
          me.row # 0 /\ DOMAIN me.old = DOMAIN me.writes
    /\ me.kind # "patch" => "flag" \notin DOMAIN me.writes

CrowdBounded == Cardinality(AtWork) <= 1 + overlaps

TInv == TypeOK /\ IsFiniteSet(dishes) /\ \A t \in Tasks : Known(task[t])

-----------------------------------------------------------------------------
(* The shapes of a step                                                    *)

Inserting(me) ==
    /\ me.kind \in {"restaurant_info", "telegram_setup"}
    /\ me.pc \in {"flush", "commit"} /\ me.row = 0

\* A PATCH about to log a value of the flag that the row no longer has.
Stale(me, i) ==
    /\ me.kind = "patch" /\ me.pc \in {"flush", "commit"} /\ me.row = i
    /\ "flag" \in DOMAIN me.writes /\ me.old["flag"] # settings[i]["flag"]

\* An order announced, a photo stored, and neither committed.
Announcing(me, r) ==
    me.kind = "test_order" /\ me.rest = r /\ me.pc \in {"flush", "commit"}

Picturing(me) == me.photo /\ me.pc \in {"slug", "insert", "commit"}

\* A dish whose slug has been committed by another since it was chosen.
Beaten(me) == me.pc = "insert" /\ me.slug \in dishes

Arriving(t, r, me) ==
    /\ task[t].pc = "idle"
    /\ me \in Local /\ me.pc \in {"tenant", "row", "find"} /\ me.rest = r
    /\ Known(me)
    /\ task' = [task EXCEPT ![t] = me]
    /\ overlaps' = overlaps + Count(AtWork # {})
    /\ detours' = detours + Count(me.kind \in WizardKinds \ {Due(r)})
    /\ edits' = edits + Count(me.kind \notin WizardKinds)
    /\ overlaps' + detours' + edits' <= MaxStrays
    /\ me.pc = "tenant" <=> me.kind \in WizardKinds
    /\ UNCHANGED <<tables, outside, told, failures>>

Moving(t, me) ==
    /\ task[t].pc # "idle"
    /\ me \in Local /\ me.pc \notin {"idle", "tenant"} /\ Known(me)
    /\ task' = [task EXCEPT ![t] = me]
    /\ me.kind = task[t].kind /\ me.rest = task[t].rest /\ me.photo = task[t].photo
    /\ \/ me.seen = step[me.rest]
       \/ me.seen = task[t].seen /\ task[t].pc # "tenant"
    /\ Inserting(me) => Inserting(task[t]) \/ settings = << >>
    /\ \A i \in DOMAIN settings : Stale(me, i) => Stale(task[t], i)
    /\ Beaten(me) => Beaten(task[t])
    /\ UNCHANGED <<tables, told, counters>>

\* The announcement and the photo that the step makes, if it makes one.
Announces(t, me) ==
    /\ announced' \in [Restaurants -> Nat]
    /\ \A r \in Restaurants :
          announced'[r] - announced[r] =
              Count(Announcing(me, r)) - Count(Announcing(task[t], r))

Stores(t, me) ==
    /\ photos' \in Nat
    /\ photos' - photos = Count(Picturing(me)) - Count(Picturing(task[t]))

Refusing(t) ==
    /\ task[t].pc # "idle"
    /\ task' = [task EXCEPT ![t] = Idle]
    /\ \A r \in Restaurants : ~Announcing(task[t], r)
    /\ Picturing(task[t]) => Beaten(task[t])
    /\ UNCHANGED <<tables, outside, told, counters>>

MovesOn(t) == \E me \in Local : Moving(t, me) /\ Announces(t, me) /\ Stores(t, me)

LEMMA IdleLocal ==
  /\ Idle \in Local /\ Idle.pc = "idle" /\ Idle.kind = "complete" /\ Idle.row = 0
  /\ Idle.slug = NoSlug /\ Idle.photo = FALSE /\ Idle.writes = << >> /\ Idle.old = << >>
  /\ Idle.seen = "none" /\ Idle.upload = NoUpload
<1>1. << >> \in Assignments
  <2>1. << >> \in [{} -> Values]
    OBVIOUS
  <2>2. {} \in SUBSET Columns
    OBVIOUS
  <2> QED
    BY <2>1, <2>2 DEF Assignments
<1> QED
  BY <1>1 DEF Idle, Local, Steps, Kinds, WizardKinds, Nothing

LEMMA ProfileWritten ==
  LET w == [c \in {"profile"} |-> 1]
  IN  w \in Assignments /\ "flag" \notin DOMAIN w
<1>1. [c \in {"profile"} |-> 1] \in [{"profile"} -> Values]
  BY DEF Values
<1>2. {"profile"} \in SUBSET Columns
  BY DEF Columns
<1> QED
  BY <1>1, <1>2 DEF Assignments

LEMMA NoSlugIsNone == NoSlug \notin Slugs
<1>1. ASSUME NEW s \in Slugs PROVE s # << >>
  <2>1. PICK d \in DishNames, n \in Nat \ {0} : s = <<d, n>>
    BY DEF Slugs
  <2>2. Len(s) = 2 /\ Len(<< >>) = 0
    BY <2>1
  <2> QED
    BY <2>2
<1> QED
  BY <1>1 DEF NoSlug

LEMMA AtWorkFinite == IsFiniteSet(AtWork)
BY SetupAssumption, FS_Subset DEF AtWork

\* Nobody is slowed down: a request is accepted, and is at its first step.
LEMMA ReceiveArrives ==
  ASSUME TInv, NEW t \in Tasks, NEW r \in Restaurants, Receive(t, r)
  PROVE  \E me \in Local : Arriving(t, r, me)
<1>1. ASSUME NEW local \in Local, Accept(t, r, local),
             local.pc \in {"tenant", "row", "find"},
             local.pc = "tenant" <=> local.kind \in WizardKinds,
             Known([local EXCEPT !.rest = r])
      PROVE  \E me \in Local : Arriving(t, r, me)
  <2> DEFINE me == [local EXCEPT !.rest = r]
  <2>1. me \in Local /\ me.pc = local.pc /\ me.rest = r /\ me.kind = local.kind
    BY <1>1 DEF Local
  <2>2. task' = [task EXCEPT ![t] = me]
    BY <1>1 DEF Accept
  <2>3. Known(me)
    BY <1>1
  <2> HIDE DEF me
  <2>4. Arriving(t, r, me)
    BY <1>1, <2>1, <2>2, <2>3 DEF Arriving, Accept
  <2> QED
    BY <2>1, <2>4
<1>2. ASSUME NEW kind \in WizardKinds, NEW w \in Assignments, "flag" \notin DOMAIN w,
             kind # "menu_upload",
             Accept(t, r, [Started(kind) EXCEPT !.writes = w])
      PROVE  \E me \in Local : Arriving(t, r, me)
  <2> DEFINE local == [Started(kind) EXCEPT !.writes = w]
             me == [local EXCEPT !.rest = r]
  <2>1. /\ local \in Local /\ local.pc = "tenant" /\ local.kind = kind
        /\ me.pc = "tenant" /\ me.kind = kind /\ me.rest = r /\ me.writes = w
        /\ me.slug = NoSlug /\ me.photo = FALSE /\ me.row = 0
    BY <1>2, IdleLocal DEF Started, Local, Steps, Kinds
  <2> HIDE DEF local
  <2>3. Accept(t, r, local)
    BY <1>2 DEF local
  <2> HIDE DEF me
  <2>4. Known(me)
    BY <1>2, <2>1 DEF Known, Route, WizardKinds
  <2>5. Known([local EXCEPT !.rest = r])
    BY <2>4 DEF me
  <2> QED
    BY <1>1, <1>2, <2>1, <2>3, <2>5
<1>3. CASE RestaurantInfo(t, r)
  <2>1. Accept(t, r, [Started("restaurant_info") EXCEPT !.writes = [c \in {"profile"} |-> 1]])
    BY <1>3 DEF RestaurantInfo
  <2> QED
    BY <1>2, <2>1, ProfileWritten DEF WizardKinds
<1>4. CASE TelegramSetup(t, r)
  <2>1. Accept(t, r, [Started("telegram_setup") EXCEPT !.writes = [c \in {"profile"} |-> 1]])
    BY <1>4 DEF TelegramSetup
  <2> QED
    BY <1>2, <2>1, ProfileWritten DEF WizardKinds
<1>5. ASSUME NEW u \in Uploads, MenuUpload(t, r, u)
      PROVE  \E me \in Local : Arriving(t, r, me)
  <2> DEFINE local == [Started("menu_upload") EXCEPT !.upload = u, !.slug = <<u.dish, 1>>]
             me == [local EXCEPT !.rest = r]
  <2>0. <<u.dish, 1>> \in Slugs
    BY SetupAssumption DEF Slugs
  <2>1. /\ local \in Local /\ local.pc = "tenant" /\ local.kind = "menu_upload"
        /\ me.pc = "tenant" /\ me.kind = "menu_upload" /\ me.rest = r /\ me.writes = << >>
        /\ me.slug = <<u.dish, 1>> /\ me.photo = FALSE /\ me.row = 0 /\ me.upload = u
    BY <2>0, IdleLocal DEF Started, Local, Steps, Kinds, WizardKinds
  <2> HIDE DEF local
  <2>3. Accept(t, r, local)
    BY <1>5 DEF local, MenuUpload
  <2> HIDE DEF me
  <2>4. Known(me)
    BY <2>1 DEF Known, Route, WizardKinds
  <2>5. Known([local EXCEPT !.rest = r])
    BY <2>4 DEF me
  <2> QED
    BY <1>1, <2>1, <2>3, <2>5 DEF WizardKinds
<1>6. ASSUME NEW skip \in BOOLEAN, PaymentSetup(t, r, skip)
      PROVE  \E me \in Local : Arriving(t, r, me)
  <2> DEFINE w == IF skip THEN Nothing ELSE [c \in {"profile"} |-> 1]
  <2>1. w \in Assignments /\ "flag" \notin DOMAIN w
    BY ProfileWritten, IdleLocal DEF Nothing, Local
  <2>2. Accept(t, r, [Started("payment_setup") EXCEPT !.writes = w])
    BY <1>6 DEF PaymentSetup
  <2> HIDE DEF w
  <2> QED
    BY <1>2, <2>1, <2>2 DEF WizardKinds
<1>7. ASSUME NEW kind \in {"test_order", "complete"}, Accept(t, r, Started(kind))
      PROVE  \E me \in Local : Arriving(t, r, me)
  <2> DEFINE me == [Started(kind) EXCEPT !.rest = r]
  <2>1. /\ Started(kind) \in Local /\ Started(kind).pc = "tenant" /\ Started(kind).kind = kind
        /\ me.pc = "tenant" /\ me.kind = kind /\ me.rest = r /\ me.writes = << >>
        /\ me.slug = NoSlug /\ me.photo = FALSE /\ me.row = 0
    BY IdleLocal DEF Started, Local, Steps, Kinds, WizardKinds
  <2> HIDE DEF me
  <2>4. Known(me)
    BY <2>1 DEF Known, Route, WizardKinds
  <2>5. Known([Started(kind) EXCEPT !.rest = r])
    BY <2>4 DEF me
  <2> QED
    BY <1>1, <1>7, <2>1, <2>5 DEF WizardKinds
<1>8. ASSUME NEW body \in Bodies, PatchSettings(t, r, body)
      PROVE  \E me \in Local : Arriving(t, r, me)
  <2> DEFINE local == [Idle EXCEPT !.pc = "row", !.kind = "patch", !.writes = body]
             me == [local EXCEPT !.rest = r]
  <2>1. /\ local \in Local /\ local.pc = "row" /\ local.kind = "patch"
        /\ me.pc = "row" /\ me.kind = "patch" /\ me.rest = r /\ me.writes = body
        /\ me.slug = NoSlug /\ me.photo = FALSE /\ me.row = 0
    BY <1>8, IdleLocal DEF Local, Steps, Kinds, Bodies, Assignments
  <2> HIDE DEF local
  <2>3. Accept(t, r, local)
    BY <1>8 DEF local, PatchSettings
  <2> HIDE DEF me
  <2>4. Known(me)
    BY <2>1 DEF Known, Route, WizardKinds
  <2>5. Known([local EXCEPT !.rest = r])
    BY <2>4 DEF me
  <2> QED
    BY <1>1, <2>1, <2>3, <2>5 DEF WizardKinds
<1>9. ASSUME NEW name \in DishNames, NEW photo \in BOOLEAN, CreateDish(t, r, name, photo)
      PROVE  \E me \in Local : Arriving(t, r, me)
  <2> DEFINE local == [Idle EXCEPT !.pc = "find", !.kind = "dish", !.photo = photo,
                                   !.slug = <<name, 1>>]
             me == [local EXCEPT !.rest = r]
  <2>0. <<name, 1>> \in Slugs
    BY DEF Slugs
  <2>1. /\ local \in Local /\ local.pc = "find" /\ local.kind = "dish"
        /\ me.pc = "find" /\ me.kind = "dish" /\ me.rest = r /\ me.writes = << >>
        /\ me.slug \in Slugs /\ me.photo \in BOOLEAN /\ me.row = 0
    BY <2>0, IdleLocal DEF Local, Steps, Kinds
  <2> HIDE DEF local
  <2>3. Accept(t, r, local)
    BY <1>9 DEF local, CreateDish
  <2> HIDE DEF me
  <2>4. Known(me)
    BY <2>1 DEF Known, Route, WizardKinds
  <2>5. Known([local EXCEPT !.rest = r])
    BY <2>4 DEF me
  <2> QED
    BY <1>1, <2>1, <2>3, <2>5 DEF WizardKinds
<1> QED
  BY <1>3, <1>4, <1>5, <1>6, <1>7, <1>8, <1>9 DEF Receive, TestOrder, Complete

-----------------------------------------------------------------------------
(* The free slug                                                           *)

LEMMA LeastNumber ==
  ASSUME NEW A, A \subseteq Nat, A # {}
  PROVE  \E n \in A : \A m \in A : n <= m
<1> DEFINE R == {ss \in Nat \X Nat : ss[1] < ss[2]}
<1>1. IsWellFoundedOn(R, Nat)
  BY NatLessThanWellFounded DEF OpToRel
<1>2. PICK n \in A : \A m \in A : <<m, n>> \notin R
  <2> HIDE DEF R
  <2> QED
    BY <1>1, WFMin, Zenon
<1>3. ASSUME NEW m \in A PROVE n <= m
  <2>1. n \in Nat /\ m \in Nat
    OBVIOUS
  <2>2. <<m, n>> \notin R
    BY <1>2
  <2> QED
    BY <2>1, <2>2
<1> QED
  BY <1>3

\* Of one suffix more than there are dishes, one is free; the loop finds the
\* first.
LEMMA SlugIsFree ==
  ASSUME TInv, NEW name \in DishNames
  PROVE  FreeSlug(name) \in Slugs \ dishes
<1> DEFINE N == 1..(Cardinality(dishes) + 1)
           Free == {n \in N : <<name, n>> \notin dishes}
<1>0. Cardinality(dishes) \in Nat /\ IsFiniteSet(dishes) /\ N \subseteq Nat \ {0}
  BY FS_CardinalityType DEF TInv
<1>1. Free # {}
  <2> SUFFICES ASSUME Free = {} PROVE FALSE
    OBVIOUS
  <2> DEFINE f == [n \in N |-> <<name, n>>]
  <2>1. f \in [N -> dishes]
    OBVIOUS
  <2>2. ASSUME NEW m \in N, NEW n \in N, f[m] = f[n] PROVE m = n
    BY <2>2
  <2>3. IsFiniteSet(N) /\ Cardinality(N) = Cardinality(dishes) + 1
    BY <1>0, FS_Interval
  <2>5. Cardinality(dishes) < Cardinality(N)
    BY <1>0, <2>3
  <2> HIDE DEF f, N
  <2>6. IsFiniteSet(dishes) /\ IsFiniteSet(N)
    BY <1>0, <2>3
  <2>4. \E m, n \in N : m # n /\ f[m] = f[n]
    BY <2>1, <2>5, <2>6, FS_PigeonHole
  <2> QED
    BY <2>2, <2>4
<1>2. PICK n \in Free : \A m \in Free : n <= m
  <2>1. Free \subseteq Nat
    BY <1>0
  <2> HIDE DEF Free
  <2> QED
    BY <1>1, <2>1, LeastNumber
<1>3. <<name, n>> \in ({name} \X N) \ dishes
  OBVIOUS
<1>4. ASSUME NEW m \in 1..(n - 1) PROVE <<name, m>> \in dishes
  <2>1. m \in N /\ ~(n <= m)
    BY <1>0, <1>2
  <2> QED
    BY <1>2, <2>1
<1> DEFINE P(s) == \A m \in 1..(s[2] - 1) : <<name, m>> \in dishes
<1>5. P(<<name, n>>)
  BY <1>4
<1>6. \E s \in ({name} \X N) \ dishes : P(s)
  BY <1>3, <1>5
<1>7. FreeSlug(name) \in ({name} \X N) \ dishes
  <2> HIDE DEF P
  <2>1. (CHOOSE s \in ({name} \X N) \ dishes : P(s)) \in ({name} \X N) \ dishes
    BY <1>6
  <2> QED
    BY <2>1 DEF FreeSlug, P
<1> QED
  BY <1>0, <1>7 DEF Slugs

-----------------------------------------------------------------------------
(* The handlers, one by one: each moves on or refuses                      *)

\* A step that changes the step counter of one request and nothing it knows.
LEMMA GoMoves ==
  ASSUME TInv, NEW t \in Tasks, NEW pc \in Steps \ {"idle", "tenant"}, Go(t, pc),
         task[t].pc \notin {"idle", "tenant"},
         Route([task[t] EXCEPT !.pc = pc]),
         pc = "photo" => task[t].photo,
         pc \in {"flush", "commit"} =>
            task[t].pc \in {"insert", "order"} \/ task[t].kind # "patch",
         ~Inserting([task[t] EXCEPT !.pc = pc]) \/ settings = << >>,
         pc # "insert",
         UNCHANGED <<tables, told, counters>>
  PROVE  LET me == [task[t] EXCEPT !.pc = pc] IN me \in Local /\ Moving(t, me)
<1> DEFINE me == [task[t] EXCEPT !.pc = pc]
<1>1. task[t] \in Local /\ Known(task[t])
  BY DEF TInv, TypeOK, Local
<1>2. /\ me \in Local /\ me.pc = pc /\ me.kind = task[t].kind /\ me.rest = task[t].rest
      /\ me.seen = task[t].seen /\ me.row = task[t].row /\ me.writes = task[t].writes
      /\ me.old = task[t].old /\ me.upload = task[t].upload /\ me.slug = task[t].slug
      /\ me.photo = task[t].photo
  BY <1>1 DEF Local
<1>3. task' = [task EXCEPT ![t] = me]
  BY DEF Go
<1>4. Route(me) /\ (Inserting(me) => Inserting(task[t]) \/ settings = << >>)
  OBVIOUS
<1> HIDE DEF me
<1>5. me.kind = "patch" /\ me.pc \in {"flush", "commit"} => task[t].pc \in {"flush", "commit"}
  BY <1>1, <1>2 DEF Known, Route
<1>6. Known(me)
  BY <1>1, <1>2, <1>4, <1>5 DEF Known
<1>7. ASSUME NEW i \in DOMAIN settings, Stale(me, i) PROVE Stale(task[t], i)
  BY <1>2, <1>5, <1>7 DEF Stale
<1>8. ~Beaten(me)
  BY <1>2 DEF Beaten
<1>9. Moving(t, me)
  BY <1>2, <1>3, <1>4, <1>6, <1>7, <1>8 DEF Moving
<1> QED
  BY <1>2, <1>9 DEF me

LEMMA LoadTenantMoves ==
  ASSUME TInv, NEW t \in Tasks, LoadTenant(t)
  PROVE  MovesOn(t)
<1> DEFINE me == [task[t] EXCEPT !.pc = FirstStep(task[t].kind), !.seen = step[task[t].rest]]
<1>1. task[t] \in Local /\ Known(task[t]) /\ task[t].pc = "tenant" /\ task[t].rest \in Restaurants
  BY DEF TInv, TypeOK, Local, LoadTenant, Known
<1>2. /\ FirstStep(task[t].kind) \in Steps \ {"idle", "tenant"}
      /\ step[task[t].rest] \in Wizard \cup {"none"}
  BY <1>1 DEF FirstStep, Steps, TInv, TypeOK
<1>3. /\ me \in Local /\ me.pc = FirstStep(task[t].kind) /\ me.kind = task[t].kind
      /\ me.rest = task[t].rest /\ me.seen = step[task[t].rest]
      /\ me.row = task[t].row /\ me.writes = task[t].writes
      /\ me.old = task[t].old /\ me.upload = task[t].upload /\ me.slug = task[t].slug
      /\ me.photo = task[t].photo
  BY <1>1, <1>2 DEF Local
<1>4. task' = [task EXCEPT ![t] = me]
  BY DEF LoadTenant
<1> HIDE DEF me
<1>5. /\ me.kind \in WizardKinds
      /\ me.pc = FirstStep(me.kind)
  BY <1>1, <1>3 DEF Known, Route
<1>6. /\ ~me.photo /\ ~task[t].photo /\ ~Inserting(me) /\ me.kind \notin {"patch", "dish"}
      /\ ~Beaten(me) /\ \A r : ~Announcing(me, r) /\ ~Announcing(task[t], r)
  BY <1>1, <1>3, <1>5 DEF WizardKinds, Known, Inserting, Beaten, Announcing, FirstStep
<1>7. Route(me)
  BY <1>5 DEF Route, WizardKinds, FirstStep
<1>8. Known(me)
  <2>1. me.pc # "idle"
    BY <1>2, <1>3
  <2>2. /\ me.kind = "menu_upload" => me.upload \in Uploads /\ me.slug = <<me.upload.dish, 1>>
        /\ me.kind \notin {"menu_upload", "dish"} => me.slug = NoSlug
        /\ me.row \in {0} \cup DOMAIN settings
        /\ me.rest \in Restaurants
        /\ "flag" \notin DOMAIN me.writes
    BY <1>1, <1>3, <1>6 DEF Known
  <2>3. me.pc \notin {"photo"}
    BY <1>5, <1>6, <1>7 DEF Route
  <2> QED
    BY <1>6, <1>7, <2>1, <2>2, <2>3 DEF Known
<1>9. Moving(t, me)
  BY <1>1, <1>2, <1>3, <1>4, <1>6, <1>8 DEF Moving, Stale, LoadTenant
<1>10. Announces(t, me) /\ Stores(t, me)
  BY <1>6 DEF Announces, Stores, Count, Picturing, LoadTenant, outside, TInv, TypeOK
<1> QED
  BY <1>3, <1>9, <1>10 DEF MovesOn

\* A refusal loses nothing but what was beaten to its slug.
LEMMA RefuseRefuses ==
  ASSUME TInv, NEW t \in Tasks, Refuse(t), task[t].pc # "idle",
         \A r \in Restaurants : ~Announcing(task[t], r),
         Picturing(task[t]) => Beaten(task[t]),
         UNCHANGED <<tables, outside, told, counters>>
  PROVE  Refusing(t)
BY DEF Refuse, Refusing

LEMMA AskTelegramGoes ==
  ASSUME TInv, NEW t \in Tasks, AskTelegram(t)
  PROVE  Refusing(t) \/ MovesOn(t)
<1>1. /\ task[t] \in Local /\ Known(task[t]) /\ task[t].pc = "ask"
      /\ task[t].kind = "telegram_setup" /\ ~task[t].photo
  BY DEF TInv, TypeOK, Local, AskTelegram, Known, Route
<1>2. CASE Refuse(t)
  BY <1>1, <1>2, RefuseRefuses DEF AskTelegram, Announcing, Picturing
<1>3. CASE Go(t, "row")
  <2> DEFINE me == [task[t] EXCEPT !.pc = "row"]
  <2>1. me.pc = "row" /\ me.kind = "telegram_setup" /\ ~me.photo
    BY <1>1 DEF Local
  <2> HIDE DEF me
  <2>2. Route(me) /\ ~Inserting(me)
    BY <2>1 DEF Route, Inserting
  <2>3. Announces(t, me) /\ Stores(t, me)
    BY <1>1, <2>1 DEF Announces, Stores, Announcing, Picturing, Count, AskTelegram, outside,
                      TInv, TypeOK
  <2>4. me \in Local /\ Moving(t, me)
    BY <1>1, <1>3, <2>2, GoMoves DEF AskTelegram, me, Steps
  <2> QED
    BY <2>3, <2>4 DEF MovesOn
<1> QED
  BY <1>2, <1>3 DEF AskTelegram

LEMMA ReadSettingsGoes ==
  ASSUME TInv, NEW t \in Tasks, ReadSettings(t)
  PROVE  Refusing(t) \/ MovesOn(t)
<1>0. announced' = announced /\ photos' = photos
  BY DEF ReadSettings, outside
<1>1. /\ task[t] \in Local /\ Known(task[t]) /\ task[t].pc = "row"
      /\ task[t].kind \in {"restaurant_info", "telegram_setup", "payment_setup", "patch"}
      /\ ~task[t].photo
  BY DEF TInv, TypeOK, Local, ReadSettings, Known, Route
<1>2. CASE Refuse(t)
  BY <1>1, <1>2, RefuseRefuses DEF ReadSettings, Announcing, Picturing
<1>3. ASSUME settings = << >>, task[t].kind \notin {"payment_setup", "patch"}, Go(t, "flush")
      PROVE  MovesOn(t)
  <2> DEFINE me == [task[t] EXCEPT !.pc = "flush"]
  <2>1. me.pc = "flush" /\ me.kind = task[t].kind /\ ~me.photo
    BY <1>1 DEF Local
  <2> HIDE DEF me
  <2>2. Route(me) /\ \A r : ~Announcing(me, r) /\ ~Announcing(task[t], r)
    BY <1>1, <2>1 DEF Route, Announcing
  <2>3. Announces(t, me) /\ Stores(t, me)
    BY <1>0, <1>1, <2>1, <2>2 DEF Announces, Stores, Picturing, Count, TInv, TypeOK
  <2>4. me \in Local /\ Moving(t, me)
    BY <1>1, <1>3, <2>2, GoMoves DEF ReadSettings, me, Steps
  <2> QED
    BY <2>3, <2>4 DEF MovesOn
<1>4. ASSUME NEW i \in DOMAIN settings,
             LET changed == Changed(settings[i], task[t].writes)
             IN  task' = [task EXCEPT
                    ![t].pc = "flush", ![t].row = i,
                    ![t].writes = [c \in changed |-> task[t].writes[c]],
                    ![t].old = [c \in changed |-> settings[i][c]]]
      PROVE  MovesOn(t)
  <2> DEFINE changed == Changed(settings[i], task[t].writes)
             w == [c \in changed |-> task[t].writes[c]]
             o == [c \in changed |-> settings[i][c]]
             me == [task[t] EXCEPT !.pc = "flush", !.row = i, !.writes = w, !.old = o]
  <2>1. settings[i] \in Row /\ i \in Nat \ {0}
    BY DEF TInv, TypeOK
  <2>2. PICK S \in SUBSET Columns : task[t].writes \in [S -> Values]
    BY <1>1 DEF Local, Assignments
  <2>3. changed \subseteq S /\ changed = DOMAIN w /\ changed = DOMAIN o
    BY <2>2 DEF Changed
  <2>4. w \in [changed -> Values] /\ o \in [changed -> Values]
    BY <2>1, <2>2, <2>3 DEF Row
  <2>5. w \in Assignments /\ o \in Assignments
    BY <2>2, <2>3, <2>4 DEF Assignments
  <2>6. /\ me \in Local /\ me.pc = "flush" /\ me.kind = task[t].kind /\ me.rest = task[t].rest
        /\ me.seen = task[t].seen /\ me.row = i /\ me.writes = w
        /\ me.old = o /\ me.upload = task[t].upload /\ me.slug = task[t].slug
        /\ me.photo = task[t].photo
    BY <1>1, <2>1, <2>5 DEF Local, Steps
  <2>7. task' = [task EXCEPT ![t] = me]
    BY <1>4
  <2>8. "flag" \in DOMAIN w => "flag" \in DOMAIN task[t].writes /\ o["flag"] = settings[i]["flag"]
    BY <2>3 DEF Changed
  <2> HIDE DEF me, w, o, changed
  <2>9. Route(me) /\ ~Inserting(me) /\ ~Beaten(me)
    BY <1>1, <2>1, <2>6 DEF Route, Inserting, Beaten
  <2>10. Known(me)
    BY <1>1, <2>1, <2>3, <2>6, <2>8, <2>9 DEF Known
  <2>11. ASSUME NEW j \in DOMAIN settings PROVE ~Stale(me, j)
    BY <2>6, <2>8 DEF Stale
  <2>12. Moving(t, me)
    BY <1>1, <2>6, <2>7, <2>9, <2>10, <2>11 DEF Moving, ReadSettings
  <2>13. \A r : ~Announcing(me, r) /\ ~Announcing(task[t], r)
    BY <1>1, <2>6 DEF Announcing
  <2>14. Announces(t, me) /\ Stores(t, me)
    BY <1>0, <1>1, <2>6, <2>13 DEF Announces, Stores, Picturing, Count, TInv, TypeOK
  <2> QED
    BY <2>6, <2>12, <2>14 DEF MovesOn
<1> QED
  BY <1>2, <1>3, <1>4 DEF ReadSettings

LEMMA UploadCategoryGoes ==
  ASSUME TInv, NEW t \in Tasks, UploadCategory(t)
  PROVE  Refusing(t) \/ MovesOn(t)
<1>1. /\ task[t] \in Local /\ Known(task[t]) /\ task[t].pc = "category"
      /\ task[t].kind = "menu_upload" /\ ~task[t].photo
  BY DEF TInv, TypeOK, Local, UploadCategory, Known, Route
<1>2. CASE Refuse(t)
  BY <1>1, <1>2, RefuseRefuses DEF UploadCategory, Announcing, Picturing
<1>3. CASE Go(t, "dishes")
  <2> DEFINE me == [task[t] EXCEPT !.pc = "dishes"]
  <2>1. me.pc = "dishes" /\ me.kind = "menu_upload" /\ ~me.photo
    BY <1>1 DEF Local
  <2> HIDE DEF me
  <2>2. Route(me) /\ ~Inserting(me)
    BY <2>1 DEF Route, Inserting
  <2>3. Announces(t, me) /\ Stores(t, me)
    BY <1>1, <2>1 DEF Announces, Stores, Announcing, Picturing, Count, UploadCategory, outside,
                      TInv, TypeOK
  <2>4. me \in Local /\ Moving(t, me)
    BY <1>1, <1>3, <2>2, GoMoves DEF UploadCategory, me, Steps
  <2> QED
    BY <2>3, <2>4 DEF MovesOn
<1> QED
  BY <1>2, <1>3 DEF UploadCategory

LEMMA FindCategoryGoes ==
  ASSUME TInv, NEW t \in Tasks, FindCategory(t)
  PROVE  Refusing(t) \/ MovesOn(t)
<1>1. /\ task[t] \in Local /\ Known(task[t]) /\ task[t].pc = "find"
      /\ task[t].kind = "dish"
  BY DEF TInv, TypeOK, Local, FindCategory, Known, Route
<1>2. CASE Refuse(t)
  BY <1>1, <1>2, RefuseRefuses DEF FindCategory, Announcing, Picturing
<1>3. ASSUME NEW pc \in {"photo", "slug"}, Go(t, pc), pc = "photo" <=> task[t].photo
      PROVE  MovesOn(t)
  <2> DEFINE me == [task[t] EXCEPT !.pc = pc]
  <2>1. me.pc = pc /\ me.kind = "dish" /\ me.photo = task[t].photo
    BY <1>1 DEF Local
  <2> HIDE DEF me
  <2>2. Route(me) /\ ~Inserting(me)
    BY <2>1 DEF Route, Inserting
  <2>3. Announces(t, me) /\ Stores(t, me)
    BY <1>1, <1>3, <2>1 DEF Announces, Stores, Announcing, Picturing, Count, FindCategory, outside,
                            TInv, TypeOK
  <2>4. me \in Local /\ Moving(t, me)
    BY <1>1, <1>3, <2>2, GoMoves DEF FindCategory, me, Steps
  <2> QED
    BY <2>3, <2>4 DEF MovesOn
<1>4. CASE Go(t, IF task[t].photo THEN "photo" ELSE "slug")
  BY <1>1, <1>3, <1>4 DEF Local
<1> QED
  BY <1>2, <1>4 DEF FindCategory

LEMMA UploadPhotoGoes ==
  ASSUME TInv, NEW t \in Tasks, UploadPhoto(t)
  PROVE  MovesOn(t)
<1>1. /\ task[t] \in Local /\ Known(task[t]) /\ task[t].pc = "photo"
      /\ task[t].kind = "dish" /\ task[t].photo
  BY DEF TInv, TypeOK, Local, UploadPhoto, Known, Route
<1> DEFINE me == [task[t] EXCEPT !.pc = "slug"]
<1>2. me.pc = "slug" /\ me.kind = "dish" /\ me.photo
  BY <1>1 DEF Local
<1> HIDE DEF me
<1>3. Route(me) /\ ~Inserting(me)
  BY <1>2 DEF Route, Inserting
<1>4. Announces(t, me) /\ Stores(t, me)
  BY <1>1, <1>2 DEF Announces, Stores, Announcing, Picturing, Count, UploadPhoto, TInv, TypeOK
<1>5. me \in Local /\ Moving(t, me)
  BY <1>1, <1>3, GoMoves DEF UploadPhoto, me, Steps
<1> QED
  BY <1>4, <1>5 DEF MovesOn

LEMMA ChooseSlugGoes ==
  ASSUME TInv, NEW t \in Tasks, ChooseSlug(t)
  PROVE  MovesOn(t)
<1>1. /\ task[t] \in Local /\ Known(task[t]) /\ task[t].pc = "slug"
      /\ task[t].kind = "dish" /\ task[t].slug \in Slugs
  BY DEF TInv, TypeOK, Local, ChooseSlug, Known, Route
<1> DEFINE slug == FreeSlug(task[t].slug[1])
           me == [task[t] EXCEPT !.pc = "insert", !.slug = slug]
<1>2. slug \in Slugs \ dishes
  BY <1>1, SlugIsFree DEF Slugs
<1>3. task' = [task EXCEPT ![t] = me]
  BY DEF ChooseSlug
<1> HIDE DEF slug
<1>4. /\ me \in Local /\ me.pc = "insert" /\ me.kind = "dish" /\ me.rest = task[t].rest
      /\ me.seen = task[t].seen /\ me.row = task[t].row /\ me.writes = task[t].writes
      /\ me.old = task[t].old /\ me.upload = task[t].upload /\ me.slug = slug
      /\ me.photo = task[t].photo
  BY <1>1, <1>2 DEF Local, Steps
<1> HIDE DEF me
<1>5. Route(me) /\ ~Inserting(me) /\ ~Beaten(me) /\ \A i : ~Stale(me, i)
  BY <1>2, <1>4 DEF Route, Inserting, Beaten, Stale
<1>6. Known(me)
  BY <1>1, <1>2, <1>4, <1>5 DEF Known
<1>7. Moving(t, me)
  BY <1>1, <1>3, <1>4, <1>5, <1>6 DEF Moving, ChooseSlug
<1>8. Announces(t, me) /\ Stores(t, me)
  BY <1>1, <1>4 DEF Announces, Stores, Announcing, Picturing, Count, ChooseSlug, outside,
                    TInv, TypeOK
<1> QED
  BY <1>4, <1>7, <1>8 DEF MovesOn

LEMMA InsertDishGoes ==
  ASSUME TInv, NEW t \in Tasks, InsertDish(t)
  PROVE  Refusing(t) \/ MovesOn(t)
<1>1. /\ task[t] \in Local /\ Known(task[t]) /\ task[t].pc = "insert"
      /\ task[t].kind = "dish"
  BY DEF TInv, TypeOK, Local, InsertDish, Known, Route
<1>2. CASE task[t].slug \in dishes
  BY <1>1, <1>2, RefuseRefuses DEF InsertDish, Announcing, Picturing, Beaten
<1>3. CASE task[t].slug \notin dishes
  <2> DEFINE me == [task[t] EXCEPT !.pc = "commit"]
  <2>1. me.pc = "commit" /\ me.kind = "dish" /\ me.photo = task[t].photo
    BY <1>1 DEF Local
  <2> HIDE DEF me
  <2>2. Route(me) /\ ~Inserting(me)
    BY <2>1 DEF Route, Inserting
  <2>3. Announces(t, me) /\ Stores(t, me)
    BY <1>1, <2>1 DEF Announces, Stores, Announcing, Picturing, Count, InsertDish, outside,
                      TInv, TypeOK
  <2>4. me \in Local /\ Moving(t, me)
    BY <1>1, <1>3, <2>2, GoMoves DEF InsertDish, me, Steps
  <2> QED
    BY <2>3, <2>4 DEF MovesOn
<1> QED
  BY <1>2, <1>3

LEMMA PlaceTestOrderGoes ==
  ASSUME TInv, NEW t \in Tasks, PlaceTestOrder(t)
  PROVE  Refusing(t) \/ MovesOn(t)
<1>1. /\ task[t] \in Local /\ Known(task[t]) /\ task[t].pc = "order"
      /\ task[t].kind = "test_order" /\ ~task[t].photo /\ task[t].rest \in Restaurants
  BY DEF TInv, TypeOK, Local, PlaceTestOrder, Known, Route
<1>2. CASE dishes = {}
  BY <1>1, <1>2, RefuseRefuses DEF PlaceTestOrder, Announcing, Picturing
<1>3. CASE dishes # {}
  <2> DEFINE me == [task[t] EXCEPT !.pc = "flush"]
  <2>1. me.pc = "flush" /\ me.kind = "test_order" /\ ~me.photo /\ me.rest = task[t].rest
    BY <1>1 DEF Local
  <2> HIDE DEF me
  <2>2. Route(me) /\ ~Inserting(me)
    BY <2>1 DEF Route, Inserting
  <2>3. announced' = [announced EXCEPT ![task[t].rest] = @ + 1] /\ photos' = photos
    BY <1>3 DEF PlaceTestOrder
  <2>4. announced \in [Restaurants -> Nat] /\ photos \in Nat
    BY DEF TInv, TypeOK
  <2>5. announced' \in [Restaurants -> Nat]
    BY <1>1, <2>3, <2>4
  <2>6. ASSUME NEW r \in Restaurants
        PROVE  announced'[r] - announced[r]
                  = Count(Announcing(me, r)) - Count(Announcing(task[t], r))
    BY <1>1, <2>1, <2>3, <2>4, <2>6 DEF Announcing, Count
  <2>7. Announces(t, me) /\ Stores(t, me)
    BY <1>1, <2>1, <2>3, <2>4, <2>5, <2>6 DEF Announces, Stores, Picturing, Count
  <2>8. me \in Local /\ Moving(t, me)
    BY <1>1, <1>3, <2>2, GoMoves DEF PlaceTestOrder, me, Steps
  <2> QED
    BY <2>7, <2>8 DEF MovesOn
<1> QED
  BY <1>2, <1>3

LEMMA FlushGoes ==
  ASSUME TInv, NEW t \in Tasks, Flush(t)
  PROVE  Refusing(t) \/ MovesOn(t)
<1>1. /\ task[t] \in Local /\ Known(task[t]) /\ task[t].pc \in {"flush", "dishes"}
      /\ task[t].kind # "dish" /\ ~task[t].photo
  BY DEF TInv, TypeOK, Local, Flush, Known, Route
<1>2. CASE task[t].slug \in dishes
  <2>1. task[t].kind # "test_order"
    <3>1. NoSlug \notin dishes
      BY NoSlugIsNone DEF TInv, TypeOK
    <3> QED
      BY <1>1, <1>2, <3>1 DEF Known
  <2> QED
    BY <1>1, <1>2, <2>1, RefuseRefuses DEF Flush, Announcing, Picturing
<1>3. CASE task[t].slug \notin dishes
  <2> DEFINE me == [task[t] EXCEPT !.pc = "commit"]
  <2>1. /\ me \in Local /\ me.pc = "commit" /\ me.kind = task[t].kind /\ me.rest = task[t].rest
        /\ me.seen = task[t].seen /\ me.row = task[t].row /\ me.writes = task[t].writes
        /\ me.old = task[t].old /\ me.upload = task[t].upload /\ me.slug = task[t].slug
        /\ me.photo = task[t].photo
    BY <1>1 DEF Local, Steps
  <2>2. task' = [task EXCEPT ![t] = me]
    BY <1>3 DEF Flush, Go
  <2> HIDE DEF me
  <2>3. task[t].pc # "flush" => task[t].kind = "menu_upload"
    BY <1>1 DEF Known, Route
  <2>4. Route(me) /\ ~Beaten(me) /\ (Inserting(me) => Inserting(task[t]))
    BY <1>1, <2>1, <2>3 DEF Route, Inserting, Beaten
  <2>5. Known(me)
    BY <1>1, <2>1, <2>3, <2>4 DEF Known
  <2>6. ASSUME NEW i \in DOMAIN settings, Stale(me, i) PROVE Stale(task[t], i)
    BY <1>1, <2>1, <2>3, <2>6 DEF Stale
  <2>7. Moving(t, me)
    BY <1>1, <1>3, <2>1, <2>2, <2>4, <2>5, <2>6 DEF Moving, Flush
  <2>8. Announces(t, me) /\ Stores(t, me)
    BY <1>1, <1>3, <2>1, <2>3 DEF Announces, Stores, Announcing, Picturing, Count, Flush, outside,
                                  TInv, TypeOK
  <2> QED
    BY <2>1, <2>7, <2>8 DEF MovesOn
<1> QED
  BY <1>2, <1>3

LEMMA HandlerGoes ==
  ASSUME TInv, NEW t \in Tasks, HandlerStep(t)
  PROVE  Refusing(t) \/ MovesOn(t) \/ Commit(t)
BY LoadTenantMoves, AskTelegramGoes, ReadSettingsGoes, UploadCategoryGoes, FindCategoryGoes,
   UploadPhotoGoes, ChooseSlugGoes, InsertDishGoes, PlaceTestOrderGoes, FlushGoes
   DEF HandlerStep

-----------------------------------------------------------------------------
(* The type, and what each request knows                                   *)

\* What a request knows holds while rows are only added to the settings.
LEMMA OthersKnow ==
  ASSUME TInv, NEW t \in Tasks, NEW me \in Local, task' = [task EXCEPT ![t] = me],
         DOMAIN settings \subseteq DOMAIN settings', Known(me)'
  PROVE  /\ task' \in [Tasks -> Local]
         /\ \A u \in Tasks : Known(task[u])'
<1>1. task \in [Tasks -> Local]
  BY DEF TInv, TypeOK, Local
<1>2. task'[t] = me /\ \A u \in Tasks \ {t} : task'[u] = task[u]
  BY <1>1
<1>3. ASSUME NEW u \in Tasks PROVE Known(task[u])'
  <2>1. CASE u = t
    BY <1>2, <2>1 DEF Known
  <2>2. CASE u # t
    <3>1. Known(task[u]) /\ task'[u] = task[u]
      BY <1>2, <2>2 DEF TInv
    <3> QED
      BY <3>1 DEF Known
  <2> QED
    BY <2>1, <2>2
<1> QED
  BY <1>1, <1>3

LEMMA IdleKnows == Known(Idle) /\ Known(Idle)'
BY IdleLocal DEF Known, Route

LEMMA ArrivingTInv ==
  ASSUME TInv, NEW t \in Tasks, NEW r \in Restaurants, NEW me \in Local, Arriving(t, r, me)
  PROVE  TInv'
<1>1. Known(me)'
  BY DEF Arriving, Known, tables
<1>2. task' \in [Tasks -> Local] /\ \A u \in Tasks : Known(task[u])'
  BY <1>1, OthersKnow DEF Arriving, tables
<1>3. overlaps' \in 0..MaxStrays /\ detours' \in 0..MaxStrays /\ edits' \in 0..MaxStrays
  <2>1. overlaps \in Nat /\ detours \in Nat /\ edits \in Nat
    BY DEF TInv, TypeOK
  <2> QED
    BY <2>1, SetupAssumption DEF Arriving, Count
<1>4. TypeOK'
  BY <1>2, <1>3 DEF TInv, TypeOK, Arriving, tables, outside, Local
<1> QED
  BY <1>2, <1>4 DEF TInv, Arriving, tables

LEMMA MovingTInv ==
  ASSUME TInv, NEW t \in Tasks, NEW me \in Local, Moving(t, me), Announces(t, me), Stores(t, me)
  PROVE  TInv'
<1>1. Known(me)'
  BY DEF Moving, Known, tables
<1>2. task' \in [Tasks -> Local] /\ \A u \in Tasks : Known(task[u])'
  BY <1>1, OthersKnow DEF Moving, tables
<1>4. TypeOK'
  BY <1>2 DEF TInv, TypeOK, Moving, Announces, Stores, tables, counters, Local
<1> QED
  BY <1>2, <1>4 DEF TInv, Moving, tables

LEMMA RefusingTInv ==
  ASSUME TInv, NEW t \in Tasks, task' = [task EXCEPT ![t] = Idle],
         UNCHANGED <<tables, outside, told, overlaps, detours, edits>>,
         failures' \in 0..MaxFailures
  PROVE  TInv'
<1>1. Known(Idle)'
  BY IdleKnows
<1>2. task' \in [Tasks -> Local] /\ \A u \in Tasks : Known(task[u])'
  BY <1>1, IdleLocal, OthersKnow DEF tables
<1>3. TypeOK'
  BY <1>2 DEF TInv, TypeOK, tables, outside, Local
<1> QED
  BY <1>2, <1>3 DEF TInv, tables

LEMMA SettingsStored ==
  ASSUME TInv, NEW t \in Tasks, Commit(t)
  PROVE  /\ settings' \in Seq(Row)
         /\ Len(settings') = Len(settings) + Count(Inserting(task[t]))
         /\ \A i \in DOMAIN settings :
               settings'[i]["flag"] = IF task[t].row = i /\ "flag" \in DOMAIN task[t].writes
                                      THEN task[t].writes["flag"] ELSE settings[i]["flag"]
<1> DEFINE me == task[t]
<1>1. me \in Local /\ Known(me) /\ me.pc = "commit" /\ settings \in Seq(Row)
  BY DEF TInv, TypeOK, Local, Commit
<1>2. PICK S \in SUBSET Columns : me.writes \in [S -> Values]
  BY <1>1 DEF Local, Assignments
<1>3. settings' = StoredSettings(t)
  BY DEF Commit
<1>4. ASSUME NEW row \in Row
      PROVE  /\ Over(row, me.writes) \in Row
             /\ Over(row, me.writes)["flag"]
                   = IF "flag" \in DOMAIN me.writes THEN me.writes["flag"] ELSE row["flag"]
  BY <1>2 DEF Over, Row, Columns
<1>5. Fresh \in Row
  BY DEF Fresh, Row, Values
<1>6. CASE WritesRow(t)
  <2>1. me.row \in DOMAIN settings /\ me.row # 0 /\ settings[me.row] \in Row
    BY <1>1, <1>6 DEF Known, WritesRow
  <2>2. settings' = [settings EXCEPT ![me.row] = Over(@, me.writes)]
    BY <1>3, <1>6, <2>1 DEF StoredSettings
  <2>3. ~Inserting(me)
    BY <2>1 DEF Inserting
  <2> QED
    BY <1>1, <1>4, <2>1, <2>2, <2>3 DEF Count
<1>7. CASE Inserting(me)
  <2>1. ~WritesRow(t)
    BY <1>7 DEF Inserting, WritesRow
  <2>2. settings' = Append(settings, Over(Fresh, me.writes))
    BY <1>3, <1>7, <2>1 DEF StoredSettings, Inserting
  <2>3. me.row = 0 /\ \A i \in DOMAIN settings : i # 0
    BY <1>1, <1>7 DEF Inserting
  <2> QED
    BY <1>1, <1>4, <1>5, <1>7, <2>2, <2>3 DEF Count
<1>8. CASE ~WritesRow(t) /\ ~Inserting(me)
  <2>1. settings' = settings
    BY <1>1, <1>3, <1>8 DEF StoredSettings, Inserting
  <2>2. ASSUME NEW i \in DOMAIN settings, me.row = i, "flag" \in DOMAIN me.writes PROVE FALSE
    <3>1. me.writes = << >>
      BY <1>1, <1>8, <2>2 DEF WritesRow, Nothing
    <3> QED
      BY <2>2, <3>1
  <2> QED
    BY <1>1, <1>8, <2>1, <2>2 DEF Count
<1> QED
  BY <1>6, <1>7, <1>8

LEMMA CommitTInv ==
  ASSUME TInv, NEW t \in Tasks, Commit(t)
  PROVE  TInv'
<1> DEFINE me == task[t]
<1>1. /\ me \in Local /\ Known(me) /\ me.pc = "commit" /\ me.rest \in Restaurants
      /\ me.kind = "menu_upload" => me.upload \in Uploads
  BY DEF TInv, TypeOK, Local, Commit, Known
<1>2. /\ settings' \in Seq(Row) /\ DOMAIN settings \subseteq DOMAIN settings'
  BY SettingsStored DEF TInv, TypeOK, Count
<1>3. task' \in [Tasks -> Local] /\ \A u \in Tasks : Known(task[u])'
  BY <1>2, IdleLocal, IdleKnows, OthersKnow DEF Commit
<1>4. NextStep(me.kind) \in Wizard
  BY <1>1 DEF NextStep, Wizard
<1>5. step' \in [Restaurants -> Wizard \cup {"none"}] /\ told' \in [Restaurants -> Wizard \cup {"none"}]
  BY <1>1, <1>4 DEF Commit, StoredStep, TInv, TypeOK
<1>6. audit' \in Seq([row: Nat \ {0}, old: Assignments, new: Assignments])
  <2>1. audit' = Audited(t) /\ audit \in Seq([row: Nat \ {0}, old: Assignments, new: Assignments])
    BY DEF Commit, TInv, TypeOK
  <2>2. me.kind = "patch" => me.row \in Nat \ {0} /\ me.old \in Assignments /\ me.writes \in Assignments
    BY <1>1 DEF Known, Local
  <2>3. ASSUME me.kind = "patch"
        PROVE  [row |-> me.row, old |-> me.old, new |-> me.writes]
                  \in [row: Nat \ {0}, old: Assignments, new: Assignments]
    BY <2>2, <2>3
  <2> DEFINE entry == [row |-> me.row, old |-> me.old, new |-> me.writes]
             Entries == [row: Nat \ {0}, old: Assignments, new: Assignments]
  <2>4. audit' = audit \/ (audit' = Append(audit, entry) /\ entry \in Entries)
    BY <2>1, <2>3 DEF Audited
  <2>5. audit \in Seq(Entries)
    BY <2>1
  <2> HIDE DEF entry, Entries
  <2>6. audit' \in Seq(Entries)
    BY <2>4, <2>5
  <2> QED
    BY <2>6 DEF Entries
<1>7. categories' \subseteq {u.category : u \in Uploads}
  BY <1>1 DEF Commit, TInv, TypeOK
<1>8. dishes' \subseteq Slugs /\ IsFiniteSet(dishes')
  <2>1. dishes' = dishes \cup ({me.slug} \ {NoSlug}) /\ me.slug \in Slugs \cup {NoSlug}
    BY <1>1 DEF Commit, Local
  <2>2. dishes' = dishes \/ dishes' = dishes \cup {me.slug}
    BY <2>1
  <2>3. IsFiniteSet(dishes')
    BY <2>2, FS_AddElement DEF TInv
  <2> QED
    BY <2>1, <2>3 DEF TInv, TypeOK
<1>9. orders' \in [Restaurants -> Nat] /\ completedAt' \subseteq Restaurants /\ pictured' \in Nat
  BY <1>1 DEF Commit, TInv, TypeOK
<1>10. UNCHANGED <<announced, photos, overlaps, detours, edits, failures>>
  BY DEF Commit, outside, counters
<1>11. TypeOK'
  BY <1>2, <1>3, <1>5, <1>6, <1>7, <1>8, <1>9, <1>10 DEF TInv, TypeOK, Local
<1> QED
  BY <1>3, <1>8, <1>11 DEF TInv

\* Every step has one of five shapes.
LEMMA StepShapes ==
  ASSUME TInv, Next
  PROVE  \E t \in Tasks :
            \/ \E r \in Restaurants, me \in Local : Arriving(t, r, me)
            \/ \E me \in Local : Moving(t, me) /\ Announces(t, me) /\ Stores(t, me)
            \/ Refusing(t)
            \/ Commit(t)
            \/ Fail(t)
<1>1. PICK t \in Tasks : (\E r \in Restaurants : Receive(t, r)) \/ HandlerStep(t) \/ Fail(t)
  BY DEF Next
<1>2. CASE \E r \in Restaurants : Receive(t, r)
  BY <1>2, ReceiveArrives
<1>3. CASE HandlerStep(t)
  BY <1>3, HandlerGoes DEF MovesOn
<1> QED
  BY <1>1, <1>2, <1>3

LEMMA InitTInv == Init => TInv
<1> SUFFICES ASSUME Init PROVE TInv
  OBVIOUS
<1>1. Cardinality(Restaurants) \in Nat
  BY SetupAssumption, FS_CardinalityType
<1>2. /\ settings \in Seq(Row) /\ step \in [Restaurants -> Wizard \cup {"none"}]
      /\ told = step
  <2>1. Fresh \in Row
    BY DEF Fresh, Row, Values
  <2>2. CASE settings = << >> /\ step = [r \in Restaurants |-> "none"]
    BY <2>2 DEF Init
  <2>3. CASE /\ settings = [i \in 1..Cardinality(Restaurants) |-> Fresh]
             /\ step = [r \in Restaurants |-> "restaurant_info"]
    BY <1>1, <2>1, <2>3 DEF Init, Wizard
  <2> QED
    BY <2>2, <2>3 DEF Init
<1>3. task \in [Tasks -> Local] /\ \A t \in Tasks : Known(task[t])
  BY IdleLocal, IdleKnows DEF Init
<1>4. TypeOK
  BY <1>2, <1>3, SetupAssumption DEF Init, TypeOK, Local
<1>5. IsFiniteSet(dishes)
  BY FS_EmptySet DEF Init
<1> QED
  BY <1>3, <1>4, <1>5 DEF TInv

LEMMA NextTInv == TInv /\ [Next]_vars => TInv'
<1> SUFFICES ASSUME TInv, [Next]_vars PROVE TInv'
  OBVIOUS
<1>1. CASE UNCHANGED vars
  BY <1>1 DEF vars, tables, outside, counters, TInv, TypeOK, Known
<1>2. CASE Next
  <2>1. PICK t \in Tasks :
            \/ \E r \in Restaurants, me \in Local : Arriving(t, r, me)
            \/ \E me \in Local : Moving(t, me) /\ Announces(t, me) /\ Stores(t, me)
            \/ Refusing(t)
            \/ Commit(t)
            \/ Fail(t)
    BY <1>2, StepShapes
  <2>2. CASE \E r \in Restaurants, me \in Local : Arriving(t, r, me)
    BY <2>2, ArrivingTInv
  <2>3. CASE \E me \in Local : Moving(t, me) /\ Announces(t, me) /\ Stores(t, me)
    BY <2>3, MovingTInv
  <2>4. CASE Refusing(t)
    <3>1. failures' \in 0..MaxFailures /\ UNCHANGED <<tables, outside, told, overlaps, detours, edits>>
      BY <2>4 DEF Refusing, counters, TInv, TypeOK
    <3> QED
      BY <2>4, <3>1, RefusingTInv DEF Refusing
  <2>5. CASE Commit(t)
    BY <2>5, CommitTInv
  <2>6. CASE Fail(t)
    <3>1. failures' \in 0..MaxFailures
      BY <2>6, SetupAssumption DEF Fail, TInv, TypeOK
    <3> QED
      BY <2>6, <3>1, RefusingTInv DEF Fail, Refuse
  <2> QED
    BY <2>1, <2>2, <2>3, <2>4, <2>5, <2>6
<1> QED
  BY <1>1, <1>2

LEMMA AlwaysTInv == Spec => []TInv
BY InitTInv, NextTInv, PTL DEF Spec

\* The tables, the requests and the counters keep their types; above all,
\* the loop over suffixes always finds a slug, and a PATCH that reaches its
\* flush has read the row that it writes (routes/settings.py, routes/menu.py).
THEOREM TypeCorrect == Spec => []TypeOK
<1>1. TInv => TypeOK
  BY DEF TInv
<1> QED
  BY <1>1, AlwaysTInv, PTL

-----------------------------------------------------------------------------
(* How many are at work                                                    *)

LEMMA AtWorkArriving ==
  ASSUME TInv, NEW t \in Tasks, NEW r \in Restaurants, NEW me \in Local, Arriving(t, r, me)
  PROVE  /\ AtWork' = AtWork \cup {t}
         /\ Cardinality(AtWork') = Cardinality(AtWork) + 1
         /\ AtWork = {} => Cardinality(AtWork) = 0
<1>1. AtWork' = AtWork \cup {t} /\ t \notin AtWork
  BY DEF AtWork, Arriving, TInv, TypeOK
<1>2. IsFiniteSet(AtWork)
  BY AtWorkFinite
<1> QED
  BY <1>1, <1>2, FS_AddElement, FS_EmptySet

LEMMA AtWorkMoving ==
  ASSUME TInv, NEW t \in Tasks, NEW me \in Local, Moving(t, me)
  PROVE  AtWork' = AtWork
BY DEF AtWork, Moving, TInv, TypeOK

LEMMA AtWorkLeaving ==
  ASSUME TInv, NEW t \in Tasks, task[t].pc # "idle", task' = [task EXCEPT ![t] = Idle]
  PROVE  /\ AtWork' = AtWork \ {t} /\ t \in AtWork
         /\ Cardinality(AtWork') = Cardinality(AtWork) - 1
<1>1. AtWork' = AtWork \ {t} /\ t \in AtWork
  BY IdleLocal DEF AtWork, TInv, TypeOK
<1>2. IsFiniteSet(AtWork)
  BY AtWorkFinite
<1> QED
  BY <1>1, <1>2, FS_RemoveElement

LEMMA CrowdStays ==
  ASSUME TInv, CrowdBounded, [Next]_vars
  PROVE  CrowdBounded'
<1>0. overlaps \in Nat /\ Cardinality(AtWork) \in Nat
  BY AtWorkFinite, FS_CardinalityType DEF TInv, TypeOK
<1>1. CASE UNCHANGED vars
  BY <1>1 DEF vars, counters, CrowdBounded, AtWork
<1>2. CASE Next
  <2>1. PICK t \in Tasks :
            \/ \E r \in Restaurants, me \in Local : Arriving(t, r, me)
            \/ \E me \in Local : Moving(t, me) /\ Announces(t, me) /\ Stores(t, me)
            \/ Refusing(t)
            \/ Commit(t)
            \/ Fail(t)
    BY <1>2, StepShapes
  <2>2. ASSUME NEW r \in Restaurants, NEW me \in Local, Arriving(t, r, me)
        PROVE  CrowdBounded'
    <3>1. overlaps' = overlaps + Count(AtWork # {})
      BY <2>2 DEF Arriving
    <3>2. /\ Cardinality(AtWork') = Cardinality(AtWork) + 1
          /\ AtWork = {} => Cardinality(AtWork) = 0
      BY <2>2, AtWorkArriving
    <3> QED
      BY <1>0, <3>1, <3>2 DEF CrowdBounded, Count
  <2>3. ASSUME NEW me \in Local, Moving(t, me)
        PROVE  CrowdBounded'
    BY <2>3, AtWorkMoving DEF Moving, counters, CrowdBounded
  <2>4. ASSUME task[t].pc # "idle", task' = [task EXCEPT ![t] = Idle], overlaps' = overlaps
        PROVE  CrowdBounded'
    <3>1. Cardinality(AtWork') = Cardinality(AtWork) - 1
      BY <2>4, AtWorkLeaving
    <3> QED
      BY <1>0, <2>4, <3>1 DEF CrowdBounded
  <2>5. CASE Refusing(t)
    BY <2>4, <2>5 DEF Refusing, counters
  <2>6. CASE Commit(t)
    BY <2>4, <2>6 DEF Commit, counters
  <2>7. CASE Fail(t)
    BY <2>4, <2>7 DEF Fail, Refuse
  <2> QED
    BY <2>1, <2>2, <2>3, <2>5, <2>6, <2>7
<1> QED
  BY <1>1, <1>2

LEMMA AlwaysCrowdBounded == Spec => [](TInv /\ CrowdBounded)
<1>1. Init => CrowdBounded
  <2> SUFFICES ASSUME Init PROVE CrowdBounded
    OBVIOUS
  <2>1. AtWork = {}
    BY IdleLocal DEF Init, AtWork
  <2> QED
    BY <2>1, FS_EmptySet DEF Init, CrowdBounded
<1> QED
  BY <1>1, InitTInv, NextTInv, CrowdStays, PTL DEF Spec

LEMMA Alone ==
  ASSUME TInv, CrowdBounded, overlaps = 0, NEW t \in AtWork, NEW u \in AtWork
  PROVE  t = u
<1> SUFFICES ASSUME t # u PROVE FALSE
  OBVIOUS
<1>1. IsFiniteSet({t}) /\ Cardinality({t}) = 1 /\ u \notin {t}
  BY FS_Singleton
<1>2. Cardinality({t} \cup {u}) = 2
  BY <1>1, FS_AddElement
<1>3. IsFiniteSet(AtWork) /\ {t} \cup {u} \in SUBSET AtWork
  BY AtWorkFinite
<1>4. Cardinality({t} \cup {u}) <= Cardinality(AtWork) /\ Cardinality(AtWork) \in Nat
  BY <1>3, FS_Subset, FS_CardinalityType
<1> QED
  BY <1>2, <1>4 DEF CrowdBounded

-----------------------------------------------------------------------------
(* The rows of settings                                                    *)

Inserters == {t \in Tasks : Inserting(task[t])}

\* Each request that is about to insert counts as its row.  While there is no
\* row any request that finds none may go to insert: as many as are at work.
RowsCounted ==
    settings # << >> =>
        Len(settings) + Cardinality(Inserters) <= Cardinality(Restaurants) + overlaps

RowsInv == CrowdBounded /\ RowsCounted

LEMMA InsertersFinite == IsFiniteSet(Inserters) /\ Cardinality(Inserters) \in Nat
BY SetupAssumption, FS_Subset, FS_CardinalityType DEF Inserters

LEMMA FewerInserters ==
  ASSUME Inserters' \subseteq Inserters
  PROVE  Cardinality(Inserters') \in Nat /\ Cardinality(Inserters') <= Cardinality(Inserters)
<1>1. IsFiniteSet(Inserters) /\ Inserters' \in SUBSET Inserters
  BY InsertersFinite
<1>2. IsFiniteSet(Inserters') /\ Cardinality(Inserters') <= Cardinality(Inserters)
  BY <1>1, FS_Subset
<1> QED
  BY <1>2, FS_CardinalityType

\* Steps other than a COMMIT leave the rows alone.
LEMMA SettingsUnchangedRows ==
  ASSUME TInv, RowsCounted, UNCHANGED settings, overlaps' \in Nat, overlaps' >= overlaps,
         settings # << >> => Inserters' \subseteq Inserters
  PROVE  RowsCounted'
<1>1. CASE settings = << >>
  BY <1>1 DEF RowsCounted
<1>2. CASE settings # << >>
  <2>1. Cardinality(Inserters') \in Nat /\ Cardinality(Inserters') <= Cardinality(Inserters)
    BY <1>2, FewerInserters
  <2>2. /\ Cardinality(Inserters) \in Nat /\ Cardinality(Restaurants) \in Nat
        /\ overlaps \in Nat /\ Len(settings) \in Nat
    BY InsertersFinite, SetupAssumption, FS_CardinalityType DEF TInv, TypeOK
  <2> QED
    BY <1>2, <2>1, <2>2 DEF RowsCounted
<1> QED
  BY <1>1, <1>2

LEMMA CommitRows ==
  ASSUME TInv, RowsInv, NEW t \in Tasks, Commit(t)
  PROVE  RowsCounted'
<1>1. /\ Len(settings') = Len(settings) + Count(Inserting(task[t]))
      /\ Len(settings) \in Nat /\ overlaps' = overlaps /\ overlaps \in Nat
      /\ settings' \in Seq(Row) /\ settings \in Seq(Row)
  <2>1. Len(settings') = Len(settings) + Count(Inserting(task[t])) /\ settings' \in Seq(Row)
    BY SettingsStored
  <2>2. overlaps' = overlaps
    BY DEF Commit, counters
  <2>3. overlaps \in Nat /\ settings \in Seq(Row)
    BY DEF TInv, TypeOK
  <2>4. Len(settings) \in Nat
    BY <2>3
  <2> QED
    BY <2>1, <2>2, <2>3, <2>4
<1>2. Inserters' = Inserters \ {t}
  BY IdleLocal DEF Inserters, Inserting, Commit, TInv, TypeOK
<1>3. /\ IsFiniteSet(Inserters) /\ Cardinality(Inserters) \in Nat
      /\ Cardinality(Restaurants) \in Nat
  BY InsertersFinite, SetupAssumption, FS_CardinalityType
<1>4. CASE ~Inserting(task[t])
  <2>1. Len(settings') = Len(settings)
    BY <1>1, <1>4 DEF Count
  <2>2. Inserters' = Inserters
    BY <1>2, <1>4 DEF Inserters
  <2>3. settings' # << >> => settings # << >>
    BY <1>1, <2>1
  <2> QED
    BY <1>1, <2>1, <2>2, <2>3 DEF RowsInv, RowsCounted
<1>5. CASE Inserting(task[t])
  <2>1. Len(settings') = Len(settings) + 1
    BY <1>1, <1>5 DEF Count
  <2>2. t \in Inserters
    BY <1>5 DEF Inserters
  <2>3. Cardinality(Inserters') = Cardinality(Inserters) - 1
    BY <1>2, <1>3, <2>2, FS_RemoveElement
  <2>4. CASE settings # << >>
    BY <1>1, <1>3, <2>1, <2>3, <2>4 DEF RowsInv, RowsCounted
  <2>5. CASE settings = << >>
    <3>1. Cardinality(Inserters) <= Cardinality(AtWork) /\ Cardinality(AtWork) \in Nat
      <4>1. Inserters \in SUBSET AtWork
        BY DEF Inserters, Inserting, AtWork
      <4> QED
        BY <4>1, AtWorkFinite, FS_Subset, FS_CardinalityType
    <3>2. Cardinality(Restaurants) >= 1
      <4>1. task[t].rest \in Restaurants
        BY DEF TInv, Known, Commit
      <4>2. Cardinality(Restaurants) # 0
        BY <4>1, SetupAssumption, FS_EmptySet
      <4> QED
        BY <1>3, <4>2
    <3>3. Len(settings') = 1
      BY <2>1, <2>5
    <3>4. Cardinality(AtWork) <= 1 + overlaps
      BY DEF RowsInv, CrowdBounded
    <3>5. overlaps' = overlaps /\ overlaps \in Nat
      BY <1>1
    <3>6. Cardinality(Inserters) <= Cardinality(Restaurants) + overlaps
      BY <1>3, <3>1, <3>2, <3>4, <3>5
    <3>7. Len(settings') + Cardinality(Inserters') = Cardinality(Inserters)
      BY <1>3, <2>3, <3>3
    <3> QED
      BY <3>5, <3>6, <3>7 DEF RowsCounted
  <2> QED
    BY <2>4, <2>5
<1> QED
  BY <1>4, <1>5

LEMMA NextRows == TInv /\ RowsInv /\ [Next]_vars => RowsInv'
<1> SUFFICES ASSUME TInv, RowsInv, [Next]_vars PROVE RowsCounted'
  BY CrowdStays DEF RowsInv
<1>0. overlaps \in Nat /\ RowsCounted
  BY DEF TInv, TypeOK, RowsInv
<1>1. CASE UNCHANGED vars
  <2>1. Inserters' = Inserters /\ settings' = settings /\ overlaps' = overlaps
    BY <1>1 DEF vars, counters, tables, Inserters, Inserting
  <2> QED
    BY <1>0, <2>1 DEF RowsCounted
<1>2. CASE Next
  <2>1. PICK t \in Tasks :
            \/ \E r \in Restaurants, me \in Local : Arriving(t, r, me)
            \/ \E me \in Local : Moving(t, me) /\ Announces(t, me) /\ Stores(t, me)
            \/ Refusing(t)
            \/ Commit(t)
            \/ Fail(t)
    BY <1>2, StepShapes
  <2>2. ASSUME NEW r \in Restaurants, NEW me \in Local, Arriving(t, r, me)
        PROVE  RowsCounted'
    <3>1. Inserters' \subseteq Inserters
      BY <2>2 DEF Inserters, Inserting, Arriving, TInv, TypeOK
    <3>2. overlaps' \in Nat /\ overlaps' >= overlaps /\ UNCHANGED settings
      BY <1>0, <2>2 DEF Arriving, Count, tables
    <3> QED
      BY <1>0, <3>1, <3>2, SettingsUnchangedRows
  <2>3. ASSUME NEW me \in Local, Moving(t, me)
        PROVE  RowsCounted'
    <3>1. settings # << >> => Inserters' \subseteq Inserters
      BY <2>3 DEF Inserters, Inserting, Moving, TInv, TypeOK
    <3>2. overlaps' \in Nat /\ overlaps' >= overlaps /\ UNCHANGED settings
      BY <1>0, <2>3 DEF Moving, counters, tables
    <3> QED
      BY <1>0, <3>1, <3>2, SettingsUnchangedRows
  <2>4. ASSUME task' = [task EXCEPT ![t] = Idle], UNCHANGED <<settings, overlaps>>
        PROVE  RowsCounted'
    <3>1. Inserters' \subseteq Inserters
      BY <2>4, IdleLocal DEF Inserters, Inserting, TInv, TypeOK
    <3> QED
      BY <1>0, <2>4, <3>1, SettingsUnchangedRows
  <2>5. CASE Refusing(t)
    BY <2>4, <2>5 DEF Refusing, counters, tables
  <2>6. CASE Commit(t)
    BY <2>6, CommitRows
  <2>7. CASE Fail(t)
    BY <2>4, <2>7 DEF Fail, Refuse, tables
  <2> QED
    BY <2>1, <2>2, <2>3, <2>5, <2>6, <2>7
<1> QED
  BY <1>1, <1>2

\* There is a row of settings for each restaurant, and at most one more for
\* each request that met another (onboarding.py and settings.py look for a row
\* and insert one with nothing in between that keeps a second out).
THEOREM RowsBounded == Spec => []SettingsRowsBounded
<1>1. Init => RowsCounted
  <2> SUFFICES ASSUME Init, settings # << >>
               PROVE  Len(settings) + Cardinality(Inserters) <= Cardinality(Restaurants) + overlaps
    BY DEF RowsCounted
  <2>1. Inserters = {}
    BY IdleLocal DEF Init, Inserters, Inserting
  <2>2. Cardinality(Restaurants) \in Nat
    BY SetupAssumption, FS_CardinalityType
  <2>3. Len(settings) = Cardinality(Restaurants)
    BY <2>2 DEF Init
  <2> QED
    BY <2>1, <2>2, <2>3, FS_EmptySet DEF Init
<1>2. TInv /\ RowsInv => SettingsRowsBounded
  <2> SUFFICES ASSUME TInv, RowsInv PROVE SettingsRowsBounded
    OBVIOUS
  <2>1. /\ Cardinality(Inserters) \in Nat /\ Cardinality(Restaurants) \in Nat
        /\ overlaps \in Nat /\ Len(settings) \in Nat
    BY InsertersFinite, SetupAssumption, FS_CardinalityType DEF TInv, TypeOK
  <2>2. settings = << >> => Len(settings) = 0
    OBVIOUS
  <2> QED
    BY <2>1, <2>2 DEF RowsInv, RowsCounted, SettingsRowsBounded
<1>3. TInv /\ CrowdBounded /\ RowsCounted /\ [Next]_vars => RowsCounted'
  BY NextRows DEF RowsInv
<1> QED
  BY <1>1, <1>2, <1>3, AlwaysCrowdBounded, PTL DEF Spec, RowsInv

-----------------------------------------------------------------------------
(* The step that is told                                                   *)

\* A request of the wizard that is past its tenant has seen the step stored.
SeesStep(t) ==
    task[t].kind \in WizardKinds /\ task[t].pc \notin {"idle", "tenant"} =>
        task[t].seen = step[task[t].rest]

ToldWhileAlone == overlaps = 0 => StepIsTold /\ \A t \in Tasks : SeesStep(t)

LEMMA CommitTold ==
  ASSUME TInv, CrowdBounded, ToldWhileAlone, NEW t \in Tasks, Commit(t), overlaps = 0
  PROVE  StepIsTold' /\ \A u \in Tasks : SeesStep(u)'
<1>1. /\ task[t].pc = "commit" /\ task[t].rest \in Restaurants
      /\ task[t].kind \in WizardKinds => task[t].seen = step[task[t].rest]
      /\ StepIsTold
  BY DEF Commit, TInv, Known, ToldWhileAlone, SeesStep
<1>2. ASSUME NEW u \in Tasks PROVE task'[u].pc = "idle"
  <2>1. task' = [task EXCEPT ![t] = Idle]
    BY DEF Commit
  <2>2. CASE u = t
    BY <2>1, <2>2, IdleLocal DEF TInv, TypeOK
  <2>3. CASE u # t
    <3>1. task[u].pc = "idle"
      BY <1>1, <2>3, Alone DEF AtWork
    <3> QED
      BY <2>1, <2>3, <3>1 DEF TInv, TypeOK
  <2> QED
    BY <2>2, <2>3
<1>3. StepIsTold'
  <2>1. /\ step \in [Restaurants -> Wizard \cup {"none"}]
        /\ told \in [Restaurants -> Wizard \cup {"none"}]
        /\ step' = StoredStep(t)
        /\ told' = IF task[t].kind \in WizardKinds
                   THEN [told EXCEPT ![task[t].rest] = NextStep(task[t].kind)] ELSE told
    BY DEF TInv, TypeOK, Commit
  <2> QED
    BY <1>1, <2>1 DEF StepIsTold, StoredStep, MovesStep
<1> QED
  BY <1>2, <1>3 DEF SeesStep

LEMMA NextTold == TInv /\ CrowdBounded /\ ToldWhileAlone /\ [Next]_vars => ToldWhileAlone'
<1> SUFFICES ASSUME TInv, CrowdBounded, ToldWhileAlone, [Next]_vars, overlaps' = 0
             PROVE  StepIsTold' /\ \A t \in Tasks : SeesStep(t)'
  BY DEF ToldWhileAlone
<1>1. CASE UNCHANGED vars
  BY <1>1 DEF vars, counters, tables, ToldWhileAlone, SeesStep, StepIsTold
<1>2. CASE Next
  <2>0. overlaps \in Nat
    BY DEF TInv, TypeOK
  <2>1. PICK t \in Tasks :
            \/ \E r \in Restaurants, me \in Local : Arriving(t, r, me)
            \/ \E me \in Local : Moving(t, me) /\ Announces(t, me) /\ Stores(t, me)
            \/ Refusing(t)
            \/ Commit(t)
            \/ Fail(t)
    BY <1>2, StepShapes
  <2>2. ASSUME NEW me \in Local, task' = [task EXCEPT ![t] = me], UNCHANGED <<step, told>>,
               overlaps = 0,
               \/ me.kind \notin WizardKinds \/ me.pc \in {"idle", "tenant"}
               \/ me.seen = step[me.rest]
        PROVE  StepIsTold' /\ \A u \in Tasks : SeesStep(u)'
    <3>1. StepIsTold'
      BY <2>2 DEF ToldWhileAlone, StepIsTold
    <3>2. ASSUME NEW u \in Tasks PROVE SeesStep(u)'
      <4>1. SeesStep(u)
        BY <2>2 DEF ToldWhileAlone
      <4>2. CASE u = t
        <5>1. task'[u] = me
          BY <2>2, <4>2 DEF TInv, TypeOK
        <5> QED
          BY <2>2, <5>1 DEF SeesStep
      <4>3. CASE u # t
        <5>1. task'[u] = task[u]
          BY <2>2, <4>3 DEF TInv, TypeOK
        <5> QED
          BY <2>2, <4>1, <5>1 DEF SeesStep
      <4> QED
        BY <4>2, <4>3
    <3> QED
      BY <3>1, <3>2
  <2>3. ASSUME NEW r \in Restaurants, NEW me \in Local, Arriving(t, r, me)
        PROVE  StepIsTold' /\ \A u \in Tasks : SeesStep(u)'
    <3>1. overlaps = 0
      BY <2>0, <2>3 DEF Arriving, Count
    <3> QED
      BY <2>2, <2>3, <3>1 DEF Arriving, tables
  <2>4. ASSUME NEW me \in Local, Moving(t, me)
        PROVE  StepIsTold' /\ \A u \in Tasks : SeesStep(u)'
    <3>1. overlaps = 0 /\ SeesStep(t)
      BY <2>4 DEF Moving, counters, ToldWhileAlone
    <3>2. me.kind \in WizardKinds => me.seen = step[me.rest]
      BY <2>4, <3>1 DEF Moving, SeesStep
    <3> QED
      BY <2>2, <2>4, <3>1, <3>2 DEF Moving, tables
  <2>5. CASE Refusing(t)
    BY <2>2, <2>5, IdleLocal DEF Refusing, tables, counters
  <2>6. CASE Commit(t)
    BY <2>6, CommitTold DEF Commit, counters
  <2>7. CASE Fail(t)
    BY <2>2, <2>7, IdleLocal DEF Fail, Refuse, tables
  <2> QED
    BY <2>1, <2>3, <2>4, <2>5, <2>6, <2>7
<1> QED
  BY <1>1, <1>2

\* As long as no two requests have met, the step in the tenant's row is the
\* step that the owner was told last, in whatever order steps are repeated
\* (the handlers of onboarding.py, which set the step and answer it).
THEOREM StepTold == Spec => []StepToldIfAlone
<1>1. Init => ToldWhileAlone
  BY IdleLocal DEF Init, ToldWhileAlone, StepIsTold, SeesStep
<1>2. ToldWhileAlone => StepToldIfAlone
  BY DEF ToldWhileAlone, StepToldIfAlone
<1>3. TInv /\ CrowdBounded /\ ToldWhileAlone /\ [Next]_vars => ToldWhileAlone'
  BY NextTold
<1> QED
  BY <1>1, <1>2, <1>3, AlwaysCrowdBounded, PTL DEF Spec

-----------------------------------------------------------------------------
(* The wizard that is followed                                             *)

\* What a restaurant has when it is at a step.
Reached(r, at) ==
    /\ at \in {"menu_upload", "telegram_setup", "payment_setup", "test_order", "completed"} =>
          settings # << >>
    /\ at \in {"telegram_setup", "payment_setup", "test_order", "completed"} => dishes # {}
    /\ at = "completed" => orders[r] > 0

\* The same of the tables after the step.
Reaches(r, at) ==
    /\ at \in {"menu_upload", "telegram_setup", "payment_setup", "test_order", "completed"} =>
          settings' # << >>
    /\ at \in {"telegram_setup", "payment_setup", "test_order", "completed"} => dishes' # {}
    /\ at = "completed" => orders'[r] > 0

\* The step that a request of the wizard is for.
For(kind) == IF kind = "complete" THEN "completed" ELSE kind

Answered(t) == task[t].pc # "idle" /\ task[t].kind \in WizardKinds =>
                  Reached(task[t].rest, For(task[t].kind))

Guided ==
    detours = 0 =>
        /\ \A r \in Restaurants :
              /\ Reached(r, told[r]) /\ Reached(r, step[r])
              /\ r \in completedAt => Reached(r, "completed")
        /\ \A t \in Tasks : Answered(t)

\* Nothing that a restaurant has is taken away.
LEMMA ReachedStays ==
  ASSUME TInv, NEW r \in Restaurants, NEW at, Reached(r, at),
         settings # << >> => settings' # << >>, dishes \subseteq dishes',
         orders' \in [Restaurants -> Nat], orders'[r] >= orders[r]
  PROVE  Reaches(r, at)
BY DEF Reached, Reaches, TInv, TypeOK

\* A step that keeps the tables and puts a request to follow the step told.
LEMMA GuidedStays ==
  ASSUME TInv, Guided, detours = 0, NEW t \in Tasks, NEW me \in Local,
         task' = [task EXCEPT ![t] = me], UNCHANGED <<tables, told>>,
         me.pc # "idle" /\ me.kind \in WizardKinds => Reached(me.rest, For(me.kind))
  PROVE  Guided'
<1>1. /\ UNCHANGED <<step, completedAt, settings, dishes, orders, told>>
      /\ \A u \in Tasks : Answered(u)
  BY DEF tables, Guided
<1>2. ASSUME NEW u \in Tasks PROVE Answered(u)'
  <2>1. CASE u = t
    <3>1. task'[u] = me
      BY <2>1 DEF TInv, TypeOK
    <3> QED
      BY <1>1, <3>1 DEF Answered, Reached
  <2>2. CASE u # t
    <3>1. task'[u] = task[u]
      BY <2>2 DEF TInv, TypeOK
    <3> QED
      BY <1>1, <3>1 DEF Answered, Reached
  <2> QED
    BY <2>1, <2>2
<1> QED
  BY <1>1, <1>2 DEF Guided, Reached

LEMMA ArrivingGuided ==
  ASSUME TInv, Guided, detours' = 0, NEW t \in Tasks, NEW r \in Restaurants, NEW me \in Local,
         Arriving(t, r, me)
  PROVE  Guided'
<1>1. detours \in Nat /\ detours' = detours + Count(me.kind \in WizardKinds \ {Due(r)})
  BY DEF TInv, TypeOK, Arriving
<1>2. detours = 0 /\ (me.kind \in WizardKinds => me.kind = Due(r))
  BY <1>1 DEF Count
<1>3. me.rest = r /\ Reached(r, told[r]) /\ told[r] \in Wizard \cup {"none"}
  BY <1>2 DEF Arriving, Guided, TInv, TypeOK
<1>4. me.kind \in WizardKinds => Reached(r, For(me.kind))
  <2>1. CASE told[r] = "completed"
    BY <1>2, <1>3, <2>1 DEF Due, For
  <2>2. CASE told[r] = "none"
    BY <1>2, <2>2 DEF Due, For, Reached
  <2>3. CASE told[r] \notin {"completed", "none"}
    BY <1>2, <1>3, <2>3 DEF Due, For, Wizard
  <2> QED
    BY <2>1, <2>2, <2>3
<1> QED
  BY <1>2, <1>3, <1>4, GuidedStays DEF Arriving

LEMMA CommitGuided ==
  ASSUME TInv, Guided, detours = 0, NEW t \in Tasks, Commit(t)
  PROVE  Guided'
<1> DEFINE me == task[t]
           r == me.rest
<1>1. /\ me \in Local /\ Known(me) /\ me.pc = "commit" /\ r \in Restaurants
      /\ me.kind \in WizardKinds => Reached(r, For(me.kind))
  BY DEF TInv, TypeOK, Local, Commit, Known, Guided, Answered
<1>2. /\ orders \in [Restaurants -> Nat] /\ orders' \in [Restaurants -> Nat]
      /\ \A q \in Restaurants : orders'[q] >= orders[q]
      /\ me.kind = "test_order" => orders'[r] > 0
  BY <1>1 DEF Commit, TInv, TypeOK
<1>3. dishes' = dishes \cup ({me.slug} \ {NoSlug})
  BY DEF Commit
<1>4. me.kind = "menu_upload" => dishes' # {}
  <2>1. ASSUME me.kind = "menu_upload" PROVE me.slug \in Slugs
    BY <1>1, <2>1, SetupAssumption DEF Known, Slugs
  <2> QED
    BY <1>3, <2>1, NoSlugIsNone
<1>5. Len(settings') = Len(settings) + Count(Inserting(me)) /\ settings' \in Seq(Row)
      /\ settings \in Seq(Row)
  BY SettingsStored DEF TInv, TypeOK
<1>6. settings # << >> => settings' # << >>
  BY <1>5 DEF Count
<1>7. me.kind = "restaurant_info" => settings' # << >>
  <2>1. ASSUME me.kind = "restaurant_info", me.row # 0 PROVE settings # << >>
    BY <1>1, <2>1 DEF Known
  <2>2. ASSUME me.kind = "restaurant_info", me.row = 0 PROVE settings' # << >>
    <3>1. Inserting(me)
      BY <1>1, <2>2 DEF Inserting
    <3>2. Len(settings') = Len(settings) + 1 /\ Len(settings) \in Nat
      BY <1>5, <3>1 DEF Count
    <3> QED
      BY <3>2
  <2> QED
    BY <1>6, <2>1, <2>2
<1>8. ASSUME NEW q \in Restaurants, NEW at, Reached(q, at) PROVE Reaches(q, at)
  <2>1. dishes \subseteq dishes'
    BY <1>3
  <2>2. orders'[q] >= orders[q]
    BY <1>2
  <2> QED
    BY <1>2, <1>6, <1>8, <2>1, <2>2, ReachedStays
<1>9. me.kind \in WizardKinds => Reaches(r, NextStep(me.kind))
  <2> SUFFICES ASSUME me.kind \in WizardKinds PROVE Reaches(r, NextStep(me.kind))
    OBVIOUS
  <2>1. Reaches(r, For(me.kind))
    BY <1>1, <1>8
  <2>2. CASE me.kind = "restaurant_info"
    BY <1>7, <2>2 DEF Reaches, NextStep
  <2>3. CASE me.kind = "menu_upload"
    BY <1>4, <2>1, <2>3 DEF Reaches, NextStep, For
  <2>4. CASE me.kind = "telegram_setup"
    BY <2>1, <2>4 DEF Reaches, NextStep, For
  <2>5. CASE me.kind = "payment_setup"
    BY <2>1, <2>5 DEF Reaches, NextStep, For
  <2>6. CASE me.kind = "test_order"
    <3>1. NextStep(me.kind) = "completed" /\ For(me.kind) = "test_order"
      BY <2>6 DEF NextStep, For
    <3>2. orders'[r] > 0
      BY <1>2, <2>6
    <3> QED
      BY <2>1, <3>1, <3>2 DEF Reaches
  <2>7. CASE me.kind = "complete"
    BY <2>1, <2>7 DEF Reaches, NextStep, For
  <2> QED
    BY <2>2, <2>3, <2>4, <2>5, <2>6, <2>7 DEF WizardKinds
<1>10. ASSUME NEW q \in Restaurants
       PROVE  /\ Reached(q, told[q])' /\ Reached(q, step[q])'
              /\ q \in completedAt' => Reached(q, "completed")'
  <2>1. /\ Reaches(q, told[q]) /\ Reaches(q, step[q])
        /\ q \in completedAt => Reaches(q, "completed")
    BY <1>8 DEF Guided
  <2>3. /\ step \in [Restaurants -> Wizard \cup {"none"}]
        /\ told \in [Restaurants -> Wizard \cup {"none"}]
        /\ step' = StoredStep(t)
        /\ told' = IF me.kind \in WizardKinds
                   THEN [told EXCEPT ![r] = NextStep(me.kind)] ELSE told
        /\ completedAt' = IF me.kind = "complete" THEN completedAt \cup {r} ELSE completedAt
    BY DEF TInv, TypeOK, Commit
  <2>4. \/ told'[q] = told[q]
        \/ me.kind \in WizardKinds /\ q = r /\ told'[q] = NextStep(me.kind)
    BY <1>1, <2>3
  <2>5. \/ step'[q] = step[q]
        \/ me.kind \in WizardKinds /\ q = r /\ step'[q] = NextStep(me.kind)
    BY <1>1, <2>3 DEF StoredStep, MovesStep
  <2>6. q \in completedAt' => q \in completedAt \/ (me.kind = "complete" /\ q = r)
    BY <2>3
  <2>7. Reaches(q, told'[q])
    BY <1>9, <2>1, <2>4
  <2>8. Reaches(q, step'[q])
    BY <1>9, <2>1, <2>5
  <2>9. q \in completedAt' => Reaches(q, "completed")
    BY <1>9, <2>1, <2>6 DEF NextStep, WizardKinds
  <2> QED
    BY <2>7, <2>8, <2>9 DEF Reached, Reaches
<1>11. ASSUME NEW u \in Tasks PROVE Answered(u)'
  <2>1. task' = [task EXCEPT ![t] = Idle] /\ Answered(u)
    BY DEF Commit, Guided
  <2>2. CASE u = t
    BY <2>1, <2>2, IdleLocal DEF Answered, TInv, TypeOK
  <2>3. CASE u # t
    <3>1. task'[u] = task[u] /\ Known(task[u])
      BY <2>1, <2>3 DEF TInv, TypeOK
    <3> HIDE DEF me
    <3>2. task[u].pc # "idle" /\ task[u].kind \in WizardKinds =>
             Reaches(task[u].rest, For(task[u].kind))
      BY <1>8, <2>1, <3>1 DEF Answered, Known
    <3> QED
      BY <3>1, <3>2 DEF Answered, Reached, Reaches, For
  <2> QED
    BY <2>2, <2>3
<1> QED
  BY <1>10, <1>11 DEF Guided

LEMMA NextGuided == TInv /\ Guided /\ [Next]_vars => Guided'
<1> SUFFICES ASSUME TInv, Guided, [Next]_vars, detours' = 0 PROVE Guided'
  BY DEF Guided
<1>1. CASE UNCHANGED vars
  BY <1>1 DEF vars, counters, tables, Guided, Reached, Answered
<1>2. CASE Next
  <2>1. PICK t \in Tasks :
            \/ \E r \in Restaurants, me \in Local : Arriving(t, r, me)
            \/ \E me \in Local : Moving(t, me) /\ Announces(t, me) /\ Stores(t, me)
            \/ Refusing(t)
            \/ Commit(t)
            \/ Fail(t)
    BY <1>2, StepShapes
  <2>2. CASE \E r \in Restaurants, me \in Local : Arriving(t, r, me)
    BY <2>2, ArrivingGuided
  <2>3. ASSUME NEW me \in Local, Moving(t, me) PROVE Guided'
    <3>1. /\ detours = 0 /\ Answered(t) /\ me.kind = task[t].kind /\ me.rest = task[t].rest
          /\ task[t].pc # "idle"
      BY <2>3 DEF Moving, counters, Guided
    <3>2. me.kind \in WizardKinds => Reached(me.rest, For(me.kind))
      BY <3>1 DEF Answered
    <3> QED
      BY <2>3, <3>1, <3>2, GuidedStays DEF Moving
  <2>4. CASE Refusing(t)
    BY <2>4, IdleLocal, GuidedStays DEF Refusing, counters
  <2>5. CASE Commit(t)
    BY <2>5, CommitGuided DEF Commit, counters
  <2>6. CASE Fail(t)
    BY <2>6, IdleLocal, GuidedStays DEF Fail, Refuse
  <2> QED
    BY <2>1, <2>2, <2>3, <2>4, <2>5, <2>6
<1> QED
  BY <1>1, <1>2

\* An owner who asks for no step but the one told does not get past the last
\* one without settings, a menu and an order, whatever else is edited and even
\* if requests meet or fail (the order of the steps in onboarding.py).
THEOREM WizardLeadsThrough == Spec => []GuidedWizardLeadsThrough
<1>1. Init => Guided
  BY IdleLocal DEF Init, Guided, Reached, Answered
<1>2. TInv /\ Guided => GuidedWizardLeadsThrough
  BY DEF Guided, GuidedWizardLeadsThrough, Reached
<1>3. TInv /\ Guided /\ [Next]_vars => Guided'
  BY NextGuided
<1> QED
  BY <1>1, <1>2, <1>3, AlwaysTInv, PTL DEF Spec

-----------------------------------------------------------------------------
(* What a meeting of two requests can cost                                 *)

\* n losses are within b, and while a requests are at work there is one loss
\* left for each of them but one, and for that one too if some has met its
\* loss already and is yet to leave.
Charged(n, b, a, met) == n <= b /\ (a # 0 => n + a <= b + Count(~met))

LEMMA ChargeArrival ==
  ASSUME NEW n \in Nat, NEW b \in Nat, NEW a \in Nat, NEW met \in BOOLEAN, NEW now \in BOOLEAN,
         Charged(n, b, a, met), now => met, a = 0 => ~now
  PROVE  Charged(n, b + Count(a # 0), a + 1, now)
BY DEF Charged, Count

LEMMA ChargeStay ==
  ASSUME NEW n \in Nat, NEW b \in Nat, NEW a \in Nat, NEW met \in BOOLEAN, NEW now \in BOOLEAN,
         Charged(n, b, a, met), now => met
  PROVE  Charged(n, b, a, now)
BY DEF Charged, Count

LEMMA ChargeLeave ==
  ASSUME NEW n \in Nat, NEW b \in Nat, NEW a \in Nat \ {0}, NEW met \in BOOLEAN,
         NEW now \in BOOLEAN, Charged(n, b, a, met)
  PROVE  /\ Charged(n, b, a - 1, now)
         /\ Charged(n + 1, b + 1, a - 1, now)
         /\ Charged(n, b + 1, a - 1, now)
         /\ met => Charged(n + 1, b, a - 1, now)
BY DEF Charged, Count

LEMMA CountMember ==
  ASSUME NEW S, NEW T, NEW t, NEW b \in BOOLEAN, IsFiniteSet(S),
         T = IF b THEN S \cup {t} ELSE S \ {t}
  PROVE  Cardinality(T) = Cardinality(S) + Count(b) - Count(t \in S)
<1>0. Cardinality(S) \in Nat
  BY FS_CardinalityType
<1>1. CASE b
  BY <1>0, <1>1, FS_AddElement DEF Count
<1>2. CASE ~b
  BY <1>0, <1>2, FS_RemoveElement DEF Count
<1> QED
  BY <1>1, <1>2

-----------------------------------------------------------------------------
(* Announcements                                                           *)

Announcers(r) == {t \in Tasks : Announcing(task[t], r)}

LostOrders(r) == announced[r] - orders[r] - Cardinality(Announcers(r))

\* An announcement that no order or request stands behind was paid by a failure.
OrdersKept == \A r \in Restaurants : LostOrders(r) \in 0..failures

LEMMA AnnouncersFinite ==
  ASSUME NEW r PROVE IsFiniteSet(Announcers(r)) /\ Cardinality(Announcers(r)) \in Nat
BY SetupAssumption, FS_Subset, FS_CardinalityType DEF Announcers

LEMMA AnnouncersChange ==
  ASSUME TInv, NEW t \in Tasks, NEW me \in Local, task' = [task EXCEPT ![t] = me],
         NEW r \in Restaurants
  PROVE  /\ Cardinality(Announcers(r)') \in Nat /\ Cardinality(Announcers(r)) \in Nat
         /\ Cardinality(Announcers(r)')
               = Cardinality(Announcers(r)) + Count(Announcing(me, r))
                                            - Count(Announcing(task[t], r))
<1> DEFINE b == Announcing(me, r)
<1>1. b \in BOOLEAN /\ task'[t] = me /\ \A u \in Tasks \ {t} : task'[u] = task[u]
  BY DEF Announcing, TInv, TypeOK
<1>2. Announcers(r)' = IF b THEN Announcers(r) \cup {t} ELSE Announcers(r) \ {t}
  BY <1>1 DEF Announcers, Announcing
<1>3. t \in Announcers(r) <=> Announcing(task[t], r)
  BY DEF Announcers
<1>4. Announcing(task[t], r) \in BOOLEAN
  BY DEF Announcing
<1> HIDE DEF b
<1>5. IsFiniteSet(Announcers(r)) /\ Cardinality(Announcers(r)) \in Nat
  BY AnnouncersFinite
<1>6. Cardinality(Announcers(r)')
         = Cardinality(Announcers(r)) + Count(b) - Count(t \in Announcers(r))
  BY <1>1, <1>2, <1>5, CountMember
<1>7. Announcers(r)' \in SUBSET Tasks
  BY DEF Announcers
<1>8. Cardinality(Announcers(r)') \in Nat
  BY <1>7, SetupAssumption, FS_Subset, FS_CardinalityType
<1>9. Count(t \in Announcers(r)) = Count(Announcing(task[t], r))
  BY <1>3 DEF Count
<1> QED
  BY <1>5, <1>6, <1>8, <1>9 DEF b

LEMMA NextOrders == TInv /\ OrdersKept /\ [Next]_vars => OrdersKept'
<1> SUFFICES ASSUME TInv, OrdersKept, [Next]_vars, NEW r \in Restaurants
             PROVE  LostOrders(r)' \in 0..failures'
  BY DEF OrdersKept
<1>0. /\ announced[r] \in Nat /\ orders[r] \in Nat /\ failures \in Nat
      /\ LostOrders(r) \in 0..failures /\ Cardinality(Announcers(r)) \in Nat
  BY AnnouncersFinite DEF TInv, TypeOK, OrdersKept
<1>1. CASE UNCHANGED vars
  BY <1>0, <1>1 DEF vars, counters, tables, outside, LostOrders, Announcers
<1>2. CASE Next
  <2>1. PICK t \in Tasks :
            \/ \E q \in Restaurants, me \in Local : Arriving(t, q, me)
            \/ \E me \in Local : Moving(t, me) /\ Announces(t, me) /\ Stores(t, me)
            \/ Refusing(t)
            \/ Commit(t)
            \/ Fail(t)
    BY <1>2, StepShapes
  <2>2. ASSUME NEW q \in Restaurants, NEW me \in Local, Arriving(t, q, me)
        PROVE  LostOrders(r)' \in 0..failures'
    <3>1. /\ ~Announcing(me, r) /\ ~Announcing(task[t], r) /\ task' = [task EXCEPT ![t] = me]
          /\ UNCHANGED <<announced, orders, failures>>
      BY <2>2 DEF Arriving, Announcing, tables, outside
    <3>2. Cardinality(Announcers(r)') = Cardinality(Announcers(r))
      <4>1. Count(Announcing(me, r)) = 0 /\ Count(Announcing(task[t], r)) = 0
        BY <3>1 DEF Count
      <4>2. Cardinality(Announcers(r)')
               = Cardinality(Announcers(r)) + Count(Announcing(me, r))
                                            - Count(Announcing(task[t], r))
        BY <2>2, <3>1, AnnouncersChange
      <4> QED
        BY <1>0, <4>1, <4>2
    <3> QED
      BY <1>0, <3>1, <3>2 DEF LostOrders
  <2>3. ASSUME NEW me \in Local, Moving(t, me), Announces(t, me)
        PROVE  LostOrders(r)' \in 0..failures'
    <3>1. /\ announced'[r] - announced[r]
                = Count(Announcing(me, r)) - Count(Announcing(task[t], r))
          /\ announced'[r] \in Nat /\ task' = [task EXCEPT ![t] = me]
          /\ UNCHANGED <<orders, failures>>
      BY <2>3 DEF Moving, Announces, tables, counters
    <3>2. /\ Cardinality(Announcers(r)') \in Nat
          /\ Cardinality(Announcers(r)')
                = Cardinality(Announcers(r)) + Count(Announcing(me, r))
                                             - Count(Announcing(task[t], r))
      BY <2>3, <3>1, AnnouncersChange
    <3>3. Count(Announcing(me, r)) \in Nat /\ Count(Announcing(task[t], r)) \in Nat
      BY DEF Count
    <3>4. announced'[r] - orders'[r] - Cardinality(Announcers(r)')
             = announced[r] - orders[r] - Cardinality(Announcers(r))
      BY <1>0, <3>1, <3>2, <3>3
    <3> QED
      BY <1>0, <3>1, <3>4 DEF LostOrders
  <2>4. ASSUME task' = [task EXCEPT ![t] = Idle]
        PROVE  /\ Cardinality(Announcers(r)') \in Nat
               /\ Cardinality(Announcers(r)')
                     = Cardinality(Announcers(r)) - Count(Announcing(task[t], r))
    <3>1. ~Announcing(Idle, r)
      BY IdleLocal DEF Announcing
    <3>2. Count(Announcing(task[t], r)) \in Nat /\ Count(Announcing(Idle, r)) = 0
      BY <3>1 DEF Count
    <3>3. /\ Cardinality(Announcers(r)') \in Nat
          /\ Cardinality(Announcers(r)')
               = Cardinality(Announcers(r)) + Count(Announcing(Idle, r))
                                            - Count(Announcing(task[t], r))
      <4>1. Idle \in Local
        BY IdleLocal
      <4> QED
        BY <2>4, <4>1, AnnouncersChange
    <3> QED
      BY <1>0, <3>2, <3>3
  <2>5. CASE Refusing(t)
    <3>1. /\ UNCHANGED <<announced, orders, failures>> /\ task' = [task EXCEPT ![t] = Idle]
          /\ Count(Announcing(task[t], r)) = 0
      BY <2>5 DEF Refusing, tables, outside, counters, Count
    <3> QED
      BY <1>0, <2>4, <3>1 DEF LostOrders
  <2>6. CASE Commit(t)
    <3>1. UNCHANGED <<announced, failures>> /\ task' = [task EXCEPT ![t] = Idle]
      BY <2>6 DEF Commit, outside, counters
    <3>2. orders'[r] = orders[r] + Count(Announcing(task[t], r))
      <4>1. /\ orders' = IF task[t].kind = "test_order"
                         THEN [orders EXCEPT ![task[t].rest] = @ + 1] ELSE orders
            /\ task[t].pc = "commit" /\ orders \in [Restaurants -> Nat]
        BY <2>6 DEF Commit, TInv, TypeOK
      <4>2. CASE Announcing(task[t], r)
        BY <4>1, <4>2 DEF Announcing, Count
      <4>3. CASE ~Announcing(task[t], r)
        BY <4>1, <4>3 DEF Announcing, Count
      <4> QED
        BY <4>2, <4>3
    <3>3. Count(Announcing(task[t], r)) \in Nat
      BY DEF Count
    <3> QED
      BY <1>0, <2>4, <3>1, <3>2, <3>3 DEF LostOrders
  <2>7. CASE Fail(t)
    <3>1. /\ UNCHANGED <<announced, orders>> /\ failures' = failures + 1
          /\ task' = [task EXCEPT ![t] = Idle]
      BY <2>7 DEF Fail, Refuse, tables, outside
    <3>2. Count(Announcing(task[t], r)) \in {0, 1}
      BY DEF Count
    <3> QED
      BY <1>0, <2>4, <3>1, <3>2 DEF LostOrders
  <2> QED
    BY <2>1, <2>2, <2>3, <2>5, <2>6, <2>7
<1> QED
  BY <1>1, <1>2

-----------------------------------------------------------------------------
(* Photos                                                                  *)

Picturers == {t \in Tasks : Picturing(task[t])}

LostPhotos == photos - pictured - Cardinality(Picturers)

SomeBeaten == \E t \in Tasks : Beaten(task[t])

PhotosKept ==
    /\ LostPhotos \in Nat
    /\ Charged(LostPhotos, failures + overlaps, Cardinality(AtWork), SomeBeaten)

LEMMA PicturersChange ==
  ASSUME TInv, NEW t \in Tasks, NEW me \in Local, task' = [task EXCEPT ![t] = me]
  PROVE  /\ Cardinality(Picturers') \in Nat /\ Cardinality(Picturers) \in Nat
         /\ Cardinality(Picturers')
               = Cardinality(Picturers) + Count(Picturing(me)) - Count(Picturing(task[t]))
<1> DEFINE b == Picturing(me)
<1>1. b \in BOOLEAN /\ task'[t] = me /\ \A u \in Tasks \ {t} : task'[u] = task[u]
  BY DEF Picturing, TInv, TypeOK, Local
<1>2. Picturers' = IF b THEN Picturers \cup {t} ELSE Picturers \ {t}
  BY <1>1 DEF Picturers, Picturing
<1>3. t \in Picturers <=> Picturing(task[t])
  BY DEF Picturers
<1>4. Picturing(task[t]) \in BOOLEAN
  BY DEF Picturing, TInv, TypeOK
<1> HIDE DEF b
<1>5. IsFiniteSet(Picturers) /\ Cardinality(Picturers) \in Nat
  BY SetupAssumption, FS_Subset, FS_CardinalityType DEF Picturers
<1>6. Cardinality(Picturers') = Cardinality(Picturers) + Count(b) - Count(t \in Picturers)
  BY <1>1, <1>2, <1>5, CountMember
<1>7. Picturers' \in SUBSET Tasks
  BY DEF Picturers
<1>8. Cardinality(Picturers') \in Nat
  BY <1>7, SetupAssumption, FS_Subset, FS_CardinalityType
<1>9. Count(t \in Picturers) = Count(Picturing(task[t]))
  BY <1>3 DEF Count
<1> QED
  BY <1>5, <1>6, <1>8, <1>9 DEF b

LEMMA NextPhotos == TInv /\ PhotosKept /\ [Next]_vars => PhotosKept'
<1> SUFFICES ASSUME TInv, PhotosKept, [Next]_vars PROVE PhotosKept'
  OBVIOUS
<1>0. /\ photos \in Nat /\ pictured \in Nat /\ failures \in Nat /\ overlaps \in Nat
      /\ LostPhotos \in Nat /\ Cardinality(Picturers) \in Nat
      /\ Cardinality(AtWork) \in Nat /\ (Cardinality(AtWork) = 0 <=> AtWork = {})
      /\ SomeBeaten \in BOOLEAN /\ SomeBeaten' \in BOOLEAN
  <2>1. IsFiniteSet(Picturers) /\ IsFiniteSet(AtWork)
    BY AtWorkFinite, SetupAssumption, FS_Subset DEF Picturers
  <2>2. Cardinality(Picturers) \in Nat /\ Cardinality(AtWork) \in Nat
    BY <2>1, FS_CardinalityType
  <2>3. Cardinality(AtWork) = 0 <=> AtWork = {}
    BY <2>1, FS_EmptySet
  <2>4. SomeBeaten \in BOOLEAN /\ SomeBeaten' \in BOOLEAN
    BY DEF SomeBeaten
  <2> QED
    BY <2>2, <2>3, <2>4 DEF TInv, TypeOK, PhotosKept
<1>1. CASE UNCHANGED vars
  <2>1. UNCHANGED <<photos, pictured, failures, overlaps>> /\ Picturers' = Picturers
        /\ AtWork' = AtWork /\ SomeBeaten' = SomeBeaten
    BY <1>1 DEF vars, counters, tables, outside, Picturers, AtWork, SomeBeaten, Beaten
  <2> QED
    BY <2>1 DEF PhotosKept, LostPhotos
<1>2. CASE Next
  <2>1. PICK t \in Tasks :
            \/ \E q \in Restaurants, me \in Local : Arriving(t, q, me)
            \/ \E me \in Local : Moving(t, me) /\ Announces(t, me) /\ Stores(t, me)
            \/ Refusing(t)
            \/ Commit(t)
            \/ Fail(t)
    BY <1>2, StepShapes
  <2>2. ASSUME NEW q \in Restaurants, NEW me \in Local, Arriving(t, q, me)
        PROVE  PhotosKept'
    <3>1. /\ ~Picturing(me) /\ ~Picturing(task[t]) /\ task' = [task EXCEPT ![t] = me]
          /\ UNCHANGED <<photos, pictured, failures, dishes>>
          /\ overlaps' = overlaps + Count(AtWork # {})
      BY <2>2 DEF Arriving, Picturing, tables, outside
    <3>2. Count(Picturing(me)) = 0 /\ Count(Picturing(task[t])) = 0
      BY <3>1 DEF Count
    <3>3. Cardinality(Picturers')
             = Cardinality(Picturers) + Count(Picturing(me)) - Count(Picturing(task[t]))
      BY <2>2, <3>1, PicturersChange
    <3>4. LostPhotos' = LostPhotos
      BY <1>0, <3>1, <3>2, <3>3 DEF LostPhotos
    <3>5. SomeBeaten' => SomeBeaten
      BY <2>2, <3>1 DEF Arriving, SomeBeaten, Beaten, TInv, TypeOK
    <3>6. AtWork = {} => ~SomeBeaten
      BY DEF AtWork, SomeBeaten, Beaten
    <3>7. Cardinality(AtWork') = Cardinality(AtWork) + 1
      BY <2>2, AtWorkArriving
    <3>8. Charged(LostPhotos, (failures + overlaps) + Count(Cardinality(AtWork) # 0),
                  Cardinality(AtWork) + 1, SomeBeaten')
      <4>1. failures + overlaps \in Nat
        BY <1>0
      <4> QED
        BY <1>0, <3>5, <3>6, <4>1, ChargeArrival DEF PhotosKept
    <3>9. failures' + overlaps' = (failures + overlaps) + Count(Cardinality(AtWork) # 0)
      BY <1>0, <3>1 DEF Count
    <3> QED
      BY <1>0, <3>4, <3>7, <3>8, <3>9 DEF PhotosKept
  <2>3. ASSUME NEW me \in Local, Moving(t, me), Stores(t, me)
        PROVE  PhotosKept'
    <3>1. /\ photos' - photos = Count(Picturing(me)) - Count(Picturing(task[t]))
          /\ photos' \in Nat /\ task' = [task EXCEPT ![t] = me]
          /\ UNCHANGED <<pictured, failures, overlaps, dishes>>
      BY <2>3 DEF Moving, Stores, tables, counters
    <3>2. /\ Cardinality(Picturers') \in Nat
          /\ Cardinality(Picturers')
                = Cardinality(Picturers) + Count(Picturing(me)) - Count(Picturing(task[t]))
      BY <2>3, <3>1, PicturersChange
    <3>3. Count(Picturing(me)) \in Nat /\ Count(Picturing(task[t])) \in Nat
      BY DEF Count
    <3>4. LostPhotos' = LostPhotos
      BY <1>0, <3>1, <3>2, <3>3 DEF LostPhotos
    <3>5. SomeBeaten' => SomeBeaten
      BY <2>3, <3>1 DEF Moving, SomeBeaten, Beaten, TInv, TypeOK
    <3>6. AtWork' = AtWork
      BY <2>3, AtWorkMoving
    <3>7. Charged(LostPhotos, failures + overlaps, Cardinality(AtWork), SomeBeaten')
      <4>1. failures + overlaps \in Nat
        BY <1>0
      <4> QED
        BY <1>0, <3>5, <4>1, ChargeStay DEF PhotosKept
    <3> QED
      BY <1>0, <3>1, <3>4, <3>6, <3>7 DEF PhotosKept
  <2>4. ASSUME task' = [task EXCEPT ![t] = Idle], task[t].pc # "idle"
        PROVE  /\ Cardinality(Picturers') \in Nat
               /\ Cardinality(Picturers') = Cardinality(Picturers) - Count(Picturing(task[t]))
               /\ Cardinality(AtWork) \in Nat \ {0}
               /\ Cardinality(AtWork') = Cardinality(AtWork) - 1
    <3>1. Idle \in Local /\ ~Picturing(Idle)
      BY IdleLocal DEF Picturing
    <3>2. Count(Picturing(task[t])) \in Nat /\ Count(Picturing(Idle)) = 0
      BY <3>1 DEF Count
    <3>3. /\ Cardinality(Picturers') \in Nat
          /\ Cardinality(Picturers')
               = Cardinality(Picturers) + Count(Picturing(Idle)) - Count(Picturing(task[t]))
      BY <2>4, <3>1, PicturersChange
    <3>4. Cardinality(AtWork') = Cardinality(AtWork) - 1 /\ AtWork # {}
      BY <2>4, AtWorkLeaving
    <3> QED
      BY <1>0, <3>2, <3>3, <3>4
  <2>5. ASSUME task' = [task EXCEPT ![t] = Idle], task[t].pc # "idle",
               UNCHANGED <<failures, overlaps>>, LostPhotos' = LostPhotos
        PROVE  PhotosKept'
    <3>1. failures + overlaps \in Nat
      BY <1>0
    <3>2. Charged(LostPhotos, failures + overlaps, Cardinality(AtWork) - 1, SomeBeaten')
      BY <1>0, <2>4, <2>5, <3>1, ChargeLeave DEF PhotosKept
    <3> QED
      BY <1>0, <2>4, <2>5, <3>2 DEF PhotosKept
  <2>6. CASE Refusing(t)
    <3>1. /\ UNCHANGED <<photos, pictured, failures, overlaps>> /\ task[t].pc # "idle"
          /\ task' = [task EXCEPT ![t] = Idle]
      BY <2>6 DEF Refusing, tables, outside, counters
    <3>2. CASE ~Picturing(task[t])
      <4>1. Count(Picturing(task[t])) = 0
        BY <3>2 DEF Count
      <4>2. LostPhotos' = LostPhotos
        BY <1>0, <2>4, <3>1, <4>1 DEF LostPhotos
      <4> QED
        BY <2>5, <3>1, <4>2
    <3>3. CASE Picturing(task[t])
      <4>1. Count(Picturing(task[t])) = 1
        BY <3>3 DEF Count
      <4>2. LostPhotos' = LostPhotos + 1
        BY <1>0, <2>4, <3>1, <4>1 DEF LostPhotos
      <4>3. SomeBeaten
        BY <2>6, <3>3 DEF Refusing, SomeBeaten
      <4>4. failures + overlaps \in Nat
        BY <1>0
      <4>5. Charged(LostPhotos + 1, failures + overlaps, Cardinality(AtWork) - 1, SomeBeaten')
        BY <1>0, <2>4, <3>1, <4>3, <4>4, ChargeLeave DEF PhotosKept
      <4> QED
        BY <1>0, <2>4, <3>1, <4>2, <4>5 DEF PhotosKept
    <3> QED
      BY <3>2, <3>3
  <2>7. CASE Commit(t)
    <3>1. /\ UNCHANGED <<photos, failures, overlaps>> /\ task' = [task EXCEPT ![t] = Idle]
          /\ task[t].pc = "commit" /\ pictured' = IF task[t].photo THEN pictured + 1 ELSE pictured
      BY <2>7 DEF Commit, outside, counters
    <3>2. pictured' = pictured + Count(Picturing(task[t]))
      BY <1>0, <3>1 DEF Picturing, Count
    <3>3. Count(Picturing(task[t])) \in Nat
      BY DEF Count
    <3>4. LostPhotos' = LostPhotos
      BY <1>0, <2>4, <3>1, <3>2, <3>3 DEF LostPhotos
    <3> QED
      BY <2>5, <3>1, <3>4
  <2>8. CASE Fail(t)
    <3>1. /\ UNCHANGED <<photos, pictured, overlaps>> /\ failures' = failures + 1
          /\ task' = [task EXCEPT ![t] = Idle] /\ task[t].pc # "idle"
      BY <2>8 DEF Fail, Refuse, tables, outside
    <3>2. Count(Picturing(task[t])) \in {0, 1}
      BY DEF Count
    <3>3. LostPhotos' \in {LostPhotos, LostPhotos + 1}
      BY <1>0, <2>4, <3>1, <3>2 DEF LostPhotos
    <3>4. failures + overlaps \in Nat /\ failures' + overlaps' = (failures + overlaps) + 1
      BY <1>0, <3>1
    <3>5. /\ Charged(LostPhotos, (failures + overlaps) + 1, Cardinality(AtWork) - 1, SomeBeaten')
          /\ Charged(LostPhotos + 1, (failures + overlaps) + 1, Cardinality(AtWork) - 1, SomeBeaten')
      BY <1>0, <2>4, <3>1, <3>4, ChargeLeave DEF PhotosKept
    <3> QED
      BY <1>0, <2>4, <3>1, <3>3, <3>4, <3>5 DEF PhotosKept
  <2> QED
    BY <2>1, <2>2, <2>3, <2>6, <2>7, <2>8
<1> QED
  BY <1>1, <1>2

\* When nobody is at work, a photo without a dish and an announcement without
\* an order were each left by a failure or by a request that met another
\* (create_dish stores the photo, create_order announces, before the COMMIT).
THEOREM Stranded == Spec => []StrandedBounded
<1>1. Init => OrdersKept /\ PhotosKept
  <2> SUFFICES ASSUME Init PROVE OrdersKept /\ PhotosKept
    OBVIOUS
  <2>1. AtWork = {} /\ Picturers = {} /\ \A r : Announcers(r) = {}
    BY IdleLocal DEF Init, AtWork, Picturers, Picturing, Announcers, Announcing
  <2>2. Cardinality(AtWork) = 0 /\ Cardinality(Picturers) = 0
        /\ \A r : Cardinality(Announcers(r)) = 0
    BY <2>1, FS_EmptySet
  <2>3. OrdersKept
    BY <2>2 DEF Init, OrdersKept, LostOrders
  <2>4. LostPhotos = 0 /\ failures = 0 /\ overlaps = 0
    BY <2>2 DEF Init, LostPhotos
  <2> QED
    BY <2>2, <2>3, <2>4 DEF PhotosKept, Charged
<1>2. TInv /\ OrdersKept /\ PhotosKept => StrandedBounded
  <2> SUFFICES ASSUME TInv, OrdersKept, PhotosKept, AtWork = {}
               PROVE  /\ photos - pictured \in 0..(failures + overlaps)
                      /\ \A r \in Restaurants :
                            announced[r] - orders[r] \in 0..failures
    BY DEF StrandedBounded
  <2>1. Picturers = {} /\ \A r : Announcers(r) = {}
    BY DEF AtWork, Picturers, Picturing, Announcers, Announcing
  <2>2. Cardinality(Picturers) = 0 /\ \A r : Cardinality(Announcers(r)) = 0
    BY <2>1, FS_EmptySet
  <2>3. /\ photos \in Nat /\ pictured \in Nat /\ failures \in Nat /\ overlaps \in Nat
        /\ \A r \in Restaurants : announced[r] \in Nat /\ orders[r] \in Nat
    BY DEF TInv, TypeOK
  <2>4. photos - pictured \in 0..(failures + overlaps)
    BY <2>2, <2>3 DEF PhotosKept, LostPhotos, Charged
  <2>5. ASSUME NEW r \in Restaurants PROVE announced[r] - orders[r] \in 0..failures
    BY <2>2, <2>3 DEF OrdersKept, LostOrders
  <2> QED
    BY <2>4, <2>5
<1>3. TInv /\ OrdersKept /\ PhotosKept /\ [Next]_vars => OrdersKept' /\ PhotosKept'
  BY NextOrders, NextPhotos
<1> QED
  BY <1>1, <1>2, <1>3, AlwaysTInv, PTL DEF Spec

-----------------------------------------------------------------------------
(* The audit log                                                           *)

SomeStale(i) == \E t \in Tasks : Stale(task[t], i)

\* The entries are of rows there are, and the last that changes a flag tells
\* its value.
AuditMatches ==
    /\ \A k \in DOMAIN audit : audit[k].row \in DOMAIN settings
    /\ \A i \in DOMAIN settings : \A k \in FlagChanges(i) :
          IsLast(i, k) => audit[k].new["flag"] = settings[i]["flag"]

GapsCharged ==
    \A i \in DOMAIN settings :
        Charged(Cardinality(Gaps(i)), overlaps, Cardinality(AtWork), SomeStale(i))

AuditInv == AuditMatches /\ GapsCharged

LEMMA GapsFinite ==
  ASSUME TInv, NEW i
  PROVE  IsFiniteSet(Gaps(i)) /\ Cardinality(Gaps(i)) \in Nat
<1>1. DOMAIN audit = 1..Len(audit) /\ Len(audit) \in Nat
  BY DEF TInv, TypeOK
<1>2. IsFiniteSet(1..Len(audit))
  BY <1>1, FS_Interval
<1>3. Gaps(i) \in SUBSET (1..Len(audit))
  BY <1>1 DEF Gaps, FlagChanges
<1> QED
  BY <1>2, <1>3, FS_Subset, FS_CardinalityType

\* The log and the rows before and after a COMMIT.
LEMMA CommitLogs ==
  ASSUME TInv, NEW t \in Tasks, Commit(t)
  PROVE  LET me == task[t]
             n  == Len(audit) + 1
         IN  /\ Len(audit) \in Nat /\ DOMAIN audit = 1..Len(audit)
             /\ \A k \in DOMAIN audit : k \in DOMAIN audit' /\ audit'[k] = audit[k]
             /\ me.kind = "patch" /\ "flag" \in DOMAIN me.writes =>
                   n \in DOMAIN audit'
             /\ \A k \in DOMAIN audit' \ DOMAIN audit :
                   /\ k = n /\ me.kind = "patch"
                   /\ audit'[k].row = me.row /\ audit'[k].old = me.old
                   /\ audit'[k].new = me.writes
<1> DEFINE me == task[t]
           entry == [row |-> me.row, old |-> me.old, new |-> me.writes]
<1>1. audit \in Seq([row: Nat \ {0}, old: Assignments, new: Assignments])
  BY DEF TInv, TypeOK
<1>2. audit' = IF me.kind = "patch" /\ me.writes # << >> THEN Append(audit, entry) ELSE audit
  BY DEF Commit, Audited, Nothing
<1>3. "flag" \in DOMAIN me.writes => me.writes # << >>
  OBVIOUS
<1>4. entry.row = me.row /\ entry.old = me.old /\ entry.new = me.writes
  OBVIOUS
<1> HIDE DEF entry
<1>5. /\ Len(audit) \in Nat /\ DOMAIN audit = 1..Len(audit)
  BY <1>1
<1>6. CASE me.kind = "patch" /\ me.writes # << >>
  <2>1. /\ DOMAIN audit' = 1..(Len(audit) + 1)
        /\ \A k \in 1..Len(audit) : audit'[k] = audit[k]
        /\ audit'[Len(audit) + 1] = entry
    BY <1>1, <1>2, <1>6
  <2>2. ASSUME NEW k \in DOMAIN audit' \ DOMAIN audit PROVE k = Len(audit) + 1
    BY <1>5, <2>1
  <2> QED
    BY <1>4, <1>5, <1>6, <2>1, <2>2
<1>7. CASE ~(me.kind = "patch" /\ me.writes # << >>)
  BY <1>2, <1>3, <1>5, <1>7
<1> QED
  BY <1>6, <1>7

LEMMA CommitMatches ==
  ASSUME TInv, AuditMatches, NEW t \in Tasks, Commit(t)
  PROVE  AuditMatches'
<1> DEFINE me == task[t]
<1>1. /\ Known(me) /\ me.pc = "commit"
      /\ settings \in Seq(Row) /\ DOMAIN settings \subseteq DOMAIN settings'
  <2>1. Known(me) /\ me.pc = "commit" /\ settings \in Seq(Row)
    BY DEF TInv, TypeOK, Commit
  <2>2. settings' \in Seq(Row) /\ DOMAIN settings \subseteq DOMAIN settings'
    BY SettingsStored DEF TInv, TypeOK, Count
  <2> QED
    BY <2>1, <2>2
<1>2. me.kind = "patch" => me.row \in DOMAIN settings
  BY <1>1 DEF Known
<1>3. ASSUME NEW k \in DOMAIN audit' PROVE audit'[k].row \in DOMAIN settings
  <2>1. CASE k \in DOMAIN audit
    BY <2>1, CommitLogs DEF AuditMatches
  <2>2. CASE k \notin DOMAIN audit
    BY <1>2, <2>2, CommitLogs
  <2> QED
    BY <2>1, <2>2
<1>4. ASSUME NEW i \in DOMAIN settings', NEW k \in FlagChanges(i)', IsLast(i, k)'
      PROVE  audit'[k].new["flag"] = settings'[i]["flag"]
  <2>1. k \in DOMAIN audit' /\ audit'[k].row = i /\ "flag" \in DOMAIN audit'[k].new
    BY <1>4 DEF FlagChanges
  <2>2. i \in DOMAIN settings
    BY <1>3, <2>1
  <2>3. settings'[i]["flag"] = IF me.row = i /\ "flag" \in DOMAIN me.writes
                               THEN me.writes["flag"] ELSE settings[i]["flag"]
    BY <2>2, SettingsStored
  <2>4. CASE k \notin DOMAIN audit
    <3>1. audit'[k].row = me.row /\ audit'[k].new = me.writes
      BY <2>1, <2>4, CommitLogs
    <3> QED
      BY <2>1, <2>3, <3>1
  <2>5. CASE k \in DOMAIN audit
    <3>1. audit'[k] = audit[k] /\ k \in FlagChanges(i)
      BY <2>1, <2>5, CommitLogs DEF FlagChanges
    <3>2. IsLast(i, k)
      <4>1. ASSUME NEW m \in FlagChanges(i) PROVE m \in FlagChanges(i)'
        <5>1. m \in DOMAIN audit /\ audit[m].row = i /\ "flag" \in DOMAIN audit[m].new
          BY DEF FlagChanges
        <5>2. m \in DOMAIN audit' /\ audit'[m] = audit[m]
          BY <5>1, CommitLogs
        <5> QED
          BY <5>1, <5>2 DEF FlagChanges
      <4> QED
        BY <1>4, <4>1 DEF IsLast
    <3>3. ~(me.row = i /\ "flag" \in DOMAIN me.writes)
      <4> SUFFICES ASSUME me.row = i, "flag" \in DOMAIN me.writes PROVE FALSE
        OBVIOUS
      <4>1. me.kind = "patch"
        BY <1>1 DEF Known
      <4>2. Len(audit) + 1 \in DOMAIN audit' /\ Len(audit) + 1 \notin DOMAIN audit
            /\ Len(audit) \in Nat /\ DOMAIN audit = 1..Len(audit)
        BY <4>1, CommitLogs
      <4>3. audit'[Len(audit) + 1].row = i /\ audit'[Len(audit) + 1].new = me.writes
        BY <4>2, CommitLogs
      <4>4. Len(audit) + 1 \in FlagChanges(i)'
        BY <4>2, <4>3 DEF FlagChanges
      <4>5. Len(audit) + 1 <= k
        BY <1>4, <4>4 DEF IsLast
      <4> QED
        BY <2>5, <4>2, <4>5
    <3> QED
      BY <2>2, <2>3, <3>1, <3>2, <3>3 DEF AuditMatches
  <2> QED
    BY <2>4, <2>5
<1>5. ASSUME NEW k \in DOMAIN audit' PROVE audit'[k].row \in DOMAIN settings'
  BY <1>1, <1>3
<1> QED
  BY <1>4, <1>5 DEF AuditMatches

\* A COMMIT makes a new gap only behind the last entry of its row, and only if
\* the value it logs as old was stale.
LEMMA CommitGaps ==
  ASSUME TInv, AuditMatches, NEW t \in Tasks, Commit(t), NEW i \in DOMAIN settings,
         NEW k \in Gaps(i)', k \notin Gaps(i)
  PROVE  Stale(task[t], i) /\ k \in FlagChanges(i) /\ IsLast(i, k)
<1> DEFINE me == task[t]
           n == Len(audit) + 1
<1>1. Known(me) /\ me.pc = "commit"
  BY DEF TInv, Commit
<1>2. /\ Len(audit) \in Nat /\ DOMAIN audit = 1..Len(audit)
      /\ \A m \in DOMAIN audit : m \in DOMAIN audit' /\ audit'[m] = audit[m]
  BY CommitLogs
<1>3. ASSUME NEW m \in FlagChanges(i) PROVE m \in FlagChanges(i)' /\ audit'[m] = audit[m]
  <2>1. m \in DOMAIN audit /\ audit[m].row = i /\ "flag" \in DOMAIN audit[m].new
    BY DEF FlagChanges
  <2>2. m \in DOMAIN audit' /\ audit'[m] = audit[m]
    BY <1>2, <2>1
  <2> QED
    BY <2>1, <2>2 DEF FlagChanges
<1>4. ASSUME NEW m \in FlagChanges(i)', m \notin FlagChanges(i)
      PROVE  /\ m = n /\ me.kind = "patch" /\ me.row = i /\ "flag" \in DOMAIN me.writes
             /\ audit'[m].old = me.old /\ audit'[m].new = me.writes
  <2>1. m \in DOMAIN audit' /\ audit'[m].row = i /\ "flag" \in DOMAIN audit'[m].new
    BY <1>4 DEF FlagChanges
  <2>2. m \notin DOMAIN audit
    BY <1>2, <1>4, <2>1 DEF FlagChanges
  <2> QED
    BY <2>1, <2>2, CommitLogs
<1>5. settings'[i]["flag"] = IF me.row = i /\ "flag" \in DOMAIN me.writes
                             THEN me.writes["flag"] ELSE settings[i]["flag"]
  BY SettingsStored
<1>6. \A m \in FlagChanges(i) : m \in 1..Len(audit)
  BY <1>2 DEF FlagChanges
<1>7. k \in FlagChanges(i)'
  BY DEF Gaps
<1>8. CASE k \notin FlagChanges(i)
  <2>1. /\ k = n /\ me.row = i /\ "flag" \in DOMAIN me.writes /\ audit'[k].new = me.writes
    BY <1>4, <1>7, <1>8
  <2>2. settings'[i]["flag"] = audit'[k].new["flag"]
    BY <1>5, <2>1
  <2>3. \A m \in FlagChanges(i)' : ~(m > k)
    BY <1>2, <1>4, <1>6, <2>1
  <2> QED
    BY <2>2, <2>3 DEF Gaps, Follows
<1>9. CASE k \in FlagChanges(i)
  <2>1. audit'[k] = audit[k]
    BY <1>3, <1>9
  <2>2. CASE IsLast(i, k)' /\ settings'[i]["flag"] # audit'[k].new["flag"]
    <3>1. IsLast(i, k)
      BY <1>3, <2>2 DEF IsLast
    <3>2. settings'[i]["flag"] # settings[i]["flag"]
      BY <1>9, <2>1, <2>2, <3>1 DEF AuditMatches
    <3>3. me.row = i /\ "flag" \in DOMAIN me.writes
      BY <1>5, <3>2
    <3>4. me.kind = "patch"
      BY <1>1, <3>3 DEF Known
    <3>5. n \in DOMAIN audit' /\ n \notin DOMAIN audit
      BY <1>2, <3>3, <3>4, CommitLogs
    <3>6. n \in FlagChanges(i)'
      BY <3>3, <3>5, CommitLogs DEF FlagChanges
    <3>7. n <= k
      BY <2>2, <3>6 DEF IsLast
    <3> QED
      BY <1>2, <1>6, <1>9, <3>7
  <2>3. ASSUME NEW m \in FlagChanges(i)', Follows(i, k, m)',
               audit'[m].old["flag"] # audit'[k].new["flag"]
        PROVE  Stale(me, i) /\ IsLast(i, k)
    <3>1. m > k /\ \A j \in FlagChanges(i) : j \notin (k + 1)..(m - 1)
      BY <1>3, <2>3 DEF Follows
    <3>2. m \notin FlagChanges(i)
      <4> SUFFICES ASSUME m \in FlagChanges(i) PROVE FALSE
        OBVIOUS
      <4>1. audit[m].old["flag"] # audit[k].new["flag"]
        BY <1>3, <2>1, <2>3
      <4>2. Follows(i, k, m)
        BY <3>1 DEF Follows
      <4>3. k \in Gaps(i)
        BY <1>9, <4>1, <4>2 DEF Gaps
      <4> QED
        BY <4>3
    <3>3. /\ m = n /\ me.kind = "patch" /\ me.row = i /\ "flag" \in DOMAIN me.writes
          /\ audit'[m].old = me.old
      BY <1>4, <2>3, <3>2
    <3>4. IsLast(i, k)
      <4>1. ASSUME NEW j \in FlagChanges(i) PROVE j <= k
        <5>1. j \in 1..Len(audit) /\ k \in 1..Len(audit) /\ j \notin (k + 1)..(n - 1)
          BY <1>6, <1>9, <3>1, <3>3
        <5> QED
          BY <1>2, <5>1
      <4> QED
        BY <4>1 DEF IsLast
    <3>5. audit[k].new["flag"] = settings[i]["flag"]
      BY <1>9, <3>4 DEF AuditMatches
    <3> QED
      BY <1>1, <2>1, <2>3, <3>3, <3>4, <3>5 DEF Stale
  <2>4. \/ IsLast(i, k)' /\ settings'[i]["flag"] # audit'[k].new["flag"]
        \/ \E m \in FlagChanges(i)' :
              Follows(i, k, m)' /\ audit'[m].old["flag"] # audit'[k].new["flag"]
    BY DEF Gaps
  <2> QED
    BY <1>9, <2>2, <2>3, <2>4
<1> QED
  BY <1>8, <1>9

LEMMA CommitCharges ==
  ASSUME TInv, CrowdBounded, AuditInv, NEW t \in Tasks, Commit(t)
  PROVE  GapsCharged'
<1>0. /\ overlaps \in Nat /\ overlaps' = overlaps /\ AuditMatches
      /\ task' = [task EXCEPT ![t] = Idle] /\ task[t].pc # "idle"
  BY DEF TInv, TypeOK, Commit, counters, AuditInv
<1>1. /\ Cardinality(AtWork) \in Nat \ {0}
      /\ Cardinality(AtWork') = Cardinality(AtWork) - 1
  <2>1. Cardinality(AtWork') = Cardinality(AtWork) - 1 /\ AtWork # {}
    BY <1>0, AtWorkLeaving
  <2>2. IsFiniteSet(AtWork)
    BY AtWorkFinite
  <2> QED
    BY <2>1, <2>2, FS_CardinalityType, FS_EmptySet
<1>2. ASSUME NEW i \in DOMAIN settings'
      PROVE  Charged(Cardinality(Gaps(i)'), overlaps, Cardinality(AtWork) - 1, SomeStale(i)')
  <2>0. SomeStale(i) \in BOOLEAN /\ SomeStale(i)' \in BOOLEAN
    BY DEF SomeStale
  <2>1. CASE i \notin DOMAIN settings
    <3>1. ASSUME NEW k \in FlagChanges(i)' PROVE FALSE
      <4>1. k \in DOMAIN audit' /\ audit'[k].row = i
        BY DEF FlagChanges
      <4>2. CASE k \in DOMAIN audit
        BY <1>0, <2>1, <4>1, <4>2, CommitLogs DEF AuditMatches
      <4>3. CASE k \notin DOMAIN audit
        <5>1. task[t].kind = "patch" /\ task[t].row = i
          BY <4>1, <4>3, CommitLogs
        <5>2. task[t].row \in DOMAIN settings
          BY <5>1 DEF TInv, Known, Commit
        <5> QED
          BY <2>1, <5>1, <5>2
      <4> QED
        BY <4>2, <4>3
    <3>2. Gaps(i)' = {}
      BY <3>1 DEF Gaps
    <3>3. Cardinality(Gaps(i)') = 0
      BY <3>2, FS_EmptySet
    <3>4. Cardinality(AtWork) - 1 <= overlaps
      BY <1>0, <1>1 DEF CrowdBounded
    <3> QED
      BY <1>0, <1>1, <3>3, <3>4 DEF Charged, Count
  <2>2. CASE i \in DOMAIN settings
    <3>1. IsFiniteSet(Gaps(i)) /\ Cardinality(Gaps(i)) \in Nat
      BY GapsFinite
    <3>2. Charged(Cardinality(Gaps(i)), overlaps, Cardinality(AtWork), SomeStale(i))
      BY <2>2 DEF AuditInv, GapsCharged
    <3>3. /\ Charged(Cardinality(Gaps(i)), overlaps, Cardinality(AtWork) - 1, SomeStale(i)')
          /\ SomeStale(i) =>
                Charged(Cardinality(Gaps(i)) + 1, overlaps, Cardinality(AtWork) - 1, SomeStale(i)')
      BY <1>0, <1>1, <2>0, <3>1, <3>2, ChargeLeave
    <3>4. CASE Gaps(i)' \subseteq Gaps(i)
      <4>1. Gaps(i)' \in SUBSET Gaps(i)
        BY <3>4
      <4>2. Cardinality(Gaps(i)') <= Cardinality(Gaps(i)) /\ Cardinality(Gaps(i)') \in Nat
        BY <3>1, <4>1, FS_Subset, FS_CardinalityType
      <4> QED
        BY <1>0, <1>1, <2>0, <3>1, <3>3, <4>2 DEF Charged, Count
    <3>5. ASSUME NEW k \in Gaps(i)', k \notin Gaps(i)
          PROVE  Charged(Cardinality(Gaps(i)'), overlaps, Cardinality(AtWork) - 1, SomeStale(i)')
      <4>1. Stale(task[t], i) /\ k \in FlagChanges(i) /\ IsLast(i, k)
        BY <1>0, <2>2, <3>5, CommitGaps
      <4>2. ASSUME NEW m \in Gaps(i)', m \notin Gaps(i) PROVE m = k
        <5>1. m \in FlagChanges(i) /\ IsLast(i, m)
          BY <1>0, <2>2, <4>2, CommitGaps
        <5>2. m <= k /\ k <= m
          BY <4>1, <5>1 DEF IsLast
        <5>3. m \in Nat /\ k \in Nat
          BY <4>1, <5>1, CommitLogs DEF FlagChanges
        <5> QED
          BY <5>2, <5>3
      <4>3. Gaps(i)' \in SUBSET (Gaps(i) \cup {k})
        BY <4>2
      <4>4. /\ IsFiniteSet(Gaps(i) \cup {k})
            /\ Cardinality(Gaps(i) \cup {k}) = Cardinality(Gaps(i)) + 1
        BY <3>1, <3>5, FS_AddElement
      <4>5. /\ Cardinality(Gaps(i)') <= Cardinality(Gaps(i) \cup {k})
            /\ Cardinality(Gaps(i)') \in Nat
        BY <4>3, <4>4, FS_Subset, FS_CardinalityType
      <4>6. SomeStale(i)
        BY <4>1 DEF SomeStale
      <4>7. Charged(Cardinality(Gaps(i)) + 1, overlaps, Cardinality(AtWork) - 1, SomeStale(i)')
        BY <3>3, <4>6
      <4> QED
        BY <1>0, <1>1, <2>0, <3>1, <4>4, <4>5, <4>7 DEF Charged, Count
    <3> QED
      BY <3>4, <3>5
  <2> QED
    BY <2>1, <2>2
<1> QED
  BY <1>0, <1>1, <1>2 DEF GapsCharged

\* Steps other than a COMMIT leave the log alone.
LEMMA LogUnchanged ==
  ASSUME UNCHANGED <<audit, settings>>, AuditMatches
  PROVE  AuditMatches' /\ \A i : Gaps(i)' = Gaps(i)
BY DEF AuditMatches, Gaps, FlagChanges, Follows, IsLast

LEMMA NextAudit == TInv /\ CrowdBounded /\ AuditInv /\ [Next]_vars => AuditInv'
<1> SUFFICES ASSUME TInv, CrowdBounded, AuditInv, [Next]_vars PROVE AuditInv'
  OBVIOUS
<1>0. /\ overlaps \in Nat /\ Cardinality(AtWork) \in Nat
      /\ (Cardinality(AtWork) = 0 <=> AtWork = {})
      /\ \A i : SomeStale(i) \in BOOLEAN /\ SomeStale(i)' \in BOOLEAN
  <2>1. IsFiniteSet(AtWork)
    BY AtWorkFinite
  <2>2. Cardinality(AtWork) \in Nat /\ (Cardinality(AtWork) = 0 <=> AtWork = {})
    BY <2>1, FS_CardinalityType, FS_EmptySet
  <2>3. \A i : SomeStale(i) \in BOOLEAN /\ SomeStale(i)' \in BOOLEAN
    BY DEF SomeStale
  <2> QED
    BY <2>2, <2>3 DEF TInv, TypeOK
<1>1. CASE UNCHANGED vars
  <2>1. /\ UNCHANGED <<audit, settings, overlaps>> /\ AtWork' = AtWork
        /\ \A i : SomeStale(i)' = SomeStale(i)
    BY <1>1 DEF vars, counters, tables, AtWork, SomeStale, Stale
  <2>2. AuditMatches' /\ \A i : Gaps(i)' = Gaps(i)
    BY <2>1, LogUnchanged DEF AuditInv
  <2> QED
    BY <2>1, <2>2 DEF AuditInv, GapsCharged
<1>2. CASE Next
  <2>1. PICK t \in Tasks :
            \/ \E q \in Restaurants, me \in Local : Arriving(t, q, me)
            \/ \E me \in Local : Moving(t, me) /\ Announces(t, me) /\ Stores(t, me)
            \/ Refusing(t)
            \/ Commit(t)
            \/ Fail(t)
    BY <1>2, StepShapes
  <2>2. ASSUME NEW q \in Restaurants, NEW me \in Local, Arriving(t, q, me)
        PROVE  AuditInv'
    <3>1. /\ UNCHANGED <<audit, settings>> /\ task' = [task EXCEPT ![t] = me]
          /\ me.pc \notin {"flush", "commit"}
          /\ overlaps' = overlaps + Count(AtWork # {})
      BY <2>2 DEF Arriving, tables
    <3>2. AuditMatches' /\ \A i : Gaps(i)' = Gaps(i)
      BY <3>1, LogUnchanged DEF AuditInv
    <3>3. ASSUME NEW i \in DOMAIN settings
          PROVE  Charged(Cardinality(Gaps(i)), overlaps + Count(Cardinality(AtWork) # 0),
                         Cardinality(AtWork) + 1, SomeStale(i)')
      <4>1. SomeStale(i)' => SomeStale(i)
        BY <3>1 DEF SomeStale, Stale, TInv, TypeOK
      <4>2. AtWork = {} => ~SomeStale(i)
        BY DEF AtWork, SomeStale, Stale
      <4>3. Charged(Cardinality(Gaps(i)), overlaps, Cardinality(AtWork), SomeStale(i))
        BY DEF AuditInv, GapsCharged
      <4>4. Cardinality(Gaps(i)) \in Nat
        BY GapsFinite
      <4> QED
        BY <1>0, <4>1, <4>2, <4>3, <4>4, ChargeArrival
    <3>4. Cardinality(AtWork') = Cardinality(AtWork) + 1
      BY <2>2, AtWorkArriving
    <3>5. overlaps' = overlaps + Count(Cardinality(AtWork) # 0)
      BY <1>0, <3>1 DEF Count
    <3> QED
      BY <3>1, <3>2, <3>3, <3>4, <3>5 DEF AuditInv, GapsCharged
  <2>3. ASSUME NEW me \in Local, Moving(t, me)
        PROVE  AuditInv'
    <3>1. /\ UNCHANGED <<audit, settings, overlaps>> /\ task' = [task EXCEPT ![t] = me]
          /\ \A i \in DOMAIN settings : Stale(me, i) => Stale(task[t], i)
      BY <2>3 DEF Moving, tables, counters
    <3>2. AuditMatches' /\ \A i : Gaps(i)' = Gaps(i)
      BY <3>1, LogUnchanged DEF AuditInv
    <3>3. ASSUME NEW i \in DOMAIN settings
          PROVE  Charged(Cardinality(Gaps(i)), overlaps, Cardinality(AtWork), SomeStale(i)')
      <4>1. SomeStale(i)' => SomeStale(i)
        <5> SUFFICES ASSUME NEW u \in Tasks, Stale(task[u], i)' PROVE SomeStale(i)
          BY DEF SomeStale
        <5>1. Stale(task'[u], i)
          BY <3>1 DEF Stale
        <5>2. task'[u] = IF u = t THEN me ELSE task[u]
          BY <3>1 DEF TInv, TypeOK
        <5> QED
          BY <3>1, <5>1, <5>2 DEF SomeStale
      <4>3. Charged(Cardinality(Gaps(i)), overlaps, Cardinality(AtWork), SomeStale(i))
        BY DEF AuditInv, GapsCharged
      <4>4. Cardinality(Gaps(i)) \in Nat
        BY GapsFinite
      <4> QED
        BY <1>0, <4>1, <4>3, <4>4, ChargeStay
    <3>4. AtWork' = AtWork
      BY <2>3, AtWorkMoving
    <3> QED
      BY <3>1, <3>2, <3>3, <3>4 DEF AuditInv, GapsCharged
  <2>4. ASSUME task' = [task EXCEPT ![t] = Idle], task[t].pc # "idle",
               UNCHANGED <<audit, settings, overlaps>>
        PROVE  AuditInv'
    <3>1. AuditMatches' /\ \A i : Gaps(i)' = Gaps(i)
      BY <2>4, LogUnchanged DEF AuditInv
    <3>2. Cardinality(AtWork') = Cardinality(AtWork) - 1 /\ Cardinality(AtWork) \in Nat \ {0}
      <4>1. Cardinality(AtWork') = Cardinality(AtWork) - 1 /\ AtWork # {}
        BY <2>4, AtWorkLeaving
      <4> QED
        BY <1>0, <4>1
    <3>3. ASSUME NEW i \in DOMAIN settings
          PROVE  Charged(Cardinality(Gaps(i)), overlaps, Cardinality(AtWork) - 1, SomeStale(i)')
      <4>1. Charged(Cardinality(Gaps(i)), overlaps, Cardinality(AtWork), SomeStale(i))
        BY DEF AuditInv, GapsCharged
      <4>2. Cardinality(Gaps(i)) \in Nat
        BY GapsFinite
      <4> QED
        BY <1>0, <3>2, <4>1, <4>2, ChargeLeave
    <3> QED
      BY <2>4, <3>1, <3>2, <3>3 DEF AuditInv, GapsCharged
  <2>5. CASE Refusing(t)
    BY <2>4, <2>5 DEF Refusing, tables, counters
  <2>6. CASE Commit(t)
    BY <2>6, CommitMatches, CommitCharges DEF AuditInv
  <2>7. CASE Fail(t)
    BY <2>4, <2>7 DEF Fail, Refuse, tables
  <2> QED
    BY <2>1, <2>2, <2>3, <2>5, <2>6, <2>7
<1> QED
  BY <1>1, <1>2

\* Read one by one, the entries of PATCH /settings tell every value that a
\* setting of its own had, but for one gap for each edit that met another:
\* both log the value from before (update_settings in routes/settings.py).
THEOREM AuditTells == Spec => []AuditGapsBounded
<1>1. Init => AuditInv
  <2> SUFFICES ASSUME Init PROVE AuditInv
    OBVIOUS
  <2>1. AtWork = {} /\ (\A i : ~SomeStale(i)) /\ \A i : Gaps(i) = {} /\ FlagChanges(i) = {}
    BY IdleLocal DEF Init, AtWork, SomeStale, Stale, Gaps, FlagChanges
  <2>2. Cardinality(AtWork) = 0 /\ \A i : Cardinality(Gaps(i)) = 0
    BY <2>1, FS_EmptySet
  <2>3. AuditMatches
    BY <2>1 DEF Init, AuditMatches
  <2>4. GapsCharged
    BY <2>2 DEF Init, GapsCharged, Charged
  <2> QED
    BY <2>3, <2>4 DEF AuditInv
<1>2. AuditInv => AuditGapsBounded
  BY DEF AuditInv, GapsCharged, Charged, AuditGapsBounded
<1>3. TInv /\ CrowdBounded /\ AuditInv /\ [Next]_vars => AuditInv'
  BY NextAudit
<1> QED
  BY <1>1, <1>2, <1>3, AlwaysCrowdBounded, PTL DEF Spec
=============================================================================
