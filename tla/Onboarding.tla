----------------------------- MODULE Onboarding -----------------------------
(***************************************************************************)
(* POST /admin/v1/onboarding/start: onboarding_start of                    *)
(* apps/admin_api/routes/onboarding.py with ensure_role_catalog of         *)
(* backend/auth/bootstrap.py, on PostgreSQL in READ COMMITTED mode.        *)
(*                                                                         *)
(* The handler works on two connections.  Its session inserts the tenant,  *)
(* creates the tenant's schema, seeds the catalog and commits at the end;  *)
(* a second connection creates the tables and commits at once.  Both       *)
(* resolve an unqualified name along "tenant_<id>, shared", where a schema *)
(* that is not committed exists for the session that created it only.      *)
(*                                                                         *)
(* A place is a schema: that of a restaurant, or Shared.  The tenant       *)
(* tables are in Shared from the start where revision 004 was run: the     *)
(* schema tenant_default that it names is made by nothing, so its tables   *)
(* land in the next schema of its path.                                    *)
(***************************************************************************)
EXTENDS Naturals, FiniteSets

CONSTANTS
    Restaurants, Tasks, NoRestaurant, Shared,
    SlugOf,             \* restaurant -> slug of its name
    EmailOf,            \* restaurant -> e-mail of its owner
    Definitions,        \* ROLE_DEFINITIONS: role -> permissions
    MaxFailures         \* bound: lost connections

ASSUME OnboardingAssumption ==
    /\ NoRestaurant \notin Restaurants
    /\ Shared \notin Restaurants
    /\ MaxFailures \in Nat

VARIABLES
    tenants,    \* committed rows of shared.tenants
    tables,     \* places that have the tenant tables
    schemas,    \* restaurants whose schema is committed
    content,    \* place -> committed roles, role_permissions, employee_users
                \* and tenant_settings, the last two by restaurant
    home,       \* committed tenant -> the place its owner row went to
    task,       \* local state of each handler
    replies,    \* restaurant -> status codes
    failures

vars == <<tenants, tables, schemas, content, home, task, replies, failures>>

Places == Restaurants \cup {Shared}
RoleNames == DOMAIN Definitions
Pairs == UNION {{r} \X Definitions[r] : r \in RoleNames}
Steps == {"idle", "check", "tenant", "tables", "seed", "flush", "commit"}

Empty == [roles |-> {}, permissions |-> {}, owners |-> {}, settings |-> {}]
Idle == [pc |-> "idle", rest |-> NoRestaurant, place |-> Shared, new |-> Empty]

\* What revision 004 inserts: ON CONFLICT (permission_code) DO NOTHING.
Migrated ==
    [Empty EXCEPT !.roles = RoleNames,
                  !.permissions = {p \in Pairs : p = CHOOSE q \in Pairs : q[2] = p[2]}]

Init ==
    /\ tenants = {}
    /\ tables \in {{}, {Shared}}
    /\ schemas = {}
    /\ content = [p \in Places |-> IF p \in tables THEN Migrated ELSE Empty]
    /\ home = [r \in Restaurants |-> NoRestaurant]
    /\ task = [t \in Tasks |-> Idle]
    /\ replies = [r \in Restaurants |-> {}]
    /\ failures = 0

-----------------------------------------------------------------------------
Go(t, pc) == task' = [task EXCEPT ![t].pc = pc]

Answer(t, code) ==
    /\ task' = [task EXCEPT ![t] = Idle]
    /\ replies' = [replies EXCEPT ![task[t].rest] = @ \cup {code}]

\* A request, sent again by the owner if it got no answer.
Start(t, r) ==
    /\ task[t].pc = "idle"
    /\ \A u \in Tasks : task[u].rest # r
    /\ replies[r] = {}
    /\ task' = [task EXCEPT ![t] = [Idle EXCEPT !.pc = "check", !.rest = r]]
    /\ UNCHANGED <<tenants, tables, schemas, content, home, replies, failures>>

SlugTaken(t) == \E r \in tenants : SlugOf[r] = SlugOf[task[t].rest]

CheckSlug(t) ==
    /\ task[t].pc = "check"
    /\ IF SlugTaken(t) THEN Answer(t, "409") ELSE Go(t, "tenant") /\ UNCHANGED replies
    /\ UNCHANGED <<tenants, tables, schemas, content, home, failures>>

InTransaction(t) == task[t].pc \in {"tables", "seed", "flush", "commit"}

\* INSERT INTO shared.tenants: the unique index on the slug makes it wait
\* for whoever inserted the slug before and fail if that one committed.
InsertTenant(t) ==
    /\ task[t].pc = "tenant"
    /\ \A u \in Tasks : InTransaction(u) => SlugOf[task[u].rest] # SlugOf[task[t].rest]
    /\ IF SlugTaken(t) THEN Answer(t, "500") ELSE Go(t, "tables") /\ UNCHANGED replies
    /\ UNCHANGED <<tenants, tables, schemas, content, home, failures>>

\* First schema of the path that the second connection can see.
Target(t) == IF task[t].rest \in schemas THEN task[t].rest ELSE Shared

\* CREATE SCHEMA in the session, create_all over the second connection.
CreateTables(t) ==
    /\ task[t].pc = "tables"
    /\ tables' = IF {task[t].rest, Shared} \cap tables = {}
                 THEN tables \cup {Target(t)} ELSE tables
    /\ Go(t, "seed")
    /\ UNCHANGED <<tenants, schemas, content, home, replies, failures>>

\* Where the tables that the session sees are.
Resolved(t) == IF task[t].rest \in tables THEN task[t].rest ELSE Shared

\* ensure_role_catalog: what it adds to a catalog.  A permission code that
\* exists for one role is not added for another.
Missing(has) ==
    [roles |-> RoleNames \ has.roles,
     permissions |-> {p \in Pairs : \A q \in has.permissions : q[2] # p[2]}]

\* The catalog is read; the rows are added to the session.
Seed(t) ==
    LET place == Resolved(t)
        new == Missing(content[place])
    IN  /\ task[t].pc = "seed"
        /\ task' = [task EXCEPT ![t].pc = "flush", ![t].place = place,
              ![t].new = [roles |-> new.roles, permissions |-> new.permissions,
                          owners |-> {task[t].rest}, settings |-> {task[t].rest}]]
        /\ UNCHANGED <<tenants, tables, schemas, content, home, replies, failures>>

\* Rows that cannot both be in a place: roles.code, uq_employee_users_email,
\* uq_role_permissions_permission_code.
Collide(a, b) ==
    \/ a.roles \cap b.roles # {}
    \/ \E r \in a.owners, s \in b.owners : EmailOf[r] = EmailOf[s]
    \/ \E p \in a.permissions, q \in b.permissions : p[2] = q[2]

\* The catalog gives some codes to several roles.
SelfCollide(new) ==
    \E p, q \in new.permissions : p # q /\ p[2] = q[2]

FlushRowsLeavesOpen(t) ==                                           \* mutant
    /\ task[t].pc = "flush"
    /\ Go(t, IF SelfCollide(task[t].new) \/ Collide(task[t].new, content[task[t].place])
             THEN "leaked" ELSE "commit")
    /\ UNCHANGED <<tenants, tables, schemas, content, home, replies, failures>>

FlushRowsDespiteConflict(t) ==                                      \* mutant
    LET new == task[t].new
        place == task[t].place
    IN  /\ task[t].pc = "flush"
        /\ task' = [task EXCEPT ![t].pc = "commit",
              ![t].new = IF SelfCollide(new) \/ Collide(new, content[place])
                         THEN Empty ELSE new]
        /\ UNCHANGED <<tenants, tables, schemas, content, home, replies, failures>>

FlushRows(t) ==
    LET new == task[t].new
        place == task[t].place
    IN  /\ task[t].pc = "flush"
        /\ \A u \in Tasks \ {t} :
              task[u].pc = "commit" /\ task[u].place = place => ~Collide(new, task[u].new)
        /\ IF SelfCollide(new) \/ Collide(new, content[place])
           THEN Answer(t, "500") ELSE Go(t, "commit") /\ UNCHANGED replies
        /\ UNCHANGED <<tenants, tables, schemas, content, home, failures>>

StoredInOwnSchema(t) ==                                             \* mutant
    [content EXCEPT ![task[t].rest] =
        [f \in DOMAIN @ |-> @[f] \cup task[t].new[f]]]

Stored(t) ==
    [content EXCEPT ![task[t].place] =
        [f \in DOMAIN @ |-> @[f] \cup task[t].new[f]]]

Commit(t) ==
    /\ task[t].pc = "commit"
    /\ tenants' = tenants \cup {task[t].rest}
    /\ schemas' = schemas \cup {task[t].rest}
    /\ content' = Stored(t)
    /\ home' = [home EXCEPT ![task[t].rest] = task[t].place]
    /\ Answer(t, "201")
    /\ UNCHANGED <<tables, failures>>

\* An exception or a lost connection: close() rolls the session back; the
\* tables that the second connection committed stay.
Fail(t) ==
    /\ task[t].pc # "idle"
    /\ failures < MaxFailures
    /\ failures' = failures + 1
    /\ task' = [task EXCEPT ![t] = Idle]
    /\ UNCHANGED <<tenants, tables, schemas, content, home, replies>>

HandlerStep(t) ==
    \/ CheckSlug(t)
    \/ InsertTenant(t)
    \/ CreateTables(t)
    \/ Seed(t)
    \/ FlushRows(t)
    \/ Commit(t)

Next ==
    \E t \in Tasks :
        \/ \E r \in Restaurants : Start(t, r)
        \/ HandlerStep(t)
        \/ Fail(t)

Spec == Init /\ [][Next]_vars

FairSpec == Spec /\ \A t \in Tasks : WF_vars(HandlerStep(t))

-----------------------------------------------------------------------------
(* Properties                                                              *)

Rows == [roles: SUBSET RoleNames, permissions: SUBSET Pairs,
         owners: SUBSET Restaurants, settings: SUBSET Restaurants]

TypeOK ==
    /\ tenants \subseteq Restaurants
    /\ schemas \subseteq Restaurants
    /\ tables \subseteq Places
    /\ content \in [Places -> Rows]
    /\ \A p \in Places \ tables : content[p] = Empty
    /\ home \in [Restaurants -> Places \cup {NoRestaurant}]
    /\ task \in [Tasks -> [pc: Steps, rest: Restaurants \cup {NoRestaurant},
                           place: Places, new: Rows]]
    /\ replies \in [Restaurants -> SUBSET {"201", "409", "500"}]
    /\ failures \in 0..MaxFailures

\* A tenant row is never alone: with it come its schema, its owner, its
\* settings, every role and every permission code, however the request ended
\* and whatever else ran.
TenantIsComplete ==
    \A r \in tenants :
        /\ r \in schemas
        /\ home[r] \in tables
        /\ r \in content[home[r]].owners \cap content[home[r]].settings
        /\ content[home[r]].roles = RoleNames
        /\ {p[2] : p \in content[home[r]].permissions} = {p[2] : p \in Pairs}

\* Requests wait for one another in the database and still all end.
StartEnds == \A t \in Tasks : (task[t].pc # "idle") ~> (task[t].pc = "idle")

\* Nobody disturbs the first restaurant: its registration succeeds.
FirstStartSucceeds ==
    (Cardinality(Restaurants) = 1 /\ failures = 0) =>
        \A r \in Restaurants : "500" \notin replies[r]

\* The tables of a tenant are in the schema of the tenant.
TablesArePrivate == \A r \in tenants : home[r] = r
=============================================================================
