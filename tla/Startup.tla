------------------------------ MODULE Startup ------------------------------
(***************************************************************************)
(* What a service does before it serves: init_database of                  *)
(* shared/database.py, which the bot, the API, the admin API and the       *)
(* bootstrap script all run against the same database, and                 *)
(* seed_shared_data of backend/bootstrap/shared_seed.py, which it calls.   *)
(*                                                                         *)
(* The first transaction creates the extension, the schema and the shared  *)
(* tables, each "if not exists".  Such a statement looks for the object    *)
(* among the committed ones and, not finding it, inserts into the system   *)
(* catalog, where a unique index makes it wait for a concurrent creator    *)
(* and fail once that one commits.  The first object decides for all of    *)
(* them.  A process that fails to start exits and is started again         *)
(* (restart: unless-stopped in docker-compose.yml); one that an operator   *)
(* has stopped stays so until the operator starts it.                      *)
(***************************************************************************)
EXTENDS Naturals, FiniteSets

CONSTANTS
    Services, Plans,
    retries,        \* of _create_raw_pool_with_retry, 3 in the code
    DsnAccepted,    \* asyncpg can parse DATABASE_URL
    VectorAvailable,    \* the server has pgvector; postgres:15-alpine has not
    MaxLosses,      \* bound: lost or refused connections
    MaxStops        \* bound: shutdowns of running services

ASSUME StartupAssumption ==
    /\ IsFiniteSet(Services)
    /\ retries \in Nat \ {0}
    /\ DsnAccepted \in BOOLEAN /\ VectorAvailable \in BOOLEAN
    /\ MaxLosses \in Nat /\ MaxStops \in Nat

VARIABLES
    created,    \* the extension, the shared schema and its tables are committed
    plans,      \* committed rows of shared.plans, counted by name
    proc,       \* local state of each service's process
    losses, stops

startupVars == <<created, plans, proc, losses, stops>>

ProcSteps == {"stopped", "down", "check", "create", "made", "seed", "insert", "pool", "up"}

ProcState == [pc: ProcSteps, missing: SUBSET Plans, attempt: 1..retries]

Down == [pc |-> "down", missing |-> {}, attempt |-> 1]

\* The database is fresh, or everything has been made before.
StartupInit ==
    /\ created \in BOOLEAN
    /\ created => VectorAvailable
    /\ plans = [p \in Plans |-> 0]
    /\ proc = [s \in Services |-> Down]
    /\ losses = 0
    /\ stops = 0

-----------------------------------------------------------------------------
Proceed(s, pc) == proc' = [proc EXCEPT ![s].pc = pc]
Exit(s) == proc' = [proc EXCEPT ![s] = Down]

Launch(s) ==
    /\ proc[s].pc = "down"
    /\ Proceed(s, "check")
    /\ UNCHANGED <<created, plans, losses, stops>>

CheckSchema(s) ==
    /\ proc[s].pc = "check"
    /\ Proceed(s, IF created THEN "seed" ELSE "create")
    /\ UNCHANGED <<created, plans, losses, stops>>

CreateSchemaHangs(s) ==                                             \* mutant
    /\ proc[s].pc = "create"
    /\ ~created
    /\ \A u \in Services : proc[u].pc # "made"
    /\ Proceed(s, "made")
    /\ UNCHANGED <<created, plans, losses, stops>>

\* CREATE EXTENSION raises on a server without pgvector.
CreateSchema(s) ==
    /\ proc[s].pc = "create"
    /\ \A u \in Services : proc[u].pc # "made"
    /\ IF created \/ ~VectorAvailable THEN Exit(s) ELSE Proceed(s, "made")
    /\ UNCHANGED <<created, plans, losses, stops>>

CommitSchema(s) ==
    /\ proc[s].pc = "made"
    /\ created' = TRUE
    /\ Proceed(s, "seed")
    /\ UNCHANGED <<plans, losses, stops>>

MissingAll == Plans                                                 \* mutant
\* DEFAULT_PLANS without the names that are in the table.
MissingPlans == {p \in Plans : plans[p] = 0}

ReadPlans(s) ==
    /\ proc[s].pc = "seed"
    /\ proc' = [proc EXCEPT ![s].pc = "insert", ![s].missing = MissingPlans]
    /\ UNCHANGED <<created, plans, losses, stops>>

InsertPlansNoCommit(s) ==                                           \* mutant
    /\ proc[s].pc = "insert"
    /\ proc' = [proc EXCEPT ![s].pc = "pool", ![s].missing = {}]
    /\ UNCHANGED <<created, plans, losses, stops>>

\* The INSERTs and their COMMIT; no constraint makes a name unique.
InsertPlans(s) ==
    /\ proc[s].pc = "insert"
    /\ plans' = [p \in Plans |->
                    IF p \in proc[s].missing THEN plans[p] + 1 ELSE plans[p]]
    /\ proc' = [proc EXCEPT ![s].pc = "pool", ![s].missing = {}]
    /\ UNCHANGED <<created, losses, stops>>

\* asyncpg.create_pool; an address it cannot parse is not tried again.
OpenPool(s) ==
    /\ proc[s].pc = "pool"
    /\ IF DsnAccepted THEN Proceed(s, "up") ELSE Exit(s)
    /\ UNCHANGED <<created, plans, losses, stops>>

\* A refused connection: the next attempt, or ConnectionError.
RetryPool(s) ==
    \/ /\ proc[s].attempt < retries
       /\ proc' = [proc EXCEPT ![s].attempt = @ + 1]
    \/ /\ proc[s].attempt = retries
       /\ Exit(s)

PoolRefused(s) ==
    /\ proc[s].pc = "pool"
    /\ losses < MaxLosses
    /\ losses' = losses + 1
    /\ RetryPool(s)
    /\ UNCHANGED <<created, plans, stops>>

\* A lost connection: the transaction rolls back and the process exits.
FailStart(s) ==
    /\ proc[s].pc \in {"check", "create", "made", "seed", "insert"}
    /\ losses < MaxLosses
    /\ losses' = losses + 1
    /\ Exit(s)
    /\ UNCHANGED <<created, plans, stops>>

\* A running service ends: its process dies, and is started again, or an
\* operator stops it (close_raw_pool, then the end of the process).
Stop(s) ==
    /\ proc[s].pc = "up"
    /\ stops < MaxStops
    /\ stops' = stops + 1
    /\ Exit(s) \/ Proceed(s, "stopped")
    /\ UNCHANGED <<created, plans, losses>>

\* The operator starts it, or never does.
StartAgain(s) ==
    /\ proc[s].pc = "stopped"
    /\ Proceed(s, "down")
    /\ UNCHANGED <<created, plans, losses, stops>>

-----------------------------------------------------------------------------
StartStep(s) ==
    \/ Launch(s)
    \/ CheckSchema(s)
    \/ CreateSchema(s)
    \/ CommitSchema(s)
    \/ ReadPlans(s)
    \/ InsertPlans(s)
    \/ OpenPool(s)

StartupNext ==
    \E s \in Services :
        \/ StartStep(s)
        \/ PoolRefused(s)
        \/ FailStart(s)
        \/ Stop(s)
        \/ StartAgain(s)

StartupSpec == StartupInit /\ [][StartupNext]_startupVars

\* Containers that were not stopped are restarted and PostgreSQL answers.
StartupFairSpec == StartupSpec /\ \A s \in Services : WF_startupVars(StartStep(s))

-----------------------------------------------------------------------------
(* Properties                                                              *)

StartupTypeOK ==
    /\ created \in BOOLEAN
    /\ plans \in [Plans -> Nat]
    /\ proc \in [Services -> ProcState]
    /\ losses \in 0..MaxLosses
    /\ stops \in 0..MaxStops

\* A service that is up finds the tables and every plan, whichever services
\* failed or were started with it.
PlansComplete ==
    \A s \in Services : proc[s].pc = "up" =>
        created /\ \A p \in Plans : plans[p] > 0

\* Services that start together read the table before any of them has
\* written: a plan is stored at most once for each of them, however often
\* they are restarted.
PlansBounded == \A p \in Plans : plans[p] <= Cardinality(Services)

\* A plan is stored once.
PlansSeededOnce == \A p \in Plans : plans[p] <= 1

Starting == {s \in Services : proc[s].pc \notin {"stopped", "down", "up"}}

\* Services that start one after the other, and again after any failure,
\* store it once.
SeededOnceIfSerial == [](Cardinality(Starting) <= 1) => []PlansSeededOnce

\* Given an address asyncpg accepts and a server with pgvector, services that
\* fail because another was faster are started again and come up.
ServicesStart ==
    DsnAccepted /\ VectorAvailable =>
        \A s \in Services : (proc[s].pc = "down") ~> (proc[s].pc = "up")
=============================================================================
