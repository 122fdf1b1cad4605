------------------------- MODULE ProvisioningProofs -------------------------
(***************************************************************************)
(* Proofs about how a service and a restaurant come to be.                 *)
(*                                                                         *)
(* Startup: type correctness, that a running service has its data, and how *)
(* often a plan can be stored.  Onboarding: type correctness, and that a   *)
(* committed tenant is complete.                                           *)
(***************************************************************************)
EXTENDS Startup, Onboarding, FiniteSetTheorems, TLAPS

-----------------------------------------------------------------------------
(* Startup                                                                 *)

\* Every variable stays within its type.
THEOREM StartupTypeCorrect == StartupSpec => []StartupTypeOK
<1>1. StartupInit => StartupTypeOK
  BY StartupAssumption
     DEF StartupInit, StartupTypeOK, Down, ProcState, ProcSteps
<1>2. StartupTypeOK /\ [StartupNext]_startupVars => StartupTypeOK'
  <2> SUFFICES ASSUME StartupTypeOK, [StartupNext]_startupVars PROVE StartupTypeOK'
    OBVIOUS
  <2> USE StartupAssumption
          DEF StartupTypeOK, ProcState, ProcSteps, Proceed, Exit, Down
  <2>1. CASE UNCHANGED startupVars
    BY <2>1 DEF startupVars
  <2>2. ASSUME NEW s \in Services, Launch(s) PROVE StartupTypeOK'
    BY <2>2 DEF Launch
  <2>3. ASSUME NEW s \in Services, CheckSchema(s) PROVE StartupTypeOK'
    BY <2>3 DEF CheckSchema
  <2>4. ASSUME NEW s \in Services, CreateSchema(s) PROVE StartupTypeOK'
    BY <2>4 DEF CreateSchema
  <2>5. ASSUME NEW s \in Services, CommitSchema(s) PROVE StartupTypeOK'
    BY <2>5 DEF CommitSchema
  <2>6. ASSUME NEW s \in Services, ReadPlans(s) PROVE StartupTypeOK'
    BY <2>6 DEF ReadPlans, MissingPlans
  <2>7. ASSUME NEW s \in Services, InsertPlans(s) PROVE StartupTypeOK'
    <3>1. plans' \in [Plans -> Nat]
      BY <2>7 DEF InsertPlans
    <3>2. proc' \in [Services -> ProcState]
      BY <2>7 DEF InsertPlans
    <3> QED
      BY <2>7, <3>1, <3>2 DEF InsertPlans
  <2>8. ASSUME NEW s \in Services, OpenPool(s) PROVE StartupTypeOK'
    BY <2>8 DEF OpenPool
  <2>9. ASSUME NEW s \in Services, PoolRefused(s) PROVE StartupTypeOK'
    BY <2>9 DEF PoolRefused, RetryPool
  <2>10. ASSUME NEW s \in Services, FailStart(s) PROVE StartupTypeOK'
    BY <2>10 DEF FailStart
  <2>11. ASSUME NEW s \in Services, Stop(s) PROVE StartupTypeOK'
    BY <2>11 DEF Stop
  <2>12. ASSUME NEW s \in Services, StartAgain(s) PROVE StartupTypeOK'
    BY <2>12 DEF StartAgain
  <2> QED
    BY <2>1, <2>2, <2>3, <2>4, <2>5, <2>6, <2>7, <2>8, <2>9, <2>10, <2>11, <2>12
       DEF StartupNext, StartStep
<1> QED
  BY <1>1, <1>2, PTL DEF StartupSpec

-----------------------------------------------------------------------------
(* A running service has its data.  The strengthening says what a process  *)
(* has already established where it stands: behind the first transaction   *)
(* the tables exist, and between its SELECT and its INSERTs a plan is      *)
(* stored or is on its list of missing ones.                               *)

HasTables(s) == proc[s].pc \in {"seed", "insert", "pool", "up"} => created
HasPlans(s) == proc[s].pc \in {"pool", "up"} => \A p \in Plans : plans[p] > 0
KnowsMissing(s) ==
    proc[s].pc = "insert" =>
        \A p \in Plans : plans[p] > 0 \/ p \in proc[s].missing

Prepared == \A s \in Services : HasTables(s) /\ HasPlans(s) /\ KnowsMissing(s)

\* No step of a service takes rows away, and "made" stays true.
LEMMA Monotone ==
    ASSUME StartupTypeOK, StartupNext
    PROVE  /\ created => created'
           /\ \A p \in Plans : plans'[p] >= plans[p]
<1> USE DEF StartupTypeOK
<1> PICK s \in Services : StartStep(s) \/ PoolRefused(s)
                              \/ FailStart(s) \/ Stop(s) \/ StartAgain(s)
  BY DEF StartupNext
<1>1. CASE CommitSchema(s)
  BY <1>1 DEF CommitSchema
<1>2. CASE InsertPlans(s)
  BY <1>2 DEF InsertPlans
<1>3. CASE UNCHANGED <<created, plans>>
  BY <1>3
<1> QED
  BY <1>1, <1>2, <1>3
     DEF StartStep, Launch, CheckSchema, CreateSchema, ReadPlans, OpenPool,
         PoolRefused, FailStart, Stop, StartAgain

\* A service that is up finds the tables and every plan.
THEOREM RunningServiceHasItsData == StartupSpec => []PlansComplete
<1>1. StartupInit => Prepared
  BY DEF StartupInit, Prepared, HasTables, HasPlans, KnowsMissing, Down
<1>2. StartupTypeOK /\ Prepared /\ [StartupNext]_startupVars => Prepared'
  <2> SUFFICES ASSUME StartupTypeOK, Prepared, [StartupNext]_startupVars PROVE Prepared'
    OBVIOUS
  <2>1. CASE UNCHANGED startupVars
    BY <2>1 DEF startupVars, Prepared, HasTables, HasPlans, KnowsMissing
  <2>2. CASE StartupNext
    <3>1. /\ created => created'
          /\ \A p \in Plans : plans'[p] >= plans[p] /\ plans[p] \in Nat /\ plans'[p] \in Nat
      <4>1. \A p \in Plans : plans'[p] \in Nat
        BY <2>2
           DEF StartupTypeOK, StartupNext, StartStep, Launch, CheckSchema,
               CreateSchema, CommitSchema, ReadPlans, InsertPlans, OpenPool,
               PoolRefused, FailStart, Stop, StartAgain
      <4> QED
        BY <2>2, <4>1, Monotone DEF StartupTypeOK
    <3> SUFFICES ASSUME NEW u \in Services
                 PROVE  (HasTables(u) /\ HasPlans(u) /\ KnowsMissing(u))'
      BY DEF Prepared
    <3>2. PICK s \in Services : StartStep(s) \/ PoolRefused(s)
                                    \/ FailStart(s) \/ Stop(s) \/ StartAgain(s)
      BY <2>2 DEF StartupNext
    <3>3. HasTables(u) /\ HasPlans(u) /\ KnowsMissing(u)
      BY DEF Prepared
    <3>4. CASE proc'[u] = proc[u]
      BY <3>1, <3>3, <3>4 DEF HasTables, HasPlans, KnowsMissing
    <3>5. CASE proc'[u] # proc[u]
      <4>1. u = s
        BY <3>2, <3>5
           DEF StartupTypeOK, StartStep, Launch, CheckSchema, CreateSchema,
               CommitSchema, ReadPlans, InsertPlans, OpenPool, PoolRefused,
               RetryPool, FailStart, Stop, StartAgain, Proceed, Exit
      <4> USE <4>1, <3>3
              DEF StartupTypeOK, HasTables, HasPlans, KnowsMissing, Proceed,
              Exit, Down
      <4>2. CASE Launch(s)
        BY <4>2 DEF Launch
      <4>3. CASE CheckSchema(s)
        BY <4>3 DEF CheckSchema
      <4>4. CASE CreateSchema(s)
        <5>1. CASE created \/ ~VectorAvailable
          BY <4>4, <5>1 DEF CreateSchema
        <5>2. CASE ~created /\ VectorAvailable
          <6>1. proc' = [proc EXCEPT ![s].pc = "made"]
            BY <4>4, <5>2, Zenon DEF CreateSchema
          <6>2. proc'[s].pc = "made"
            BY <6>1 DEF ProcState
          <6> QED
            BY <6>2
        <5> QED
          BY <5>1, <5>2
      <4>5. CASE CommitSchema(s)
        BY <4>5 DEF CommitSchema
      <4>6. CASE ReadPlans(s)
        BY <4>6 DEF ReadPlans, MissingPlans
      <4>7. CASE InsertPlans(s)
        BY <4>7 DEF InsertPlans
      <4>8. CASE OpenPool(s)
        BY <4>8 DEF OpenPool
      <4>9. CASE PoolRefused(s)
        BY <4>9 DEF PoolRefused, RetryPool
      <4>10. CASE FailStart(s)
        BY <4>10 DEF FailStart
      <4>11. CASE Stop(s)
        BY <4>11 DEF Stop
      <4>12. CASE StartAgain(s)
        BY <4>12 DEF StartAgain
      <4> QED
        BY <3>2, <4>2, <4>3, <4>4, <4>5, <4>6, <4>7, <4>8, <4>9, <4>10, <4>11, <4>12
           DEF StartStep
    <3> QED
      BY <3>4, <3>5
  <2> QED
    BY <2>1, <2>2
<1>3. Prepared => PlansComplete
  BY DEF Prepared, PlansComplete, HasTables, HasPlans
<1> QED
  BY <1>1, <1>2, <1>3, StartupTypeCorrect, PTL DEF StartupSpec

-----------------------------------------------------------------------------
(* How often a plan is stored.  A process between its SELECT and its       *)
(* INSERTs may still add a row: the rows there are and the rows on their   *)
(* way together never exceed the number of services.                       *)

Adding(p) == {s \in Services : proc[s].pc = "insert" /\ p \in proc[s].missing}

Bounded(p) == plans[p] + Cardinality(Adding(p)) <= Cardinality(Services)

Finite(p) ==
    /\ IsFiniteSet(Adding(p))
    /\ Cardinality(Adding(p)) \in Nat
    /\ Cardinality(Adding(p)) <= Cardinality(Services)

LEMMA ServicesFinite == Cardinality(Services) \in Nat
  BY StartupAssumption, FS_CardinalityType

LEMMA AddingFinite == ASSUME NEW p PROVE Finite(p)
<1>1. Adding(p) \subseteq Services
  BY DEF Adding
<1> QED
  BY <1>1, StartupAssumption, FS_Subset, FS_CardinalityType DEF Finite

LEMMA AddingFinitePrime == ASSUME NEW p PROVE Finite(p)'
<1>1. Adding(p)' \subseteq Services
  BY DEF Adding
<1> QED
  BY <1>1, StartupAssumption, FS_Subset, FS_CardinalityType DEF Finite

\* A step that writes no plan and puts nobody behind the SELECT.
LEMMA QuietStep ==
  ASSUME StartupTypeOK, NEW p \in Plans, Bounded(p), plans' = plans,
         Adding(p)' \subseteq Adding(p)
  PROVE  Bounded(p)'
<1>1. Cardinality(Adding(p)') <= Cardinality(Adding(p))
  BY AddingFinite, FS_Subset DEF Finite
<1>2. plans[p] \in Nat
  BY DEF StartupTypeOK
<1> QED
  BY <1>1, <1>2, AddingFinite, AddingFinitePrime, ServicesFinite
     DEF Bounded, Finite

\* A SELECT puts a plan on the list only while it has no row.
LEMMA ReadStep ==
  ASSUME StartupTypeOK, NEW s \in Services, ReadPlans(s), NEW p \in Plans, Bounded(p)
  PROVE  Bounded(p)'
<1>1. plans' = plans /\ plans[p] \in Nat
  BY DEF ReadPlans, StartupTypeOK
<1>2. CASE plans[p] = 0
  BY <1>1, <1>2, AddingFinitePrime, ServicesFinite DEF Bounded, Finite
<1>3. CASE plans[p] # 0
  <2>1. Adding(p)' \subseteq Adding(p)
    BY <1>3 DEF ReadPlans, MissingPlans, Adding, StartupTypeOK, ProcState
  <2> QED
    BY <1>1, <2>1, QuietStep
<1> QED
  BY <1>2, <1>3

\* A process that commits turns from one that may add a row into a row.
LEMMA InsertStep ==
  ASSUME StartupTypeOK, NEW s \in Services, InsertPlans(s), NEW p \in Plans, Bounded(p)
  PROVE  Bounded(p)'
<1> DEFINE A == Adding(p)
<1>1. plans[p] \in Nat
  BY DEF StartupTypeOK
<1>2. CASE p \in proc[s].missing
  <2>1. plans'[p] = plans[p] + 1
    BY <1>2 DEF InsertPlans
  <2>2. Adding(p)' = A \ {s} /\ s \in A
    BY <1>2 DEF InsertPlans, Adding, StartupTypeOK, ProcState
  <2>3. Cardinality(A \ {s}) = Cardinality(A) - 1
    BY <2>2, AddingFinite, FS_RemoveElement DEF Finite
  <2> QED
    BY <1>1, <2>1, <2>2, <2>3, AddingFinite, ServicesFinite DEF Bounded, Finite
<1>3. CASE p \notin proc[s].missing
  <2>1. plans'[p] = plans[p]
    BY <1>3 DEF InsertPlans
  <2>2. Adding(p)' = A
    BY <1>3 DEF InsertPlans, Adding, StartupTypeOK, ProcState
  <2> QED
    BY <2>1, <2>2 DEF Bounded
<1> QED
  BY <1>2, <1>3

\* A plan is stored at most once for each service, whatever restarts.
THEOREM SeedingBounded == StartupSpec => []PlansBounded
<1> DEFINE IInv == \A p \in Plans : Bounded(p)
<1>1. StartupInit => IInv
  <2> SUFFICES ASSUME StartupInit, NEW p \in Plans PROVE Bounded(p)
    OBVIOUS
  <2>1. Adding(p) = {} /\ plans[p] = 0
    BY DEF StartupInit, Adding, Down
  <2> QED
    BY <2>1, FS_EmptySet, ServicesFinite DEF Bounded
<1>2. StartupTypeOK /\ IInv /\ [StartupNext]_startupVars => IInv'
  <2> SUFFICES ASSUME StartupTypeOK, IInv, [StartupNext]_startupVars, NEW p \in Plans PROVE Bounded(p)'
    OBVIOUS
  <2>1. CASE UNCHANGED startupVars
    BY <2>1 DEF startupVars, Bounded, Adding
  <2>2. ASSUME NEW s \in Services, ReadPlans(s) PROVE Bounded(p)'
    BY <2>2, ReadStep
  <2>3. ASSUME NEW s \in Services, InsertPlans(s) PROVE Bounded(p)'
    BY <2>3, InsertStep
  <2>4. ASSUME NEW s \in Services,
               \/ Launch(s) \/ CheckSchema(s) \/ CreateSchema(s) \/ CommitSchema(s)
               \/ OpenPool(s) \/ PoolRefused(s) \/ FailStart(s) \/ Stop(s) \/ StartAgain(s)
        PROVE  Bounded(p)'
    <3>1. plans' = plans
      BY <2>4 DEF Launch, CheckSchema, CreateSchema, CommitSchema, OpenPool,
         PoolRefused, FailStart, Stop, StartAgain
    <3>2. /\ \A u \in Services \ {s} : proc'[u] = proc[u]
          /\ proc'[s].pc # "insert"
      BY <2>4
         DEF StartupTypeOK, ProcState, Launch, CheckSchema, CreateSchema,
             CommitSchema, OpenPool, PoolRefused, RetryPool, FailStart, Stop,
             StartAgain, Proceed, Exit, Down
    <3>3. Adding(p)' \subseteq Adding(p)
      BY <3>2 DEF Adding
    <3> QED
      BY <3>1, <3>3, QuietStep
  <2> QED
    BY <2>1, <2>2, <2>3, <2>4 DEF StartupNext, StartStep
<1>3. StartupTypeOK /\ IInv => PlansBounded
  <2> SUFFICES ASSUME StartupTypeOK, IInv, NEW p \in Plans
               PROVE  plans[p] <= Cardinality(Services)
    BY DEF PlansBounded
  <2> QED
    BY AddingFinite, ServicesFinite DEF Bounded, Finite, StartupTypeOK
<1> QED
  BY <1>1, <1>2, <1>3, StartupTypeCorrect, PTL DEF StartupSpec

-----------------------------------------------------------------------------
(* One service at a time.                                                  *)

\* What the SELECT did not find is still missing when the INSERTs come.
StillMissing ==
    \A s \in Services : proc[s].pc = "insert" =>
        \A p \in proc[s].missing : plans[p] = 0

\* In a set of one element at most, any two are the same.
LEMMA OnlyOne ==
  ASSUME NEW S, IsFiniteSet(S), Cardinality(S) <= 1, NEW t \in S, NEW u \in S
  PROVE  t = u
<1>1. /\ IsFiniteSet(S \ {t}) /\ Cardinality(S \ {t}) \in Nat /\ Cardinality(S) \in Nat
      /\ Cardinality(S \ {t}) = Cardinality(S) - 1
  BY FS_RemoveElement, FS_CardinalityType
<1>2. Cardinality(S \ {t}) = 0
  BY <1>1
<1>3. S \ {t} = {}
  BY <1>1, <1>2, FS_EmptySet
<1> QED
  BY <1>3

LEMMA SerialStep ==
  ASSUME StartupTypeOK, PlansSeededOnce, StillMissing, Cardinality(Starting) <= 1, [StartupNext]_startupVars
  PROVE  PlansSeededOnce' /\ StillMissing'
<1> USE DEF PlansSeededOnce, StillMissing
<1>1. ASSUME NEW s \in Services,
             \/ Launch(s) \/ CheckSchema(s) \/ CreateSchema(s) \/ CommitSchema(s)
             \/ OpenPool(s) \/ PoolRefused(s) \/ FailStart(s) \/ Stop(s) \/ StartAgain(s)
      PROVE  PlansSeededOnce' /\ StillMissing'
  <2>1. plans' = plans
    BY <1>1 DEF Launch, CheckSchema, CreateSchema, CommitSchema, OpenPool,
       PoolRefused, FailStart, Stop, StartAgain
  <2>2. /\ \A u \in Services \ {s} : proc'[u] = proc[u]
        /\ proc'[s].pc # "insert"
    BY <1>1
       DEF StartupTypeOK, ProcState, Launch, CheckSchema, CreateSchema,
           CommitSchema, OpenPool, PoolRefused, RetryPool, FailStart, Stop,
           StartAgain, Proceed, Exit, Down
  <2> QED
    BY <2>1, <2>2
<1>2. ASSUME NEW s \in Services, ReadPlans(s)
      PROVE  PlansSeededOnce' /\ StillMissing'
  <2>1. /\ plans' = plans
        /\ \A u \in Services \ {s} : proc'[u] = proc[u]
        /\ proc'[s].missing = MissingPlans
    BY <1>2 DEF StartupTypeOK, ProcState, ReadPlans
  <2> QED
    BY <2>1 DEF MissingPlans
<1>3. ASSUME NEW s \in Services, InsertPlans(s)
      PROVE  PlansSeededOnce' /\ StillMissing'
  <2>1. /\ plans' = [p \in Plans |->
                       IF p \in proc[s].missing THEN plans[p] + 1 ELSE plans[p]]
        /\ \A p \in proc[s].missing : plans[p] = 0
        /\ proc' = [proc EXCEPT ![s].pc = "pool", ![s].missing = {}]
        /\ proc[s].pc = "insert"
    BY <1>3 DEF InsertPlans
  <2>2. PlansSeededOnce'
    BY <2>1 DEF StartupTypeOK
  <2>3. \A u \in Services : proc[u].pc = "insert" => u = s
    <3>1. IsFiniteSet(Starting) /\ s \in Starting
      BY <2>1, StartupAssumption, FS_Subset DEF Starting
    <3> QED
      BY <3>1, OnlyOne DEF Starting
  <2>4. \A u \in Services : proc'[u].pc # "insert"
    BY <2>1, <2>3 DEF StartupTypeOK, ProcState
  <2> QED
    BY <2>2, <2>4
<1>4. CASE UNCHANGED startupVars
  BY <1>4 DEF startupVars
<1> QED
  BY <1>1, <1>2, <1>3, <1>4 DEF StartupNext, StartStep

\* Services that are started one after the other, and again after every
\* failure, store each plan once: the table has no unique constraint, yet
\* the SELECT before the INSERTs is enough then.
THEOREM SerialSeeding == StartupSpec => SeededOnceIfSerial
<1> DEFINE Serial == Cardinality(Starting) <= 1
           SInv == PlansSeededOnce /\ StillMissing
<1>1. StartupInit => SInv
  BY DEF StartupInit, PlansSeededOnce, StillMissing, Down
<1>2. StartupTypeOK /\ SInv /\ Serial /\ [StartupNext]_startupVars => SInv'
  BY SerialStep
<1>3. SInv => PlansSeededOnce
  OBVIOUS
<1> HIDE DEF Serial, SInv
<1>4. StartupSpec /\ []Serial => []PlansSeededOnce
  BY <1>1, <1>2, <1>3, StartupTypeCorrect, PTL DEF StartupSpec
<1> QED
  BY <1>4, PTL DEF SeededOnceIfSerial, Serial
-----------------------------------------------------------------------------
(* Onboarding                                                              *)

\* What a handler has made sure of: behind create_all there are tables it can
\* see, and behind ensure_role_catalog the catalog and its own rows together
\* are complete.
Known(me) ==
    /\ me.pc # "idle" => me.rest \in Restaurants
    /\ me.pc = "seed" => {me.rest, Shared} \cap tables # {}
    /\ me.pc \in {"flush", "commit"} =>
          /\ me.place \in tables
          /\ me.rest \in me.new.owners \cap me.new.settings
          /\ RoleNames \subseteq content[me.place].roles \cup me.new.roles
          /\ \A p \in Pairs :
                \E q \in content[me.place].permissions \cup me.new.permissions : q[2] = p[2]

IInv == TypeOK /\ TenantIsComplete /\ \A t \in Tasks : Known(task[t])

Local == [pc: Steps, rest: Restaurants \cup {NoRestaurant}, place: Places, new: Rows]

LEMMA IdleLocal == Idle \in Local /\ Idle.pc = "idle"
BY DEF Idle, Local, Steps, Places, Rows, Empty

\* Tables are made and rows are added; neither is ever taken away.
Grows ==
    /\ tables \subseteq tables'
    /\ \A p \in Places : /\ content[p].roles \subseteq content'[p].roles
                         /\ content[p].permissions \subseteq content'[p].permissions
                         /\ content[p].owners \subseteq content'[p].owners
                         /\ content[p].settings \subseteq content'[p].settings

\* A handler whose own state does not change loses nothing by it.
LEMMA GrowsKnown ==
  ASSUME IInv, Grows, NEW t \in Tasks, task'[t] = task[t]
  PROVE  Known(task[t])'
<1>1. Known(task[t]) /\ tables \subseteq Places
  BY DEF IInv, TypeOK
<1>2. ASSUME task[t].pc \in {"flush", "commit"}
      PROVE  /\ task[t].place \in tables'
             /\ RoleNames \subseteq content'[task[t].place].roles \cup task[t].new.roles
             /\ \A p \in Pairs :
                   \E q \in content'[task[t].place].permissions \cup task[t].new.permissions :
                      q[2] = p[2]
  <2>1. task[t].place \in Places
    BY <1>1, <1>2 DEF Known
  <2> QED
    BY <1>1, <1>2, <2>1 DEF Known, Grows
<1>3. task[t].pc = "seed" => {task[t].rest, Shared} \cap tables' # {}
  BY <1>1 DEF Known, Grows
<1> QED
  BY <1>1, <1>2, <1>3 DEF Known

\* A step of one handler that answers or goes on.
LEMMA MoveKeeps ==
  ASSUME IInv, NEW t \in Tasks, NEW me \in Local, task' = [task EXCEPT ![t] = me],
         UNCHANGED <<tenants, schemas, content, home>>,
         tables \subseteq tables', tables' \subseteq Places,
         replies' \in [Restaurants -> SUBSET {"201", "409", "500"}],
         failures' \in 0..MaxFailures,
         Known(task[t])'
  PROVE  IInv'
<1>1. TypeOK'
  BY DEF IInv, TypeOK, Local
<1>2. TenantIsComplete'
  BY DEF IInv, TenantIsComplete
<1>3. Grows
  BY DEF Grows
<1>4. ASSUME NEW u \in Tasks PROVE Known(task[u])'
  <2>1. CASE u = t
    BY <2>1
  <2>2. CASE u # t
    BY <1>3, <2>2, GrowsKnown DEF IInv, TypeOK
  <2> QED
    BY <2>1, <2>2
<1> QED
  BY <1>1, <1>2, <1>4 DEF IInv

\* A handler that goes on without having learnt anything.
LEMMA GoKeeps ==
  ASSUME IInv, NEW t \in Tasks, NEW pc \in Steps, Go(t, pc), task[t].pc # "idle",
         \/ pc \in {"tenant", "tables"}
         \/ pc = "commit" /\ task[t].pc = "flush",
         UNCHANGED <<tenants, tables, schemas, content, home, replies, failures>>
  PROVE  IInv'
<1> DEFINE me == [task[t] EXCEPT !.pc = pc]
<1>1. task[t] \in Local /\ Known(task[t])
  BY DEF IInv, TypeOK, Local
<1>2. /\ me \in Local /\ me.pc = pc /\ me.rest = task[t].rest
      /\ me.place = task[t].place /\ me.new = task[t].new
  BY <1>1 DEF Local
<1>3. task' = [task EXCEPT ![t] = me] /\ task'[t] = me
  BY DEF Go, IInv, TypeOK
<1> HIDE DEF me
<1>4. Known(task[t])'
  BY <1>1, <1>2, <1>3 DEF Known
<1> QED
  BY <1>2, <1>3, <1>4, MoveKeeps DEF IInv, TypeOK

LEMMA AnswerKeeps ==
  ASSUME IInv, NEW t \in Tasks, NEW code \in {"409", "500"}, Answer(t, code),
         UNCHANGED <<tenants, tables, schemas, content, home, failures>>
  PROVE  IInv'
<1>1. task' = [task EXCEPT ![t] = Idle] /\ task'[t] = Idle
  BY DEF Answer, IInv, TypeOK
<1>2. Known(task[t])'
  BY <1>1, IdleLocal DEF Known
<1>3. replies' \in [Restaurants -> SUBSET {"201", "409", "500"}]
  BY DEF Answer, IInv, TypeOK
<1> QED
  BY <1>1, <1>2, <1>3, IdleLocal, MoveKeeps DEF IInv, TypeOK

LEMMA StartKeeps ==
  ASSUME IInv, NEW t \in Tasks, NEW r \in Restaurants, Start(t, r)
  PROVE  IInv'
<1> DEFINE me == [Idle EXCEPT !.pc = "check", !.rest = r]
<1>1. me \in Local /\ me.pc = "check" /\ me.rest = r
  BY IdleLocal DEF Local, Steps
<1>2. task' = [task EXCEPT ![t] = me] /\ task'[t] = me
  BY DEF Start, IInv, TypeOK
<1> HIDE DEF me
<1>3. Known(task[t])'
  BY <1>1, <1>2 DEF Known
<1> QED
  BY <1>1, <1>2, <1>3, MoveKeeps DEF Start, IInv, TypeOK

\* create_all leaves the handler with tables on its path.
LEMMA CreateTablesKeeps ==
  ASSUME IInv, NEW t \in Tasks, CreateTables(t)
  PROVE  IInv'
<1> DEFINE me == [task[t] EXCEPT !.pc = "seed"]
<1>1. task[t] \in Local /\ task[t].rest \in Restaurants
  BY DEF IInv, TypeOK, Local, CreateTables, Known
<1>2. me \in Local /\ me.pc = "seed" /\ me.rest = task[t].rest
  BY <1>1 DEF Local, Steps
<1>3. task' = [task EXCEPT ![t] = me] /\ task'[t] = me
  BY DEF CreateTables, Go, IInv, TypeOK
<1> HIDE DEF me
<1>4. /\ tables \subseteq tables' /\ tables' \subseteq Places
      /\ {task[t].rest, Shared} \cap tables' # {}
  BY <1>1 DEF CreateTables, Target, Places, IInv, TypeOK
<1>5. Known(task[t])'
  BY <1>1, <1>2, <1>3, <1>4 DEF Known
<1> QED
  BY <1>2, <1>3, <1>4, <1>5, MoveKeeps DEF CreateTables, IInv, TypeOK

\* What ensure_role_catalog adds makes the catalog it has read complete.
LEMMA SeedKeeps ==
  ASSUME IInv, NEW t \in Tasks, Seed(t)
  PROVE  IInv'
<1> DEFINE place == Resolved(t)
           add == Missing(content[place])
           new == [roles |-> add.roles, permissions |-> add.permissions,
                   owners |-> {task[t].rest}, settings |-> {task[t].rest}]
           me == [task[t] EXCEPT !.pc = "flush", !.place = place, !.new = new]
<1>1. /\ task[t] \in Local /\ task[t].rest \in Restaurants
      /\ {task[t].rest, Shared} \cap tables # {}
  BY DEF IInv, TypeOK, Local, Seed, Known
<1>2. place \in tables /\ place \in Places /\ content[place] \in Rows
  BY <1>1 DEF Resolved, IInv, TypeOK
<1>3. /\ new \in Rows /\ new.owners = {task[t].rest} /\ new.settings = {task[t].rest}
      /\ new.roles = RoleNames \ content[place].roles
      /\ new.permissions = {p \in Pairs : \A q \in content[place].permissions : q[2] # p[2]}
  BY <1>1 DEF Missing, Rows
<1> HIDE DEF place, new
<1>4. /\ me \in Local /\ me.pc = "flush" /\ me.rest = task[t].rest
      /\ me.place = place /\ me.new = new
  BY <1>1, <1>2, <1>3 DEF Local, Steps
<1>5. task' = [task EXCEPT ![t] = me] /\ task'[t] = me
  BY DEF Seed, IInv, TypeOK, place, new
<1> HIDE DEF me
<1>6. Known(task[t])'
  <2>1. RoleNames \subseteq content[place].roles \cup new.roles
    BY <1>3
  <2>2. \A p \in Pairs : \E q \in content[place].permissions \cup new.permissions : q[2] = p[2]
    BY <1>3
  <2>3. content' = content /\ tables' = tables
    BY DEF Seed
  <2> QED
    BY <1>1, <1>2, <1>3, <1>4, <1>5, <2>1, <2>2, <2>3 DEF Known
<1> QED
  BY <1>4, <1>5, <1>6, MoveKeeps DEF Seed, IInv, TypeOK

\* COMMIT: the tenant and all it needs become visible at once.
LEMMA CommitKeeps ==
  ASSUME IInv, NEW t \in Tasks, Commit(t)
  PROVE  IInv'
<1> DEFINE place == task[t].place
           new == task[t].new
           r == task[t].rest
           sum == [f \in DOMAIN content[place] |-> content[place][f] \cup new[f]]
<1>1. /\ task[t] \in Local /\ r \in Restaurants /\ place \in tables /\ place \in Places
      /\ new \in Rows /\ content[place] \in Rows /\ r \in new.owners \cap new.settings
      /\ RoleNames \subseteq content[place].roles \cup new.roles
      /\ \A p \in Pairs : \E q \in content[place].permissions \cup new.permissions : q[2] = p[2]
  BY DEF IInv, TypeOK, Local, Commit, Known
<1>2. /\ sum \in Rows
      /\ sum.roles = content[place].roles \cup new.roles
      /\ sum.permissions = content[place].permissions \cup new.permissions
      /\ sum.owners = content[place].owners \cup new.owners
      /\ sum.settings = content[place].settings \cup new.settings
  BY <1>1 DEF Rows
<1>3. /\ content' = [content EXCEPT ![place] = sum]
      /\ home' = [home EXCEPT ![r] = place]
      /\ tenants' = tenants \cup {r} /\ schemas' = schemas \cup {r}
      /\ tables' = tables /\ failures' = failures
      /\ task' = [task EXCEPT ![t] = Idle]
      /\ replies' = [replies EXCEPT ![r] = @ \cup {"201"}]
  BY DEF Commit, Stored, Answer
<1> HIDE DEF place, new, r, sum
<1>4. \A p \in Places : content'[p] = IF p = place THEN sum ELSE content[p]
  BY <1>3 DEF IInv, TypeOK
<1>5. Grows
  BY <1>2, <1>3, <1>4 DEF Grows
<1>6. TypeOK'
  <2>1. content' \in [Places -> Rows] /\ home' \in [Restaurants -> Places \cup {NoRestaurant}]
    BY <1>1, <1>2, <1>3 DEF IInv, TypeOK
  <2>2. \A p \in Places \ tables' : content'[p] = Empty
    BY <1>1, <1>3, <1>4 DEF IInv, TypeOK
  <2>3. task' \in [Tasks -> Local]
    BY <1>3, IdleLocal DEF IInv, TypeOK, Local
  <2>4. replies' \in [Restaurants -> SUBSET {"201", "409", "500"}]
    BY <1>1, <1>3 DEF IInv, TypeOK
  <2> QED
    BY <1>1, <1>3, <2>1, <2>2, <2>3, <2>4 DEF IInv, TypeOK, Local
<1>7. TenantIsComplete'
  <2> SUFFICES ASSUME NEW s \in tenants'
               PROVE  /\ s \in schemas'
                      /\ home'[s] \in tables'
                      /\ s \in content'[home'[s]].owners \cap content'[home'[s]].settings
                      /\ content'[home'[s]].roles = RoleNames
                      /\ {p[2] : p \in content'[home'[s]].permissions} = {p[2] : p \in Pairs}
    BY DEF TenantIsComplete
  <2>1. CASE s = r
    <3>1. home'[s] = place /\ content'[place] = sum
      BY <1>1, <1>3, <1>4, <2>1 DEF IInv, TypeOK
    <3>2. sum.roles = RoleNames
      BY <1>1, <1>2 DEF Rows
    <3>3. {p[2] : p \in sum.permissions} = {p[2] : p \in Pairs}
      <4>1. sum.permissions \subseteq Pairs
        BY <1>2 DEF Rows
      <4>2. \A p \in Pairs : \E q \in sum.permissions : q[2] = p[2]
        BY <1>1, <1>2
      <4> QED
        BY <4>1, <4>2
    <3>4. content'[home'[s]] = sum /\ home'[s] \in tables' /\ s \in schemas'
      BY <1>1, <1>3, <2>1, <3>1
    <3>5. s \in sum.owners \cap sum.settings
      BY <1>1, <1>2, <2>1
    <3> QED
      BY <3>2, <3>3, <3>4, <3>5
  <2>2. CASE s # r
    <3>1. /\ s \in tenants /\ s \in Restaurants /\ home'[s] = home[s]
          /\ s \in schemas /\ home[s] \in tables /\ home[s] \in Places
          /\ s \in content[home[s]].owners \cap content[home[s]].settings
          /\ content[home[s]].roles = RoleNames
          /\ {p[2] : p \in content[home[s]].permissions} = {p[2] : p \in Pairs}
      BY <1>3, <2>2 DEF IInv, TypeOK, TenantIsComplete
    <3>2. content'[home[s]].roles = RoleNames
      <4>1. content'[home[s]] \in Rows
        BY <1>6, <3>1 DEF TypeOK
      <4>2. RoleNames \subseteq content'[home[s]].roles
        BY <1>5, <3>1 DEF Grows
      <4>3. content'[home[s]].roles \subseteq RoleNames
        BY <4>1 DEF Rows
      <4> QED
        BY <4>2, <4>3
    <3>3. /\ content[home[s]].permissions \subseteq content'[home[s]].permissions
          /\ content'[home[s]].permissions \subseteq Pairs
      BY <1>5, <1>6, <3>1 DEF Grows, TypeOK, Rows
    <3>4. {p[2] : p \in content'[home[s]].permissions} = {p[2] : p \in Pairs}
      BY <3>1, <3>3
    <3> QED
      BY <1>3, <1>5, <3>1, <3>2, <3>4 DEF Grows
  <2> QED
    BY <2>1, <2>2
<1>8. ASSUME NEW u \in Tasks PROVE Known(task[u])'
  <2>1. CASE u = t
    <3>1. task'[u] = Idle
      BY <1>3, <2>1 DEF IInv, TypeOK
    <3> QED
      BY <3>1, IdleLocal DEF Known
  <2>2. CASE u # t
    BY <1>3, <1>5, <2>2, GrowsKnown DEF IInv, TypeOK
  <2> QED
    BY <2>1, <2>2
<1> QED
  BY <1>6, <1>7, <1>8 DEF IInv

LEMMA NextIInv == IInv /\ [Next]_vars => IInv'
<1> SUFFICES ASSUME IInv, [Next]_vars PROVE IInv'
  OBVIOUS
<1>1. ASSUME NEW t \in Tasks, CheckSlug(t) PROVE IInv'
  <2>1. CASE SlugTaken(t)
    BY <1>1, <2>1, AnswerKeeps DEF CheckSlug
  <2>2. CASE ~SlugTaken(t)
    BY <1>1, <2>2, GoKeeps DEF CheckSlug, Steps
  <2> QED
    BY <2>1, <2>2
<1>2. ASSUME NEW t \in Tasks, InsertTenant(t) PROVE IInv'
  <2>1. CASE SlugTaken(t)
    BY <1>2, <2>1, AnswerKeeps DEF InsertTenant
  <2>2. CASE ~SlugTaken(t)
    BY <1>2, <2>2, GoKeeps DEF InsertTenant, Steps
  <2> QED
    BY <2>1, <2>2
<1>3. ASSUME NEW t \in Tasks, FlushRows(t) PROVE IInv'
  <2> DEFINE fails == SelfCollide(task[t].new) \/ Collide(task[t].new, content[task[t].place])
  <2>1. CASE fails
    BY <1>3, <2>1, AnswerKeeps DEF FlushRows
  <2>2. CASE ~fails
    BY <1>3, <2>2, GoKeeps DEF FlushRows, Steps
  <2> QED
    BY <2>1, <2>2
<1>4. ASSUME NEW t \in Tasks, Fail(t) PROVE IInv'
  <2>1. task' = [task EXCEPT ![t] = Idle] /\ task'[t] = Idle
    BY <1>4 DEF Fail, IInv, TypeOK
  <2>2. Known(task[t])'
    BY <2>1, IdleLocal DEF Known
  <2>3. failures' \in 0..MaxFailures
    BY <1>4, OnboardingAssumption DEF Fail, IInv, TypeOK
  <2> QED
    BY <1>4, <2>1, <2>2, <2>3, IdleLocal, MoveKeeps DEF Fail, IInv, TypeOK
<1>5. CASE UNCHANGED vars
  BY <1>5 DEF vars, IInv, TypeOK, TenantIsComplete, Known
<1> QED
  BY <1>1, <1>2, <1>3, <1>4, <1>5, StartKeeps, CreateTablesKeeps, SeedKeeps,
     CommitKeeps
     DEF Next, HandlerStep

LEMMA InitIInv == Init => IInv
<1> SUFFICES ASSUME Init PROVE IInv
  OBVIOUS
<1>1. Empty \in Rows /\ Migrated \in Rows
  BY DEF Empty, Migrated, Rows
<1>2. content \in [Places -> Rows]
  BY <1>1 DEF Init
<1>3. tables \subseteq Places /\ \A p \in Places \ tables : content[p] = Empty
  BY DEF Init, Places
<1>4. TypeOK
  BY <1>2, <1>3, IdleLocal, OnboardingAssumption DEF Init, TypeOK, Local
<1>5. \A t \in Tasks : Known(task[t])
  BY IdleLocal DEF Init, Known
<1>6. TenantIsComplete
  BY DEF Init, TenantIsComplete
<1> QED
  BY <1>4, <1>5, <1>6 DEF IInv

\* Every variable keeps its type, and a place without tables holds no rows.
THEOREM TypeCorrect == Spec => []TypeOK
<1>1. IInv => TypeOK
  BY DEF IInv
<1> QED
  BY InitIInv, NextIInv, <1>1, PTL DEF Spec

\* However registrations interleave, collide in the unique indexes or lose
\* their connection, a committed tenant has its schema, its owner, every role
\* and every permission code, in tables that exist.
THEOREM TenantsComplete == Spec => []TenantIsComplete
<1>1. IInv => TenantIsComplete
  BY DEF IInv
<1> QED
  BY InitIInv, NextIInv, <1>1, PTL DEF Spec
=============================================================================
