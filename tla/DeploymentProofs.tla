-------------------------- MODULE DeploymentProofs --------------------------
(***************************************************************************)
(* Theorems of Deployment, for every MaxPolls: the schema is there before  *)
(* anything queries it, and the types, with the bounds of their counters.  *)
(*                                                                         *)
(* TablesBeforeQueries is not inductive alone: the API and the worker wait *)
(* for migrate, so the invariant must say what its completion means; and   *)
(* only Down removes the volume, when it has removed every container.      *)
(***************************************************************************)
EXTENDS Deployment, TLAPS

States == {"absent", "running", "healthy", "unhealthy",
           "serving", "completed", "failed"}

SchemaInv ==
    /\ container \in [Services -> States]
    /\ tables \in BOOLEAN
    /\ container["migrate"] = "completed" => tables
    /\ TablesBeforeQueries

LEMMA InitSchema == Init => SchemaInv
BY DEF Init, SchemaInv, States, TablesBeforeQueries, Services, Checked, Apps

\* A step that changes one container, and not the volume.
LEMMA OneContainer ==
    ASSUME SchemaInv, NEW s \in Services, NEW state \in States,
           Become(s, state), tables' = tables,
           s = "migrate" => state # "completed",
           s \in Apps /\ state \in {"running", "serving"} => tables
    PROVE  SchemaInv'
BY DEF SchemaInv, TablesBeforeQueries, Become, Services, Checked, Apps

LEMMA NextSchema == SchemaInv /\ [Next]_vars => SchemaInv'
<1> SUFFICES ASSUME SchemaInv, [Next]_vars
             PROVE  SchemaInv'
  OBVIOUS
<1>1. ASSUME NEW s \in Services, CheckHealth(s)
      PROVE  SchemaInv'
  BY <1>1, OneContainer
     DEF CheckHealth, States, Services, Checked, Apps, devVars
<1>2. CASE Migrate
  <2>1. CASE Healthy("postgres") /\ Become("migrate", "completed") /\ tables'
    BY <2>1 DEF SchemaInv, TablesBeforeQueries, Become, States,
                Services, Checked, Apps
  <2>2. CASE Become("migrate", "failed") /\ tables' = tables
    BY <2>2, OneContainer DEF States, Services, Apps
  <2> QED
    BY <1>2, <2>1, <2>2 DEF Migrate
<1>3. ASSUME NEW s \in Services, Serve(s)
      PROVE  SchemaInv'
  BY <1>3, OneContainer
     DEF Serve, SchemaInv, TablesBeforeQueries, States, Services, Apps, devVars
<1>4. ASSUME NEW s \in Services, Fail(s)
      PROVE  SchemaInv'
  BY <1>4, OneContainer DEF Fail, States, devVars
<1>5. ASSUME NEW s \in Services, Start(s)
      PROVE  SchemaInv'
  <2>1. s \in Apps => tables
    BY <1>5 DEF Start, MayStart, SchemaInv
  <2> QED
    BY <1>5, <2>1, OneContainer DEF Start, States
<1>6. CASE Down
  BY <1>6 DEF Down, SchemaInv, TablesBeforeQueries, States,
              Services, Checked, Apps
<1>7. ASSUME container' = container, tables' = tables
      PROVE  SchemaInv'
  BY <1>7 DEF SchemaInv, TablesBeforeQueries
<1>8. CASE Provision \/ Up \/ ComposeEnds \/ BuildFails
  BY <1>7, <1>8 DEF Provision, Up, ComposeEnds, BuildFails
<1>9. CASE Poll \/ UNCHANGED vars
  BY <1>7, <1>9 DEF Poll, PollAnswers, PollFails, vars
<1> QED
  BY <1>1, <1>2, <1>3, <1>4, <1>5, <1>6, <1>8, <1>9 DEF Next

\* The API and the worker run on an existing schema, whatever fails and
\* however often the environment is brought up and taken down.
THEOREM TablesBeforeQueriesCorrect == Spec => []TablesBeforeQueries
<1>1. SchemaInv => TablesBeforeQueries
  BY DEF SchemaInv
<1> QED
  BY <1>1, InitSchema, NextSchema, PTL DEF Spec
-----------------------------------------------------------------------------
(* Type correctness                                                        *)

\* The types of what is not a flag, and what makes them inductive.  The count
\* of polls stays within its bound because up() polls only before the
\* deadline; the count of resources, because a script runs only while some
\* are missing, LocalStack takes them with it when it stops, and compose
\* starts only what is stopped.
Bounded ==
    /\ container \in [Services -> States]
    /\ resources \in 0 .. AllResources
    /\ dev \in {"idle", "composing", "polling", "ready", "raised"}
    /\ started \subseteq Services
    /\ polls \in 0 .. MaxPolls
    /\ dev = "composing" =>
          polls = 0 /\ \A s \in Services \ started : container[s] \in Stopped
    /\ dev = "polling" => polls < MaxPolls
    /\ script => resources < AllResources
    /\ container["localstack"] \in Stopped => resources = 0 /\ ~script

Flags == tables \in BOOLEAN /\ script \in BOOLEAN /\ answered \in BOOLEAN

\* Initially nothing runs.
LEMMA InitEnvironment == Init => Flags /\ Bounded
<1>1. Init => Flags
  BY Zenon DEF Init, Flags
<1>2. Init => /\ container = [s \in Services |-> "absent"]
              /\ resources = 0 /\ ~script
              /\ dev = "idle" /\ started = {} /\ polls = 0
  BY Zenon DEF Init
<1>3. Init => Bounded
  <2> SUFFICES ASSUME Init PROVE Bounded
    OBVIOUS
  <2>1. container \in [Services -> States] /\ started \subseteq Services
    BY <1>2 DEF States
  <2>2. polls \in 0 .. MaxPolls /\ resources \in 0 .. AllResources
    BY <1>2, DeploymentAssumption DEF AllResources
  <2> QED
    BY <1>2, <2>1, <2>2 DEF Bounded
<1> QED
  BY <1>1, <1>3

\* The flags are flags.
LEMMA NextFlags == Flags /\ [Next]_vars => Flags'
<1> SUFFICES ASSUME Flags, [Next]_vars PROVE Flags'
  OBVIOUS
<1> USE DEF Flags
<1>1. CASE Migrate
  BY <1>1, Zenon DEF Migrate, devVars
<1>2. CASE Provision
  <2>1. (resources' < AllResources) \in BOOLEAN
    OBVIOUS
  <2>2. script' = (resources' < AllResources) \/ script' = FALSE
    BY <1>2, Zenon DEF Provision
  <2>3. script' \in BOOLEAN
    BY <2>1, <2>2, Zenon
  <2> QED
    BY <1>2, <2>3, Zenon DEF Provision, devVars
<1>3. ASSUME NEW s \in Services, CheckHealth(s) \/ Serve(s) \/ Fail(s)
      PROVE  Flags'
  BY <1>3, Zenon DEF CheckHealth, Serve, Fail, devVars
<1>4. ASSUME NEW s \in Services, Start(s) PROVE Flags'
  BY <1>4, Zenon DEF Start
<1>5. CASE Up \/ ComposeEnds \/ BuildFails \/ Poll \/ Down \/ UNCHANGED vars
  BY <1>5, Zenon
     DEF Up, ComposeEnds, BuildFails, Poll, PollAnswers, PollFails, Down,
         vars, devVars
<1> QED
  BY <1>1, <1>2, <1>3, <1>4, <1>5 DEF Next

\* A container that was not stopped changes its state, and what LocalStack
\* holds goes when it stops.
LEMMA OneStateKeepsBounds ==
    ASSUME Bounded, NEW s \in Services, NEW state \in States,
           container[s] \notin Stopped, Become(s, state),
           \/ /\ s = "localstack" => state \notin Stopped
              /\ UNCHANGED <<resources, script>>
           \/ resources' = 0 /\ ~script',
           UNCHANGED <<dev, started, polls>>
    PROVE  Bounded'
BY DEF Bounded, States, AllResources, Become, Services, Checked, Apps

\* Every step of the containers and of dev.py keeps the bounds.
LEMMA NextBounded == Bounded /\ [Next]_vars => Bounded'
<1> SUFFICES ASSUME Bounded, [Next]_vars PROVE Bounded'
  OBVIOUS
<1> USE DeploymentAssumption DEF AllResources, devVars
<1>1. ASSUME NEW s \in Services, CheckHealth(s) PROVE Bounded'
  BY <1>1, OneStateKeepsBounds DEF CheckHealth, States, Stopped
<1>2. ASSUME NEW s \in Services, Serve(s) PROVE Bounded'
  BY <1>2, OneStateKeepsBounds DEF Serve, States, Stopped, Apps
<1>3. ASSUME NEW s \in Services, Fail(s) PROVE Bounded'
  BY <1>3, OneStateKeepsBounds DEF Fail, States
<1>4. CASE Migrate
  BY <1>4, OneStateKeepsBounds DEF Migrate, States, Stopped, Services
<1>5. CASE Provision
  <2>1. script /\ (script' => resources' < AllResources)
    BY <1>5, Zenon DEF Provision
  <2>2. resources' \in {resources, resources + 1}
    BY <1>5 DEF Provision
  <2> QED
    BY <1>5, <2>1, <2>2 DEF Provision, Bounded
<1>6. ASSUME NEW s \in Services, Start(s) PROVE Bounded'
  <2>1. /\ container' \in [Services -> States]
        /\ \A t \in Services \ started' : container'[t] \in Stopped
        /\ container'[s] = "running"
        /\ \A t \in Services \ {s} : container'[t] = container[t]
    BY <1>6 DEF Start, Become, Bounded, States
  <2>2. script' => script \/ s = "localstack"
    BY <1>6, Zenon DEF Start
  <2>3. /\ script' => resources' < AllResources
        /\ container'["localstack"] \in Stopped => resources' = 0 /\ ~script'
    BY <1>6, <2>1, <2>2 DEF Start, Bounded, Stopped, Services, Checked
  <2> QED
    BY <1>6, <2>1, <2>3 DEF Start, Bounded
<1>7. CASE Up \/ ComposeEnds \/ BuildFails
  BY <1>7 DEF Up, ComposeEnds, BuildFails, Bounded
<1>8. CASE Poll
  BY <1>8 DEF Poll, PollAnswers, PollFails, Bounded
<1>9. CASE Down
  BY <1>9 DEF Down, Bounded, States, Stopped
<1>10. CASE UNCHANGED vars
  BY <1>10 DEF vars, Bounded
<1> QED
  BY <1>1, <1>2, <1>3, <1>4, <1>5, <1>6, <1>7, <1>8, <1>9, <1>10 DEF Next

\* Every reachable state of the environment is well typed: in particular, for
\* any deadline, the polls of /health never pass it, and the init script
\* never creates more than there is to create.
THEOREM TypeCorrect == Spec => []TypeOK
<1>1. Flags /\ Bounded => TypeOK
  BY Zenon DEF Flags, Bounded, TypeOK, States
<1> QED
  BY <1>1, InitEnvironment, NextFlags, NextBounded, PTL DEF Spec
=============================================================================
