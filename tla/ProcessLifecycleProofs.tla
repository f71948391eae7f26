----------------------- MODULE ProcessLifecycleProofs -----------------------
(***************************************************************************)
(* The types and the pools of ProcessLifecycle, for every pool size, any   *)
(* number of engines and any number of rotations.  The invariant falls     *)
(* into parts that are kept each by itself: the connections with the engine *)
(* they belong to, the engines, and the other data.  An engine that is not *)
(* the factory's has no connection: it becomes the factory's before its    *)
(* first one, and stays so until the process ends.                         *)
(***************************************************************************)
EXTENDS ProcessLifecycle, TLAPS

Pools ==
    /\ busy \in [Engines -> Nat]
    /\ idle \in [Engines -> Nat]
    /\ \A g \in Engines :
          /\ idle[g] <= PoolSize
          /\ busy[g] + idle[g] <= PoolLimit
          /\ g # bound => busy[g] = 0 /\ idle[g] = 0

EngineTypes ==
    /\ engine \in Engines \cup {NoEngine}
    /\ bound \in Engines \cup {NoEngine}
    /\ made \subseteq Engines

Data ==
    /\ phase \in {"down", "loading", "serving"}
    /\ secrets \in Secrets
    /\ password \in Passwords

Reachability == available \in BOOLEAN

LEMMA PoolsKept == Pools /\ [Next]_vars => Pools'
<1> SUFFICES ASSUME Pools, [Next]_vars
             PROVE  Pools'
  OBVIOUS
<1> USE LifecycleAssumption DEF Pools, PoolLimit
<1>1. CASE SecretsManagerChanges \/ Rotate \/ Startup \/ LoadSecrets
  BY <1>1 DEF SecretsManagerChanges, Rotate, Startup, LoadSecrets, processVars
<1>2. ASSUME NEW g \in Engines, OpenSession(g)
      PROVE  Pools'
  <2>1. bound' = g /\ bound \in {g, NoEngine}
    BY <1>2 DEF OpenSession, FactoryEngine
  <2>2. \A h \in Engines \ {g} : busy[h] = 0 /\ idle[h] = 0
    BY <2>1
  <2>3. busy' = IF Connects(g) THEN [busy EXCEPT ![g] = @ + 1] ELSE busy
    BY <1>2 DEF OpenSession
  <2>4. idle' = IF idle[g] > 0 THEN [idle EXCEPT ![g] = @ - 1] ELSE idle
    BY <1>2 DEF OpenSession
  <2> QED
    BY <2>1, <2>2, <2>3, <2>4 DEF Connects
<1>3. ASSUME NEW g \in Engines, CloseSession(g)
      PROVE  Pools'
  BY <1>3 DEF CloseSession
<1>4. CASE Shutdown
  BY <1>4 DEF Shutdown
<1>5. CASE Die
  BY <1>5 DEF Die, NoConnections
<1>6. CASE UNCHANGED vars
  BY <1>6 DEF vars, processVars
<1> QED
  BY <1>1, <1>2, <1>3, <1>4, <1>5, <1>6 DEF Next

LEMMA EngineTypesKept == EngineTypes /\ [Next]_vars => EngineTypes'
BY DEF EngineTypes, Next, SecretsManagerChanges, Rotate, Startup, LoadSecrets,
       OpenSession, CloseSession, Shutdown, Die, vars, processVars

LEMMA DataKept == Data /\ [Next]_vars => Data'
<1> SUFFICES ASSUME Data, [Next]_vars
             PROVE  Data'
  OBVIOUS
<1> USE LifecycleAssumption DEF Data, Secrets, Passwords
<1>1. CASE SecretsManagerChanges \/ UNCHANGED vars
  BY <1>1 DEF SecretsManagerChanges, vars, processVars
<1>2. CASE Rotate
  BY <1>2 DEF Rotate, processVars
<1>3. CASE Startup
  BY <1>3 DEF Startup
<1>4. CASE LoadSecrets
  BY <1>4 DEF LoadSecrets
<1>5. ASSUME NEW g \in Engines, OpenSession(g) \/ CloseSession(g)
      PROVE  Data'
  <2>1. phase' = phase /\ secrets' = secrets /\ password' = password
    BY <1>5 DEF OpenSession, CloseSession
  <2> QED
    BY <2>1
<1>6. CASE Shutdown
  BY <1>6 DEF Shutdown
<1>7. CASE Die
  BY <1>7 DEF Die
<1> QED
  BY <1>1, <1>2, <1>3, <1>4, <1>5, <1>6, <1>7 DEF Next

LEMMA ReachabilityKept == Reachability /\ [Next]_vars => Reachability'
BY Zenon
   DEF Reachability, Next, SecretsManagerChanges, Rotate, Startup, LoadSecrets,
       OpenSession, CloseSession, Shutdown, Die, vars, processVars

LEMMA InitTypes ==
    Init => Pools /\ EngineTypes /\ Data /\ Reachability
<1> SUFFICES ASSUME Init
             PROVE  Pools /\ EngineTypes /\ Data /\ Reachability
  OBVIOUS
<1>1. Pools
  BY LifecycleAssumption DEF Init, NoConnections, Pools, PoolLimit
<1>2. EngineTypes
  BY DEF Init, EngineTypes
<1>3. Data
  BY LifecycleAssumption DEF Init, Data, Secrets, Passwords, EnvPassword
<1>4. Reachability
  BY Zenon DEF Init, Reachability
<1> QED
  BY <1>1, <1>2, <1>3, <1>4

\* However the lifespans, sessions, outages and rotations interleave, the
\* module variables keep their types, no pool opens more connections than
\* pool_size + max_overflow, and none keeps more than pool_size idle.
THEOREM TypeCorrect == Spec => []TypeOK
<1>1. Pools => /\ busy \in [Engines -> 0 .. PoolLimit]
               /\ idle \in [Engines -> 0 .. PoolSize]
  BY LifecycleAssumption DEF Pools, PoolLimit
<1>2. Pools /\ EngineTypes /\ Data /\ Reachability => TypeOK
  BY <1>1, Zenon DEF EngineTypes, Data, Reachability, TypeOK
<1> QED
  BY <1>2, InitTypes, PoolsKept, EngineTypesKept, DataKept, ReachabilityKept, PTL
     DEF Spec

\* All connections of the process are in the one pool its sessions use, and
\* within that pool's limit, although from the second lifespan on they are
\* opened on an engine the module has let go of.
THEOREM ConnectionsInOnePoolCorrect == Spec => []ConnectionsInOnePool
<1>1. Pools => ConnectionsInOnePool
  BY DEF Pools, ConnectionsInOnePool
<1> QED
  BY <1>1, InitTypes, PoolsKept, PTL DEF Spec
=============================================================================
