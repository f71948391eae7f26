-------------------------- MODULE ProcessLifecycle --------------------------
(***************************************************************************)
(* One API process from start to exit: the settings and secrets it loads,  *)
(* the engine and the session factory it keeps in module variables, and    *)
(* the connections in the pool of every engine it has made, while Secrets  *)
(* Manager comes and goes and the database password is rotated.            *)
(*                                                                         *)
(* The lifespan of the application can run more than once in one process   *)
(* (a server or a test client that restarts the application): Shutdown is  *)
(* its end, Die that of the process.  Module variables survive the first.  *)
(***************************************************************************)
EXTENDS Naturals

CONSTANTS
    PoolSize,       \* pool_size
    MaxOverflow,    \* max_overflow
    Engines,        \* a bound for TLC: the engines one process may make
    NoEngine,       \* None in place of an engine, or of the factory
    MaxRotations,   \* a bound for TLC: how often the password is rotated
    NoSecrets,      \* _secrets_cache is None
    Fallback        \* the secrets made of the fields of Settings

ASSUME LifecycleAssumption ==
    /\ PoolSize \in Nat \ {0}
    /\ MaxOverflow \in Nat
    /\ NoEngine \notin Engines
    /\ MaxRotations \in Nat
    /\ {NoSecrets, Fallback} \cap Nat = {}

VARIABLES
    phase,      \* where the lifespan is
    secrets,    \* _secrets_cache
    engine,     \* _engine
    bound,      \* the engine _session_factory is bound to
    made,       \* the engines this process has made
    busy,       \* of each engine, the connections checked out by sessions
    idle,       \* of each engine, the connections waiting in its pool
    available,  \* Secrets Manager answers
    password    \* the current password of the database, and of the secret

processVars == <<phase, secrets, engine, bound, made, busy, idle>>

vars == <<processVars, available, password>>

-----------------------------------------------------------------------------
(* Types and initial state                                                 *)

\* Passwords are numbered in the order of the rotations.
Passwords == 0 .. MaxRotations

\* The one password of .env, and of the defaults of Settings.
EnvPassword == 0

Secrets == Passwords \cup {NoSecrets, Fallback}

\* No pool opens more connections than this, and none keeps more than
\* PoolSize of them.
PoolLimit == PoolSize + MaxOverflow

TypeOK ==
    /\ phase \in {"down", "loading", "serving"}
    /\ secrets \in Secrets
    /\ engine \in Engines \cup {NoEngine}
    /\ bound \in Engines \cup {NoEngine}
    /\ made \subseteq Engines
    /\ busy \in [Engines -> 0 .. PoolLimit]
    /\ idle \in [Engines -> 0 .. PoolSize]
    /\ available \in BOOLEAN
    /\ password \in Passwords

NoConnections == [g \in Engines |-> 0]

\* A process that has just been started.
Init ==
    /\ phase = "down"
    /\ secrets = NoSecrets
    /\ engine = NoEngine /\ bound = NoEngine /\ made = {}
    /\ busy = NoConnections /\ idle = NoConnections
    /\ available \in BOOLEAN
    /\ password = EnvPassword

-----------------------------------------------------------------------------
(* Slips: each is a plausible wrong version of the action its comment      *)
(* names.  No specification uses them; the properties below reject them.   *)

\* CloseSession, of a pool that keeps its overflow.
CloseSessionKeeping(g) ==
    /\ busy[g] > 0
    /\ busy' = [busy EXCEPT ![g] = @ - 1]
    /\ idle' = [idle EXCEPT ![g] = @ + 1]
    /\ UNCHANGED <<phase, secrets, engine, bound, made, available, password>>

\* Shutdown, that resets both module variables and closes nothing.
ShutdownForgetting ==
    /\ phase = "serving" /\ busy = NoConnections
    /\ phase' = "down"
    /\ engine' = NoEngine /\ bound' = NoEngine
    /\ UNCHANGED <<secrets, made, busy, idle, available, password>>

-----------------------------------------------------------------------------
(* The environment                                                         *)

SecretsManagerChanges ==
    /\ available' = ~available
    /\ UNCHANGED <<processVars, password>>

\* A rotation changes the password and the secret; connections live on.
Rotate ==
    /\ password < MaxRotations
    /\ password' = password + 1
    /\ UNCHANGED <<processVars, available>>

-----------------------------------------------------------------------------
(* The process                                                             *)

\* lifespan() up to its await of load_secrets.
Startup ==
    /\ phase = "down"
    /\ phase' = "loading"
    /\ UNCHANGED <<secrets, engine, bound, made, busy, idle, available, password>>

\* load_secrets: the cache, else Secrets Manager, else the fallback, which
\* is cached as well.
LoadSecrets ==
    /\ phase = "loading"
    /\ secrets' = IF secrets # NoSecrets THEN secrets
                  ELSE IF available THEN password ELSE Fallback
    /\ phase' = "serving"
    /\ UNCHANGED <<engine, bound, made, busy, idle, available, password>>

\* database_url is made of the fields of Settings, which come from .env.
UrlPassword == EnvPassword

\* The engine of the session factory: the factory is made on the first use,
\* with the module's engine, and that on its first use too.
FactoryEngine ==
    IF bound # NoEngine THEN {bound}
    ELSE IF engine # NoEngine THEN {engine} ELSE Engines \ made

\* The pool has a connection, or has room for one and the database lets it
\* in; else the statement fails, or waits.
Connects(g) ==
    idle[g] > 0 \/ (busy[g] < PoolLimit /\ UrlPassword = password)

\* A session's first statement.  The engine and the factory are made whether
\* or not the session then connects.
OpenSession(g) ==
    /\ phase = "serving" /\ g \in FactoryEngine
    /\ bound' = g
    /\ engine' = IF bound = NoEngine THEN g ELSE engine
    /\ made' = made \cup {g}
    /\ busy' = IF Connects(g) THEN [busy EXCEPT ![g] = @ + 1] ELSE busy
    /\ idle' = IF idle[g] > 0 THEN [idle EXCEPT ![g] = @ - 1] ELSE idle
    /\ UNCHANGED <<phase, secrets, available, password>>

\* The connection goes back to its pool, which closes it when PoolSize
\* others are idle there already.
CloseSession(g) ==
    /\ busy[g] > 0
    /\ busy' = [busy EXCEPT ![g] = @ - 1]
    /\ idle' = IF idle[g] < PoolSize THEN [idle EXCEPT ![g] = @ + 1] ELSE idle
    /\ UNCHANGED <<phase, secrets, engine, bound, made, available, password>>

\* The server ends the lifespan when its last request has ended.
\* dispose_engine closes the pool of the engine it finds, and forgets the
\* engine; the factory stays bound to it.
Shutdown ==
    /\ phase = "serving" /\ busy = NoConnections
    /\ phase' = "down"
    /\ engine' = NoEngine
    /\ idle' = [g \in Engines |-> IF g = engine THEN 0 ELSE idle[g]]
    /\ UNCHANGED <<secrets, bound, made, busy, available, password>>

\* The process ends, in whatever phase, and another takes its place.
Die ==
    /\ phase' = "down"
    /\ secrets' = NoSecrets
    /\ engine' = NoEngine /\ bound' = NoEngine /\ made' = {}
    /\ busy' = NoConnections /\ idle' = NoConnections
    /\ UNCHANGED <<available, password>>

-----------------------------------------------------------------------------
(* Specification                                                           *)

Next ==
    \/ SecretsManagerChanges \/ Rotate
    \/ Startup \/ LoadSecrets \/ Shutdown \/ Die
    \/ \E g \in Engines : OpenSession(g) \/ CloseSession(g)

Spec == Init /\ [][Next]_vars

-----------------------------------------------------------------------------
(* Properties                                                              *)

\* However often the lifespan runs, and although each run after the first
\* works with an engine the module has forgotten, no connection is left
\* behind in a pool that sessions no longer use: all connections of the
\* process are in the pool of the factory's engine, and no more than the one
\* pool allows.
ConnectionsInOnePool ==
    \A g \in Engines : busy[g] + idle[g] > 0 =>
        g = bound /\ busy[g] + idle[g] <= PoolLimit

-----------------------------------------------------------------------------
(* What the repository's documents say of the process and its code does    *)
(* not                                                                     *)

\* settings.py, of database_url: "The password comes from Secrets Manager in
\* production".  The loaded secrets are never read again; the password of
\* the URL is that of .env.
LoadedPasswordIsUsed ==
    phase = "serving" /\ secrets \in Passwords => UrlPassword = secrets

\* settings.py, of load_secrets: "Caches in memory after first successful
\* loading".  A failure is cached too, and outlives the outage.
FallbackIsNotCached ==
    [][phase = "loading" /\ phase' = "serving" /\ available
          => secrets' # Fallback]_vars

\* database.py, of dispose_engine: "Closes all connections in the pool.
\* Called on application shutdown."  The second shutdown of a process finds
\* no engine, while the sessions it served used the first one's pool.
ShutdownClosesPool ==
    phase = "down" => \A g \in Engines : busy[g] + idle[g] = 0
=============================================================================
