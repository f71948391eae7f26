----------------------------- MODULE Deployment -----------------------------
(***************************************************************************)
(* The environment docker-compose.yml describes, as `python dev.py` brings *)
(* it up and takes it down: the containers and what each waits for, the    *)
(* schema in the volume of PostgreSQL, the queues and the secret the init  *)
(* script creates in LocalStack, and the poll of /health.                  *)
(*                                                                         *)
(* No service has a restart policy: a container that fails stays down      *)
(* until the next `up`, which starts again whatever is not running, the    *)
(* one-shot `migrate` included.  The volume outlives the containers;       *)
(* LocalStack keeps nothing.                                               *)
(***************************************************************************)
EXTENDS Naturals

CONSTANT MaxPolls       \* the polls of /health that fit in 60 seconds

ASSUME DeploymentAssumption == MaxPolls \in Nat \ {0}

VARIABLES
    container,  \* the state of each service's container
    tables,     \* the volume pgdata has the schema
    resources,  \* how many resources of the init script exist
    script,     \* the init script is running
    dev,        \* where the dev.py command is
    started,    \* the services this `up` has started, or found running
    polls,      \* the failed polls of /health
    answered    \* what _wait_for_api returned

devVars == <<dev, started, polls, answered>>

vars == <<container, tables, resources, script, devVars>>

-----------------------------------------------------------------------------
(* Types and initial state                                                 *)

Checked == {"postgres", "localstack"}

Apps == {"fastapi-service", "worker"}

Services == Checked \cup Apps \cup {"migrate", "requester-mock"}

\* orders-dlq, then orders-queue, then order-service-secrets.
AllResources == 3

TypeOK ==
    /\ container \in [Services -> {"absent", "running", "healthy", "unhealthy",
                                   "serving", "completed", "failed"}]
    /\ tables \in BOOLEAN
    /\ resources \in 0 .. AllResources
    /\ script \in BOOLEAN
    /\ dev \in {"idle", "composing", "polling", "ready", "raised"}
    /\ started \subseteq Services
    /\ polls \in 0 .. MaxPolls
    /\ answered \in BOOLEAN

Init ==
    /\ container = [s \in Services |-> "absent"]
    /\ tables = FALSE
    /\ resources = 0
    /\ script = FALSE
    /\ dev = "idle"
    /\ started = {}
    /\ polls = 0
    /\ answered = FALSE

-----------------------------------------------------------------------------
(* Helpers                                                                 *)

Stopped == {"absent", "completed", "failed"}

Healthy(s) == container[s] = "healthy"

Become(s, state) == container' = [container EXCEPT ![s] = state]

-----------------------------------------------------------------------------
(* Slips: each is a plausible wrong version of the definition its comment  *)
(* names.  No specification uses them; the properties below reject them.   *)

\* MayStart, with `service_started` as the condition of migrate.
MayStartEarly(s) ==
    /\ s \in Apps \cup {"migrate"} => Healthy("postgres")
    /\ s \in Apps => Healthy("localstack") /\ "migrate" \in started
    /\ s = "fastapi-service" => "requester-mock" \in started

\* Fail, with LocalStack's state on a volume and its script run again.
FailKeepingResources(s) ==
    /\ container[s] \notin Stopped
    /\ Become(s, "failed")
    /\ UNCHANGED <<tables, resources, script, devVars>>

\* PollFails, without the deadline.
PollFailsForever ==
    /\ dev = "polling"
    /\ container["fastapi-service"] # "serving"
    /\ UNCHANGED vars

-----------------------------------------------------------------------------
(* depends_on                                                              *)

\* The conditions of service s hold.
MayStart(s) ==
    /\ s \in Apps \cup {"migrate"} => Healthy("postgres")
    /\ s \in Apps =>
          /\ Healthy("localstack")
          /\ "migrate" \in started /\ container["migrate"] = "completed"
    /\ s = "fastapi-service" => "requester-mock" \in started

\* A service this `up` has dealt with can no longer become what others wait
\* for: compose gives up.
Hopeless ==
    \/ \E s \in Checked \cap started : container[s] \in {"unhealthy", "failed"}
    \/ "migrate" \in started /\ container["migrate"] = "failed"

-----------------------------------------------------------------------------
(* The containers                                                          *)

\* The healthcheck passes, or runs out of retries; it may still pass later.
CheckHealth(s) ==
    /\ s \in Checked /\ container[s] \in {"running", "unhealthy"}
    /\ \/ Become(s, "healthy")
       \/ container[s] = "running" /\ Become(s, "unhealthy")
    /\ UNCHANGED <<tables, resources, script, devVars>>

\* alembic upgrade head: one transaction, which does nothing at the head.
Migrate ==
    /\ container["migrate"] = "running"
    /\ \/ Healthy("postgres") /\ Become("migrate", "completed") /\ tables' = TRUE
       \/ Become("migrate", "failed") /\ UNCHANGED tables
    /\ UNCHANGED <<resources, script, devVars>>

\* The init script creates its next resource, or fails and stops (set -e).
\* It runs once LocalStack is ready, which is all the healthcheck asks too.
Provision ==
    /\ script
    /\ \/ resources' = resources + 1 /\ script' = (resources' < AllResources)
       \/ script' = FALSE /\ UNCHANGED resources
    /\ UNCHANGED <<container, tables, devVars>>

\* The API or the worker has loaded its secrets, or the fallback, and runs.
Serve(s) ==
    /\ s \in Apps /\ container[s] = "running"
    /\ Become(s, "serving")
    /\ UNCHANGED <<tables, resources, script, devVars>>

\* What LocalStack held is lost with it.
Fail(s) ==
    /\ container[s] \notin Stopped
    /\ Become(s, "failed")
    /\ IF s = "localstack" THEN resources' = 0 /\ script' = FALSE
       ELSE UNCHANGED <<resources, script>>
    /\ UNCHANGED <<tables, devVars>>

-----------------------------------------------------------------------------
(* dev.py                                                                  *)

\* up() runs `docker compose up --build -d`, which leaves alone what runs.
Up ==
    /\ dev \in {"idle", "ready", "raised"}
    /\ dev' = "composing"
    /\ started' = {s \in Services : container[s] \notin Stopped}
    /\ polls' = 0
    /\ answered' = FALSE
    /\ UNCHANGED <<container, tables, resources, script>>

Start(s) ==
    /\ dev = "composing" /\ s \notin started /\ MayStart(s)
    /\ Become(s, "running")
    /\ started' = started \cup {s}
    /\ script' = (script \/ s = "localstack")
    /\ UNCHANGED <<tables, resources, dev, polls, answered>>

\* compose returns when all have been started; run() raises if it failed.
ComposeEnds ==
    /\ dev = "composing"
    /\ \/ started = Services /\ dev' = "polling"
       \/ started # Services /\ Hopeless /\ dev' = "raised"
    /\ UNCHANGED <<container, tables, resources, script, started, polls, answered>>

\* The build fails, or docker does.
BuildFails ==
    /\ dev = "composing"
    /\ dev' = "raised"
    /\ UNCHANGED <<container, tables, resources, script, started, polls, answered>>

\* _wait_for_api: /health answers, and up() prints the URLs.
PollAnswers ==
    /\ dev = "polling"
    /\ container["fastapi-service"] = "serving"
    /\ answered' = TRUE
    /\ dev' = "ready"
    /\ UNCHANGED <<container, tables, resources, script, started, polls>>

\* /health does not answer.  At the deadline _wait_for_api returns False,
\* and up(), which does not look, prints the URLs.
PollFails ==
    /\ dev = "polling"
    /\ container["fastapi-service"] # "serving"
    /\ polls' = polls + 1
    /\ dev' = IF polls' = MaxPolls THEN "ready" ELSE dev
    /\ UNCHANGED <<container, tables, resources, script, started, answered>>

\* docker compose down -v: the containers go, and the volume after them.
\* restart() is Down and then Up.
Down ==
    /\ dev \in {"idle", "ready", "raised"}
    /\ container' = [s \in Services |-> "absent"]
    /\ tables' = FALSE
    /\ resources' = 0
    /\ script' = FALSE
    /\ dev' = "idle"
    /\ UNCHANGED <<started, polls, answered>>

-----------------------------------------------------------------------------
(* Specification                                                           *)

Poll == PollAnswers \/ PollFails

Next ==
    \/ Migrate \/ Provision
    \/ \E s \in Services : CheckHealth(s) \/ Serve(s) \/ Fail(s) \/ Start(s)
    \/ Up \/ ComposeEnds \/ BuildFails \/ Poll \/ Down

\* Healthchecks have a bound on their retries, migrate and compose run to
\* their end, and a poll takes at most two seconds and a pause of two.
Fairness ==
    /\ \A s \in Services : WF_vars(CheckHealth(s)) /\ WF_vars(Start(s))
    /\ WF_vars(Migrate) /\ WF_vars(ComposeEnds) /\ WF_vars(Poll)

Spec == Init /\ [][Next]_vars /\ Fairness

-----------------------------------------------------------------------------
(* Properties                                                              *)

\* README.md, of `up`: "nunca ha erros de tabela nao encontrada".  The API
\* and the worker run on an existing schema: through failed containers,
\* failed migrations, repeated `up`s and `down -v`.
TablesBeforeQueries ==
    \A s \in Apps : container[s] \in {"running", "serving"} => tables

\* up() ends: it prints the URLs, or raises.  A healthcheck that never
\* passes and an API that never answers do not hang it.
UpEnds == dev = "composing" ~> dev \in {"ready", "raised"}

-----------------------------------------------------------------------------
(* What the repository's documents say of the environment and its code     *)
(* does not                                                                *)

\* README.md: "`dev.py` aguarda o `/health` responder antes de imprimir as
\* URLs".  It does not wait longer than a minute.
UrlsAfterHealth == dev = "ready" => answered

\* README.md: "LocalStack aguarda ficar healthy (SQS + Secrets Manager)",
\* before the services that use them.  Its healthcheck lists the queues; an
\* empty list passes.
ResourcesBeforeUse ==
    \A s \in Apps : container[s] = "running" /\ Healthy("localstack")
        => resources = AllResources
=============================================================================
