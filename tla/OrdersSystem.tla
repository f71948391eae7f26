---------------------------- MODULE OrdersSystem ----------------------------
(***************************************************************************)
(* The whole path of an order: API processes that serve POST /orders and   *)
(* worker processes that publish the events, over one outbox_events table. *)
(* They share nothing else, so a step of the system is a step of one       *)
(* request or of one worker that leaves the other side's state alone.      *)
(*                                                                         *)
(* OutboxWorker has an action OrderCommitted that stands for the API; here *)
(* its place is taken by the API itself.                                   *)
(***************************************************************************)
EXTENDS OutboxTable

CONSTANTS
    Keys, None, PoolLimit,                  \* of OrderService
    Workers, NoOne, BatchSize, FaultKinds   \* of OutboxWorker

ASSUME SystemAssumption ==
    /\ None \notin Requests \cup Keys
    /\ PoolLimit \in Nat \ {0}
    /\ NoOne \notin Workers \cup Requests
    /\ BatchSize \in Nat \ {0}
    /\ FaultKinds \subseteq {"crash", "connection", "database"}

VARIABLES
    orders, stage, key, answer, connected,                      \* of the API
    step, running, session, todo, current, attempt, lock, queue \* of workers

API == INSTANCE OrderService
Fleet == INSTANCE OutboxWorker

serviceVars == <<orders, stage, key, answer, connected>>

fleetVars == <<lock, queue, step, running, session, todo, current, attempt>>

vars == <<outbox, created_at, serviceVars, fleetVars>>

-----------------------------------------------------------------------------
(* Specification                                                           *)

Serve(r) == API!ServiceStep(r) /\ UNCHANGED fleetVars

Work(w) == Fleet!WorkerStep(w) /\ UNCHANGED serviceVars

Init == OutboxInit /\ API!ServiceInit /\ Fleet!WorkerInit

Next == (\E r \in Requests : Serve(r)) \/ (\E w \in Workers : Work(w))

\* The fairness of the two components.
Fairness ==
    /\ \A r \in Requests :
          /\ WF_vars(API!Advance(r) /\ UNCHANGED fleetVars)
          /\ WF_vars(API!CloseSession(r) /\ UNCHANGED fleetVars)
    /\ \A w \in Workers :
          WF_vars(Fleet!Advance(w) /\ UNCHANGED serviceVars)

Spec == Init /\ [][Next]_vars

FairSpec == Spec /\ Fairness

-----------------------------------------------------------------------------
(* Safety                                                                  *)

\* What the outbox is there for: whatever fails on either side, a message
\* in SQS names the one durable order of its idempotency key.  So no
\* message announces an order that was rolled back, and the consumer never
\* sees two orders of one key, however many requests raced for it.
MessagesNameOrders == \A e \in queue : orders[key[e]] = e

\* A request the client was told to have failed for good is never announced,
\* and a row a worker has in hand belongs to a request that is past COMMIT.
RefusedIsNeverAnnounced ==
    \A r \in Requests :
        /\ answer[r].status \in {400, 422, 503} => r \notin queue
        /\ \A w \in Workers : r \in Fleet!Batch(w) =>
              stage[r] \in {"reply", "answered", "dropped"}

\* An order some client was told of has its event kept until SQS has it: the
\* row is pending, was given up and stays as "failed", or is processed and
\* its message sent, however the workers and other requests interleave.
AnsweredOrderIsKept ==
    \A r, e \in Requests : answer[r].order = e =>
        \/ outbox[e] \in {"pending", "failed"}
        \/ outbox[e] = "processed" /\ e \in queue

Settled(e) == outbox[e] \in {"processed", "failed"}

\* With any number of workers, whose settled rows can still turn from
\* processed to failed and back, none becomes pending again or disappears:
\* no retry of a client and no worker starts the work on an event anew.
SettledStaysSettled == [][\A e \in Requests : Settled(e) => Settled(e)']_vars

\* With one worker, the event of an order is settled once and for all: not a
\* lost answer to a COMMIT, a worker that dies and starts again, nor a second
\* request for the key makes a processed event pending or failed again.
SettledIsFinal ==
    [][\A e \in Requests : outbox[e] \in {"processed", "failed"}
          => outbox'[e] = outbox[e]]_vars

-----------------------------------------------------------------------------
(* Liveness, under FairSpec                                                *)

\* If some worker stays up and its faults come to an end, the order a client
\* holds a 200 or 201 for is settled in the end, even when the request that
\* created it died before it could answer its own client.
AnsweredOrderIsSettled ==
    /\ \E w \in Workers : <>[](running[w])
    /\ <>[][\A w \in Workers : ~Fleet!Fault(w)]_vars
    => \A r, e \in Requests : answer[r].order = e ~> Settled(e)

-----------------------------------------------------------------------------
(* Refinement                                                              *)

\* The API does not see what becomes of a stored row: to it, every row that
\* is not absent is as it was committed.
Written ==
    [e \in Requests |-> IF outbox[e] = "absent" THEN "absent" ELSE "pending"]

\* The workers do not see the clock of a row that is not yet committed.
Visible ==
    [e \in Requests |-> IF outbox[e] = "absent" THEN 0 ELSE created_at[e]]

ServiceView == INSTANCE OrderService WITH outbox <- Written

FleetView == INSTANCE OutboxWorker WITH created_at <- Visible

\* No worker disturbs the API: with the workers running, the requests still
\* behave as OrderService says, so all it guarantees holds in the system.
ImplementsOrderService == ServiceView!Spec

\* The API is the environment the workers were modelled with: all it does
\* to the table is to commit one pending row per order.
ImplementsOutboxWorker == FleetView!Spec
=============================================================================
