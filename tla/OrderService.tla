---------------------------- MODULE OrderService ----------------------------
(***************************************************************************)
(* POST /orders: the route, OrderService.create_order, the repositories    *)
(* and the database transaction they share.  Many requests run             *)
(* concurrently, in one event loop or in several API processes; every      *)
(* await is a point where they interleave, so each await is one action.    *)
(*                                                                         *)
(* PostgreSQL runs at its default READ COMMITTED: a SELECT sees the rows   *)
(* committed when it starts, and an INSERT that meets an uncommitted row   *)
(* with the same unique key waits for the other transaction to end.        *)
(***************************************************************************)
EXTENDS OutboxTable

CONSTANTS
    Keys,       \* values of external_order_id, the idempotency key
    None,       \* "no order" and "no key"
    PoolLimit   \* connections the engine may open: pool_size + max_overflow

ASSUME NoneAssumption == None \notin Requests \cup Keys
ASSUME PoolAssumption == PoolLimit \in Nat \ {0}

VARIABLES
    orders,     \* the committed rows of orders: key -> the order's id
    stage,      \* the await at which each request is
    key,        \* the external_order_id each request carries
    answer,     \* the response each request's handler has produced
    connected   \* the requests whose session has checked a connection out

serviceVars == <<orders, stage, key, answer, connected>>

vars == <<outbox, created_at, serviceVars>>

-----------------------------------------------------------------------------
(* Types and initial state                                                 *)

Stages == {"new", "validating", "lookup", "insert_order", "insert_event",
           "commit", "rollback", "relookup", "reply", "answered", "dropped"}

HttpStatuses == {201, 200, 400, 422, 503, 500}

NoAnswer == [status |-> 0, order |-> None]

Answers == [status : HttpStatuses \cup {0}, order : Requests \cup {None}]

ServiceTypeOK ==
    /\ orders \in [Keys -> Requests \cup {None}]
    /\ stage \in [Requests -> Stages]
    /\ key \in [Requests -> Keys \cup {None}]
    /\ \A r \in Requests : stage[r] = "new" <=> key[r] = None
    /\ answer \in [Requests -> Answers]
    /\ connected \subseteq Requests

ServiceInit ==
    /\ orders = [k \in Keys |-> None]
    /\ stage = [r \in Requests |-> "new"]
    /\ key = [r \in Requests |-> None]
    /\ answer = [r \in Requests |-> NoAnswer]
    /\ connected = {}

-----------------------------------------------------------------------------
(* Helpers                                                                 *)

\* What the requester service can do to GET /requesters/{requester_id}.
Upstream == {"2xx", "404", "5xx", "other_status", "timeout",
             "transport_error", "invalid_url"}

\* A slip in RequesterVerdict: the upstream 404 is passed on as it came.
RequesterVerdictForwarded(u) ==
    CASE u = "2xx" -> 0
      [] u = "404" -> 404
      [] OTHER     -> 503

\* The HTTP status each upstream outcome leads to, through the exception
\* validate_requester raises and that exception's handler; 0 stands for
\* "return True".  httpx.InvalidURL is no httpx.HTTPError, so nothing
\* catches it before the handler of Exception.
RequesterVerdict(u) ==
    CASE u = "2xx"         -> 0
      [] u = "404"         -> 422
      [] u = "invalid_url" -> 500
      [] OTHER             -> 503

\* r's transaction has inserted the order and not yet ended.
Writing(r) == stage[r] \in {"insert_event", "commit"}

\* The pool hands r a connection, or r's session already has one.
CanConnect(r) == r \in connected \/ Cardinality(connected) < PoolLimit

Goto(r, s) == stage' = [stage EXCEPT ![r] = s]

Finish(r, status, order) ==
    /\ Goto(r, "reply")
    /\ answer' = [answer EXCEPT ![r] = [status |-> status, order |-> order]]

\* The rows r's transaction has written become visible together.
Apply(r) ==
    /\ orders' = [orders EXCEPT ![key[r]] = r]
    /\ outbox' = [outbox EXCEPT ![r] = "pending"]

-----------------------------------------------------------------------------
(* Slips: each is a plausible wrong version of the action its comment      *)
(* names.  No specification uses them; the properties below reject them.   *)

\* BindRequest, with a get_session that connects before the route runs.
BindRequestConnected(r) ==
    /\ stage[r] = "new"
    /\ CanConnect(r)
    /\ connected' = connected \cup {r}
    /\ \E k \in Keys : key' = [key EXCEPT ![r] = k]
    /\ Goto(r, "validating")
    /\ UNCHANGED <<orders, answer, outbox, created_at>>

\* FindByExternalId, at READ UNCOMMITTED.
FindByExternalIdDirty(r) ==
    /\ stage[r] = "lookup"
    /\ CanConnect(r)
    /\ connected' = connected \cup {r}
    /\ \/ \E q \in Requests :
             /\ key[q] = key[r]
             /\ Writing(q) \/ orders[key[r]] = q
             /\ Finish(r, 200, q)
       \/ /\ \A q \in Requests : Writing(q) => key[q] # key[r]
          /\ orders[key[r]] = None
          /\ Goto(r, "insert_order") /\ UNCHANGED answer
    /\ UNCHANGED <<orders, key, outbox, created_at>>

\* FindByExternalId, with a repeated request putting the event back in line.
FindByExternalIdRequeueing(r) ==
    /\ stage[r] = "lookup"
    /\ CanConnect(r)
    /\ connected' = connected \cup {r}
    /\ IF orders[key[r]] # None
       THEN /\ Finish(r, 200, orders[key[r]])
            /\ outbox' = [outbox EXCEPT ![orders[key[r]]] = "pending"]
       ELSE Goto(r, "insert_order") /\ UNCHANGED <<answer, outbox>>
    /\ UNCHANGED <<orders, key, created_at>>

\* CreateOrder, with a commit inside the repository.
CreateOrderCommitting(r) ==
    /\ stage[r] = "insert_order"
    /\ \/ orders[key[r]] # None /\ Goto(r, "rollback") /\ UNCHANGED orders
       \/ /\ orders[key[r]] = None
          /\ Goto(r, "insert_event")
          /\ orders' = [orders EXCEPT ![key[r]] = r]
    /\ UNCHANGED <<key, answer, connected, outbox, created_at>>

\* CreateOrder, without the unique index on external_order_id.
CreateOrderUnindexed(r) ==
    /\ stage[r] = "insert_order"
    /\ Goto(r, "insert_event")
    /\ UNCHANGED <<orders, key, answer, connected, outbox, created_at>>

\* CreateOrder, with a conflict raised before the other writer has ended
\* (a lock_timeout or a NOWAIT check turned into IntegrityError).
CreateOrderImpatient(r) ==
    /\ stage[r] = "insert_order"
    /\ \/ /\ \/ orders[key[r]] # None
             \/ \E q \in Requests : Writing(q) /\ key[q] = key[r]
          /\ Goto(r, "rollback")
       \/ /\ orders[key[r]] = None
          /\ \A q \in Requests : Writing(q) => key[q] # key[r]
          /\ Goto(r, "insert_event")
    /\ UNCHANGED <<orders, key, answer, connected, outbox, created_at>>

\* CommitFails, answered like an unavailable dependency.
CommitFailsUnavailable(r) ==
    /\ stage[r] = "commit"
    /\ Apply(r) \/ UNCHANGED <<orders, outbox>>
    /\ Finish(r, 503, None)
    /\ UNCHANGED <<key, connected, created_at>>

\* Rollback, followed by a second insert instead of a second search.
RollbackAndRetry(r) ==
    /\ stage[r] = "rollback"
    /\ Goto(r, "insert_order")
    /\ UNCHANGED <<orders, key, answer, connected, outbox, created_at>>

\* CloseSession, forgotten for a handler that raised.
CloseSessionOnSuccess(r) ==
    /\ stage[r] \in {"reply", "answered"}
    /\ answer[r].status \in {200, 201}
    /\ r \in connected
    /\ connected' = connected \ {r}
    /\ UNCHANGED <<orders, stage, key, answer, outbox, created_at>>

-----------------------------------------------------------------------------
(* The request, await by await                                             *)

\* FastAPI binds the body to CreateOrderRequest before the route runs; a
\* body that violates the field constraints gets 400.
BindRequest(r) ==
    /\ stage[r] = "new"
    /\ \E k \in Keys : key' = [key EXCEPT ![r] = k]
    /\ \/ Goto(r, "validating") /\ UNCHANGED answer
       \/ Finish(r, 400, None)
    /\ UNCHANGED <<orders, connected, outbox, created_at>>

ValidateRequester(r) ==
    /\ stage[r] = "validating"
    /\ \E u \in Upstream :
          IF RequesterVerdict(u) = 0
          THEN Goto(r, "lookup") /\ UNCHANGED answer
          ELSE Finish(r, RequesterVerdict(u), None)
    /\ UNCHANGED <<orders, key, connected, outbox, created_at>>

\* The SELECT begins the transaction, so it checks a connection out.  On a
\* hit the route returns and the transaction stays open until CloseSession.
FindByExternalId(r) ==
    /\ stage[r] = "lookup"
    /\ CanConnect(r)
    /\ connected' = connected \cup {r}
    /\ IF orders[key[r]] # None
       THEN Finish(r, 200, orders[key[r]])
       ELSE Goto(r, "insert_order") /\ UNCHANGED answer
    /\ UNCHANGED <<orders, key, outbox, created_at>>

\* OrderRepository.create: INSERT ... at flush().  The unique index on
\* external_order_id raises IntegrityError against a committed row, and
\* makes the statement wait while another transaction holds the key.
CreateOrder(r) ==
    /\ stage[r] = "insert_order"
    /\ \/ orders[key[r]] # None /\ Goto(r, "rollback")
       \/ /\ orders[key[r]] = None
          /\ \A q \in Requests : Writing(q) => key[q] # key[r]
          /\ Goto(r, "insert_event")
    /\ UNCHANGED <<orders, key, answer, connected, outbox, created_at>>

\* OutboxRepository.create: created_at is the clock of this API process,
\* read before the commit, so rows may become visible out of its order.
CreateEvent(r) ==
    /\ stage[r] = "insert_event"
    /\ \E t \in Times : created_at' = [created_at EXCEPT ![r] = t]
    /\ Goto(r, "commit")
    /\ UNCHANGED <<orders, key, answer, connected, outbox>>

\* session.commit() returns the connection to the pool.
Commit(r) ==
    /\ stage[r] = "commit"
    /\ Apply(r)
    /\ Finish(r, 201, r)
    /\ connected' = connected \ {r}
    /\ UNCHANGED <<key, created_at>>

\* except IntegrityError: session.rollback() returns the connection too.
Rollback(r) ==
    /\ stage[r] = "rollback"
    /\ Goto(r, "relookup")
    /\ connected' = connected \ {r}
    /\ UNCHANGED <<orders, key, answer, outbox, created_at>>

\* The second find_by_external_id.  Finding nothing raises
\* DuplicateOrderException, whose handler answers 200 without an order.
FindAfterConflict(r) ==
    /\ stage[r] = "relookup"
    /\ CanConnect(r)
    /\ connected' = connected \cup {r}
    /\ Finish(r, 200, orders[key[r]])
    /\ UNCHANGED <<orders, key, outbox, created_at>>

Reply(r) ==
    /\ stage[r] = "reply"
    /\ Goto(r, "answered")
    /\ UNCHANGED <<orders, key, answer, connected, outbox, created_at>>

\* get_session's "async with" ends: what is left of the transaction is
\* rolled back and the connection goes back.  FastAPI runs this before or
\* after the response is sent, depending on its version.
CloseSession(r) ==
    /\ stage[r] \in {"reply", "answered"}
    /\ r \in connected
    /\ connected' = connected \ {r}
    /\ UNCHANGED <<orders, stage, key, answer, outbox, created_at>>

-----------------------------------------------------------------------------
(* Failures                                                                *)

\* QueuePool gives up after pool_timeout: TimeoutError, handled as 500.
PoolTimeout(r) ==
    /\ stage[r] \in {"lookup", "relookup"}
    /\ ~CanConnect(r)
    /\ Finish(r, 500, None)
    /\ UNCHANGED <<orders, key, connected, outbox, created_at>>

\* A statement other than COMMIT raises something that is no
\* IntegrityError: the transaction is gone and generic_error_handler
\* answers 500.
DatabaseError(r) ==
    /\ stage[r] \in {"lookup", "insert_order", "insert_event",
                     "rollback", "relookup"}
    /\ Finish(r, 500, None)
    /\ \/ UNCHANGED connected
       \/ CanConnect(r) /\ connected' = connected \cup {r}
    /\ UNCHANGED <<orders, key, outbox, created_at>>

\* COMMIT raises, before or after the server made it durable.
CommitFails(r) ==
    /\ stage[r] = "commit"
    /\ Apply(r) \/ UNCHANGED <<orders, outbox>>
    /\ Finish(r, 500, None)
    /\ UNCHANGED <<key, connected, created_at>>

\* The API process dies while it serves r: the server rolls r back, unless
\* the COMMIT had already reached it.
Crash(r) ==
    /\ stage[r] \notin {"new", "answered", "dropped"}
    /\ \/ stage[r] = "commit" /\ Apply(r)
       \/ UNCHANGED <<orders, outbox>>
    /\ Goto(r, "dropped")
    /\ connected' = connected \ {r}
    /\ UNCHANGED <<key, answer, created_at>>

-----------------------------------------------------------------------------
(* Specification                                                           *)

\* The event loop's own progress: everything but failures and arrivals.
Advance(r) ==
    \/ ValidateRequester(r) \/ FindByExternalId(r) \/ CreateOrder(r)
    \/ CreateEvent(r) \/ Commit(r) \/ Rollback(r)
    \/ FindAfterConflict(r) \/ Reply(r) \/ PoolTimeout(r)

ServiceStep(r) ==
    \/ BindRequest(r) \/ Advance(r) \/ CloseSession(r)
    \/ DatabaseError(r) \/ CommitFails(r) \/ Crash(r)

Init == OutboxInit /\ ServiceInit

Next == \E r \in Requests : ServiceStep(r)

\* uvicorn runs every ready coroutine, and httpx, asyncpg and the pool end
\* every await with a result or a timeout; nothing else is assumed.
Fairness ==
    \A r \in Requests : WF_vars(Advance(r)) /\ WF_vars(CloseSession(r))

Spec == Init /\ [][Next]_vars

FairSpec == Spec /\ Fairness

-----------------------------------------------------------------------------
(* Safety                                                                  *)

\* The type invariant of the request's state and of the outbox rows.
TypeOK == OutboxTypeOK /\ ServiceTypeOK

\* The transactional outbox: an order exists exactly when its event does,
\* whatever fails or crashes between the two inserts and the commit.
EventIffOrder ==
    \A r \in Requests : r \in Stored <=> \E k \in Keys : orders[k] = r

\* What the answer promises: a 200 or 201 that carries an order carries the
\* one committed order of the request's key, and a 201 says that this very
\* request created it.  So all clients of a key are given the same order,
\* and at most one of them a 201.
AnsweredOrderIsDurable ==
    \A r \in Requests :
        /\ answer[r].order # None => answer[r].order = orders[key[r]]
        /\ answer[r].status = 201 => answer[r].order = r

\* After IntegrityError the second search always finds the other order, so
\* DuplicateOrderException, which answers 200 without an order, is not
\* raised.  It relies on the INSERT waiting for the other transaction.
ConflictFindsOrder ==
    \A r \in Requests :
        /\ stage[r] \in {"rollback", "relookup"} => orders[key[r]] # None
        /\ answer[r].status = 200 => answer[r].order # None

\* A client told 400, 422 or 503 has left nothing behind, so that what it
\* sends next is a first attempt.  (A 500 promises no such thing.)
RefusedCreatesNothing ==
    \A r \in Requests :
        answer[r].status \in {400, 422, 503} => r \notin Stored

\* The pool is never exceeded, no request keeps a connection while it waits
\* for the requester service or for a connection, and none is without one
\* between its first INSERT and the end of its transaction: a slow upstream
\* cannot drain the pool, and no request waits for a connection while
\* another waits for the key it has inserted.
NoHoldAndWait ==
    /\ Cardinality(connected) <= PoolLimit
    /\ \A r \in connected :
          stage[r] \notin {"validating", "lookup", "relookup", "dropped"}
    /\ \A r \in Requests :
          stage[r] \in {"insert_order", "insert_event", "commit", "rollback"}
              => r \in connected

\* What makes the properties above inductive.  A request owns an order only
\* after its COMMIT and under its own key, is unanswered until its handler
\* ends, and writes alone: the key of a writing request has no order and no
\* second writer, which is all the IntegrityError path relies on.
WritersAlone ==
    /\ \A r \in Requests :
          /\ stage[r] \notin {"reply", "answered", "dropped"}
                => answer[r] = NoAnswer
          /\ Writing(r) => orders[key[r]] = None
    /\ \A q, r \in Requests :
          Writing(q) /\ Writing(r) /\ key[q] = key[r] => q = r
    /\ \A k \in Keys : orders[k] # None =>
          /\ key[orders[k]] = k
          /\ stage[orders[k]] \in {"reply", "answered", "dropped"}

-----------------------------------------------------------------------------
(* What a step may never do                                                *)

\* How far a request is; the two branches after the INSERT take as long.
Progress ==
    [new |-> 0, validating |-> 1, lookup |-> 2, insert_order |-> 3,
     insert_event |-> 4, rollback |-> 4, commit |-> 5, relookup |-> 5,
     reply |-> 6, answered |-> 7, dropped |-> 7]

\* No request makes an await twice: not a conflict, a failed statement, or
\* the other requests of its key send it back, so that whatever the others
\* do it has only so many steps left.
RequestsOnlyAdvance ==
    [][\A r \in Requests : stage'[r] # stage[r] =>
          Progress[stage[r]] < Progress[stage'[r]]]_vars

-----------------------------------------------------------------------------
(* Liveness, under FairSpec                                                *)

\* Every request that reaches the requester check is answered or dies with
\* its process, and its connection goes back to the pool on every error path:
\* neither the pool, nor the wait for a key, nor the conflict path can keep it.
EveryRequestSettles ==
    \A r \in Requests :
        stage[r] = "validating"
            ~> stage[r] \in {"answered", "dropped"} /\ r \notin connected

-----------------------------------------------------------------------------
(* Refinement                                                              *)

\* To its clients the service is an atomic map from idempotency keys to
\* orders: lookups, inserts, conflicts and rollbacks are stutters or happen
\* in one instant, and the event appears in the instant of the order.
Abstract == INSTANCE IdempotentOrders WITH events <- Stored

ImplementsIdempotentOrders == Abstract!Spec

\* No later request, retry, failure or crash takes back what a client was
\* told, or replaces the order of a key (see IdempotentOrders).
PromisesAreFinal == Abstract!PromisesAreFinal
=============================================================================
