--------------------------- MODULE RequestPipeline ---------------------------
(***************************************************************************)
(* What surrounds OrderService in the API process: the middleware that     *)
(* gives every request a correlation id, the route and the exception       *)
(* handlers that read it back from a context variable, and the counters    *)
(* of app/observability/metrics.py.                                        *)
(*                                                                         *)
(* The id is written once and read three times, with other requests of the *)
(* same event loop in between: when the route starts (for the event), when *)
(* a handler builds an error, and when the middleware sees the response.   *)
(* The handler of Exception runs in Starlette's ServerErrorMiddleware,     *)
(* outside the correlation middleware, which never sees its response.      *)
(***************************************************************************)
EXTENDS OutboxTable

CONSTANTS
    Keys, None, PoolLimit,  \* of OrderService
    ClientIds,              \* values of X-Correlation-ID a client may send
    Empty,                  \* the header is there, with an empty value
    Unknown,                \* "unknown"
    Unset                   \* no id yet

ASSUME PipelineAssumption ==
    /\ None \notin Requests \cup Keys
    /\ PoolLimit \in Nat \ {0}
    /\ Unset \notin ClientIds \cup Requests \cup {Empty, Unknown}

VARIABLES
    orders, stage, key, answer, connected,  \* of OrderService
    correlation,    \* the id dispatch() holds in its local variable
    context,        \* the context variable, as the request's task sees it
    event_id,       \* the id in the payload of the event to be written
    body_id,        \* the id in the body of an error response
    header,         \* X-Correlation-ID of the response
    timed,          \* the requests in http_request_duration_seconds
    counters        \* the increments of orders_*_total made so far

API == INSTANCE OrderService

pipelineVars ==
    <<correlation, context, event_id, body_id, header, timed, counters>>

vars == <<outbox, created_at, orders, stage, key, answer, connected, pipelineVars>>

-----------------------------------------------------------------------------
(* Types and initial state                                                 *)

\* The uuid4 drawn for request r is r itself: no two requests draw the same.
Ids == ClientIds \cup Requests \cup {Empty}

\* orders_failed_total has one counter per error_type.
Counters == {"created", "idempotent", "validation_error",
             "requester_not_found", "requester_unavailable", "internal_error"}

PipelineTypeOK ==
    /\ correlation \in [Requests -> Ids \cup {Unset}]
    /\ context \in [Requests -> Ids \cup {Unset}]
    /\ event_id \in [Requests -> Ids \cup {Unknown, Unset}]
    /\ body_id \in [Requests -> Ids \cup {Unknown, Unset}]
    /\ header \in [Requests -> Ids \cup {Unset}]
    /\ timed \subseteq Requests
    /\ counters \in [Counters -> Nat]

Init ==
    /\ OutboxInit
    /\ API!ServiceInit
    /\ correlation = [r \in Requests |-> Unset]
    /\ context = [r \in Requests |-> Unset]
    /\ event_id = [r \in Requests |-> Unset]
    /\ body_id = [r \in Requests |-> Unset]
    /\ header = [r \in Requests |-> Unset]
    /\ timed = {}
    /\ counters = [c \in Counters |-> 0]

-----------------------------------------------------------------------------
(* Helpers                                                                 *)

\* get_correlation_id() or "unknown": the empty string is false in Python.
OrUnknown(id) == IF id \in {Empty, Unset} THEN Unknown ELSE id

\* The counter each response increments.  (DuplicateOrderException, which
\* would answer 200 without an order and count nowhere, is never raised:
\* OrderService!ConflictFindsOrder.)
CounterOf(status) ==
    CASE status = 201 -> "created"
      [] status = 200 -> "idempotent"
      [] status = 400 -> "validation_error"
      [] status = 422 -> "requester_not_found"
      [] status = 503 -> "requester_unavailable"
      [] status = 500 -> "internal_error"

\* r's handler has produced its answer in this step.
Answers(r) == answer'[r] # answer[r]

Errs(r) == Answers(r) /\ answer'[r].status \notin {200, 201}

\* r's response leaves in this step.
Sends(r) == stage[r] = "reply" /\ stage'[r] = "answered"

Count(c) == counters' = [counters EXCEPT ![c] = @ + 1]

-----------------------------------------------------------------------------
(* Slips: each is a plausible wrong version of the definition its comment  *)
(* names.  No specification uses them; the properties below reject them.   *)

\* SetContext, with a module global in place of the ContextVar.
SetContextGlobally(r, id) == context' = [q \in Requests |-> id]

\* Meter, with orders_created_total incremented before the commit.
MeterEarly(r) ==
    IF stage[r] = "insert_event" /\ stage'[r] = "commit" THEN Count("created")
    ELSE IF Answers(r) /\ answer'[r].status # 201
    THEN Count(CounterOf(answer'[r].status))
    ELSE UNCHANGED counters

\* Finalize, with the id read back from the context like everywhere else.
FinalizeReread(r) ==
    IF Sends(r) /\ answer[r].status # 500
    THEN /\ header' = [header EXCEPT ![r] = OrUnknown(context[r])]
         /\ timed' = timed \cup {r}
    ELSE UNCHANGED <<header, timed>>

-----------------------------------------------------------------------------
(* The request                                                             *)

SetContext(r, id) == context' = [context EXCEPT ![r] = id]

\* CorrelationIdMiddleware.dispatch up to call_next.
Dispatch(r) ==
    /\ stage[r] = "new" /\ correlation[r] = Unset
    /\ \E id \in ClientIds \cup {Empty, r} :
          /\ correlation' = [correlation EXCEPT ![r] = id]
          /\ SetContext(r, id)
    /\ UNCHANGED <<outbox, created_at, orders, stage, key, answer, connected,
                   event_id, body_id, header, timed, counters>>

\* The route reads the context before it awaits anything, and passes the id
\* on to the payload.
Trace(r) ==
    event_id' = IF stage'[r] = "validating" /\ stage[r] = "new"
                THEN [event_id EXCEPT ![r] = OrUnknown(context[r])]
                ELSE event_id

\* Every exception handler reads the context again, when it builds the body.
Explain(r) ==
    body_id' = IF Errs(r)
               THEN [body_id EXCEPT ![r] = OrUnknown(context[r])]
               ELSE body_id

\* The route or the handler increments its counter once, with the answer.
Meter(r) ==
    IF Answers(r) THEN Count(CounterOf(answer'[r].status))
    ELSE UNCHANGED counters

\* dispatch() after call_next.  generic_error_handler answers outside it.
Finalize(r) ==
    IF Sends(r) /\ answer[r].status # 500
    THEN /\ header' = [header EXCEPT ![r] = correlation[r]]
         /\ timed' = timed \cup {r}
    ELSE UNCHANGED <<header, timed>>

\* A step of the service, with what the API process adds to it.
Serve(r) ==
    /\ correlation[r] # Unset
    /\ API!ServiceStep(r)
    /\ Trace(r) /\ Explain(r) /\ Meter(r) /\ Finalize(r)
    /\ UNCHANGED <<correlation, context>>

Next == \E r \in Requests : Dispatch(r) \/ Serve(r)

Spec == Init /\ [][Next]_vars

-----------------------------------------------------------------------------
(* Safety                                                                  *)

\* The type invariant of the pipeline.
TypeOK == PipelineTypeOK

\* However requests interleave, no request carries another's id.  One that
\* came with an id that is not empty, or for which the middleware drew one,
\* finds that id in its event, in the body of its error and in its header; the
\* event and the body are never without it, and the header is, with the sample
\* of the duration, only in a 500.  One that came with an empty id has "unknown"
\* in its event and in the body, and the empty id in its header.  The documents
\* promise more, without these two exceptions: EveryResponseIsTraced and
\* EventCarriesHeader below, which the code does not keep.
OneTracePerRequest ==
    \A r \in Requests :
        /\ correlation[r] \notin {Unset, Empty} =>
              /\ {event_id[r], body_id[r], header[r]} \subseteq {Unset, correlation[r]}
              /\ r \in Stored => event_id[r] = correlation[r]
              /\ answer[r].status \notin {0, 200, 201} => body_id[r] = correlation[r]
              /\ stage[r] = "answered" /\ answer[r].status # 500 =>
                    header[r] = correlation[r] /\ r \in timed
        /\ correlation[r] = Empty =>
              /\ {event_id[r], body_id[r]} \subseteq {Unset, Unknown}
              /\ header[r] \in {Unset, Empty}

\* The increments are the answers: each answer is counted once, under its
\* kind, and the orders counted as created never exceed the durable ones, even
\* when a COMMIT fails.  (Of the increments made: the registry of a process
\* starts from 0 again when the process does.)
CountersAreAnswers ==
    /\ \A status \in API!HttpStatuses :
          counters[CounterOf(status)]
              = Cardinality({r \in Requests : answer[r].status = status})
    /\ counters["created"] <= Cardinality({k \in Keys : orders[k] # None})

-----------------------------------------------------------------------------
(* What the repository's documents say of the pipeline and its code does   *)
(* not                                                                     *)

\* middleware.py: the middleware "Returns in the response header
\* X-Correlation-ID" and "Records HTTP duration metrics".  A 500 has no such
\* header, and no sample in the duration histogram.
EveryResponseIsTraced ==
    \A r \in Requests : stage[r] = "answered" =>
        header[r] = correlation[r] /\ r \in timed

\* README.md, Correlation ID: "o mesmo valor e reutilizado", in the payload
\* as in the header.  An empty header comes back empty, and goes into the
\* event as "unknown".
EventCarriesHeader ==
    \A r \in Requests :
        r \in Stored /\ header[r] # Unset => event_id[r] = header[r]
=============================================================================
