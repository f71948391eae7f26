------------------------ MODULE RequestPipelineProofs ------------------------
(***************************************************************************)
(* Theorems of RequestPipeline, for any requests, keys and header values.  *)
(***************************************************************************)
EXTENDS RequestPipeline, FiniteSetTheorems, TLAPS

S == INSTANCE OrderServiceProofs

\* API and S are the same specification; S has the theorems.
LEMMA SameService ==
    /\ S!Init <=> OutboxInit /\ API!ServiceInit
    /\ \A r : API!ServiceStep(r) <=> S!ServiceStep(r)
BY Zenon
   DEF OutboxInit, S!OutboxInit, S!Init, API!ServiceInit,
       S!ServiceInit, API!NoAnswer, S!NoAnswer, API!ServiceStep,
       S!ServiceStep, API!Advance, S!Advance, API!BindRequest,
       S!BindRequest, API!ValidateRequester, S!ValidateRequester,
       API!FindByExternalId, S!FindByExternalId, API!CreateOrder,
       S!CreateOrder, API!CreateEvent, S!CreateEvent, API!Commit,
       S!Commit, API!Rollback, S!Rollback, API!FindAfterConflict,
       S!FindAfterConflict, API!Reply, S!Reply, API!PoolTimeout,
       S!PoolTimeout, API!CloseSession, S!CloseSession,
       API!DatabaseError, S!DatabaseError, API!CommitFails,
       S!CommitFails, API!Crash, S!Crash, API!Upstream, S!Upstream,
       API!RequesterVerdict, S!RequesterVerdict, API!Writing,
       S!Writing, API!CanConnect, S!CanConnect, API!Goto, S!Goto,
       API!Finish, S!Finish, API!Apply, S!Apply, API!Cardinality,
       S!Cardinality

\* The stages at which a request is in the hands of the route.
Routed == {"validating", "lookup", "insert_order", "insert_event", "commit",
           "rollback", "relookup"}

\* What a step of the service does to its request and to the others: only
\* BindRequest enters the route, only a COMMIT writes a row, and only an answer
\* that is ready is sent.
LEMMA StepOfService ==
    ASSUME S!TypeOK, NEW r \in Requests, S!ServiceStep(r)
    PROVE  /\ answer' \in [Requests -> S!Answers]
           /\ \A q \in Requests \ {r} : /\ stage'[q] = stage[q]
                                        /\ answer'[q] = answer[q]
                                        /\ outbox'[q] = outbox[q]
           /\ stage'[r] \in Routed =>
                 \/ stage[r] \in Routed
                 \/ stage[r] = "new" /\ stage'[r] = "validating"
           /\ outbox'[r] # outbox[r] => stage[r] = "commit"
           /\ stage'[r] = "answered" =>
                 stage[r] \in {"reply", "answered"} /\ answer'[r] = answer[r]
<1> USE DEF S!TypeOK, S!OutboxTypeOK, S!ServiceTypeOK, S!Goto, S!Finish, Routed
<1>1. S!TypeOK'
  BY S!NextTypeOK, PipelineAssumption, TimesAssumption DEF S!Next
<1>2. CASE S!BindRequest(r) \/ S!ValidateRequester(r) \/ S!FindByExternalId(r)
  BY <1>1, <1>2 DEF S!BindRequest, S!ValidateRequester, S!FindByExternalId
<1>3. CASE S!CreateOrder(r) \/ S!CreateEvent(r) \/ S!Rollback(r)
           \/ S!FindAfterConflict(r) \/ S!Reply(r) \/ S!PoolTimeout(r)
           \/ S!CloseSession(r) \/ S!DatabaseError(r)
  BY <1>1, <1>3
     DEF S!CreateOrder, S!CreateEvent, S!Rollback, S!FindAfterConflict,
         S!Reply, S!PoolTimeout, S!CloseSession, S!DatabaseError
<1>4. CASE S!Commit(r) \/ S!CommitFails(r) \/ S!Crash(r)
  BY <1>1, <1>4 DEF S!Commit, S!CommitFails, S!Crash, S!Apply
<1> QED
  BY <1>2, <1>3, <1>4 DEF S!ServiceStep, S!Advance

\* An answer that is given is a response.
LEMMA AnswerGiven ==
    ASSUME S!TypeOK, NEW r \in Requests, S!ServiceStep(r),
           answer'[r] # answer[r]
    PROVE  answer'[r].status \in S!HttpStatuses
<1> USE DEF S!Finish, S!HttpStatuses, S!TypeOK, S!ServiceTypeOK
<1>1. \/ answer' = answer
      \/ \E status \in S!HttpStatuses : \E order :
            answer' = [answer EXCEPT ![r] = [status |-> status, order |-> order]]
  <2>1. CASE S!ValidateRequester(r)
    <3>1. PICK u \in S!Upstream :
             \/ answer' = answer
             \/ /\ S!RequesterVerdict(u) # 0
                /\ S!Finish(r, S!RequesterVerdict(u), None)
      BY <2>1 DEF S!ValidateRequester
    <3>2. S!RequesterVerdict(u) \in {0, 422, 500, 503}
      BY S!VerdictType, PipelineAssumption, TimesAssumption
    <3> QED
      BY <3>1, <3>2
  <2>2. CASE S!BindRequest(r) \/ S!FindByExternalId(r)
    BY <2>2 DEF S!BindRequest, S!FindByExternalId
  <2>3. CASE S!CreateOrder(r) \/ S!CreateEvent(r) \/ S!Rollback(r)
             \/ S!Reply(r) \/ S!CloseSession(r) \/ S!Crash(r)
    BY <2>3
       DEF S!CreateOrder, S!CreateEvent, S!Rollback, S!Reply, S!CloseSession,
           S!Crash
  <2>4. CASE S!FindAfterConflict(r) \/ S!PoolTimeout(r) \/ S!DatabaseError(r)
             \/ S!Commit(r) \/ S!CommitFails(r)
    BY <2>4
       DEF S!FindAfterConflict, S!PoolTimeout, S!DatabaseError, S!Commit,
           S!CommitFails
  <2> QED
    BY <2>1, <2>2, <2>3, <2>4 DEF S!ServiceStep, S!Advance
<1> QED
  BY <1>1

\* Under the pipeline the service runs as it does alone, so what is proved of
\* its specification holds here.
LEMMA RunsService == Spec => S!Spec
<1>1. Init => S!Init
  BY SameService DEF Init
<1>2. [Next]_vars => [S!Next]_(S!vars)
  BY SameService
     DEF Next, Dispatch, Serve, vars, pipelineVars, S!Next, S!vars,
         S!serviceVars
<1> QED
  BY <1>1, <1>2, PTL DEF Spec, S!Spec

\* The service under the pipeline keeps its types.
LEMMA ServiceTyped == Spec => []S!TypeOK
BY RunsService, S!TypeCorrect, PipelineAssumption, TimesAssumption, PTL

\* The service under the pipeline keeps the promises of its answers.
LEMMA ServiceIdempotent == Spec => []S!Idempotent
BY RunsService, S!IdempotencyCorrect, PipelineAssumption, TimesAssumption, PTL

-----------------------------------------------------------------------------
(* Type correctness                                                        *)

\* Every response counts under one of the counters.
LEMMA CounterType == \A status \in S!HttpStatuses : CounterOf(status) \in Counters
BY DEF S!HttpStatuses, CounterOf, Counters

\* Every step of the process keeps the types.
LEMMA NextTypeOK ==
    S!TypeOK /\ TypeOK /\ [Next]_vars => TypeOK'
<1> SUFFICES ASSUME S!TypeOK, TypeOK, [Next]_vars PROVE TypeOK'
  OBVIOUS
<1> USE DEF TypeOK, PipelineTypeOK, Ids, OrUnknown
<1>1. CASE UNCHANGED vars
  BY <1>1 DEF vars, pipelineVars
<1>2. ASSUME NEW r \in Requests, Dispatch(r) PROVE TypeOK'
  BY <1>2 DEF Dispatch, SetContext
<1>3. ASSUME NEW r \in Requests, Serve(r) PROVE TypeOK'
  <2>1. /\ correlation' \in [Requests -> Ids \cup {Unset}]
        /\ context' \in [Requests -> Ids \cup {Unset}]
    BY <1>3 DEF Serve
  <2>2. event_id' \in [Requests -> Ids \cup {Unknown, Unset}]
    BY <1>3 DEF Serve, Trace
  <2>3. body_id' \in [Requests -> Ids \cup {Unknown, Unset}]
    BY <1>3 DEF Serve, Explain
  <2>4. header' \in [Requests -> Ids \cup {Unset}] /\ timed' \subseteq Requests
    BY <1>3 DEF Serve, Finalize
  <2>5. counters' \in [Counters -> Nat]
    <3>1. CASE ~Answers(r)
      BY <1>3, <3>1 DEF Serve, Meter
    <3>2. CASE Answers(r)
      <4>1. answer'[r].status \in S!HttpStatuses
        BY <1>3, <3>2, AnswerGiven, SameService DEF Serve, Answers
      <4>2. CounterOf(answer'[r].status) \in Counters
        BY <4>1, CounterType
      <4> QED
        BY <1>3, <3>2, <4>2 DEF Serve, Meter, Count
    <3> QED
      BY <3>1, <3>2
  <2> QED
    BY <2>1, <2>2, <2>3, <2>4, <2>5
<1> QED
  BY <1>1, <1>2, <1>3 DEF Next

\* Every reachable state of the pipeline is well typed.
THEOREM TypeCorrect == Spec => []TypeOK
<1>1. Init => TypeOK
  BY DEF Init, TypeOK, PipelineTypeOK
<1>2. S!TypeOK /\ TypeOK /\ [Next]_vars => TypeOK'
  BY NextTypeOK
<1> QED
  BY <1>1, <1>2, ServiceTyped, PTL DEF Spec

-----------------------------------------------------------------------------
(* One trace per request                                                   *)

\* What each place that shows the id may hold, with both kinds of request in
\* one: a place that reads the context turns an empty id into "unknown".
Traced ==
    \A r \in Requests :
        /\ event_id[r] \in {Unset, OrUnknown(correlation[r])}
        /\ body_id[r] \in {Unset, OrUnknown(correlation[r])}
        /\ header[r] \in {Unset, correlation[r]}
        /\ answer[r].status \notin {0, 200, 201} => body_id[r] # Unset
        /\ r \in Stored => event_id[r] # Unset
        /\ stage[r] = "answered" /\ answer[r].status # 500 =>
              header[r] = correlation[r] /\ r \in timed

\* What makes OneTracePerRequest inductive: the context of a task is the id
\* its dispatch drew, nothing is traced before that, and whoever is past the
\* start of the route has the id for its event.
TraceInv ==
    /\ \A r \in Requests :
          /\ context[r] = correlation[r]
          /\ correlation[r] = Unset =>
                /\ stage[r] = "new"
                /\ event_id[r] = Unset /\ body_id[r] = Unset /\ header[r] = Unset
          /\ stage[r] \in Routed => event_id[r] # Unset
    /\ Traced

\* Every step of the process keeps it, for the reads of one request only see
\* what its own dispatch wrote.
LEMMA NextTraceInv ==
    S!TypeOK /\ TypeOK /\ TraceInv /\ [Next]_vars => TraceInv'
<1> SUFFICES ASSUME S!TypeOK, TypeOK, TraceInv, [Next]_vars PROVE TraceInv'
  OBVIOUS
<1> USE PipelineAssumption
    DEF TypeOK, PipelineTypeOK, TraceInv, Traced, Stored
<1>1. CASE UNCHANGED vars
  BY <1>1 DEF vars, pipelineVars
<1>2. ASSUME NEW r \in Requests, Dispatch(r) PROVE TraceInv'
  BY <1>2 DEF Dispatch, SetContext, Ids
<1>3. ASSUME NEW r \in Requests, Serve(r) PROVE TraceInv'
  <2>1. /\ S!ServiceStep(r)
        /\ correlation[r] # Unset /\ correlation' = correlation
        /\ context' = context
    BY <1>3, SameService DEF Serve
  <2>2. OrUnknown(context[r]) # Unset
    BY DEF OrUnknown, Ids
  <2>3. \A q \in Requests \ {r} :
           /\ event_id'[q] = event_id[q] /\ body_id'[q] = body_id[q]
           /\ header'[q] = header[q] /\ stage'[q] = stage[q]
           /\ answer'[q] = answer[q] /\ outbox'[q] = outbox[q]
    BY <1>3, <2>1, StepOfService DEF Serve, Trace, Explain, Finalize
  <2>4. event_id'[r] = event_id[r] \/ event_id'[r] = OrUnknown(context[r])
    BY <1>3 DEF Serve, Trace
  <2>5. body_id'[r] = body_id[r] \/ body_id'[r] = OrUnknown(context[r])
    BY <1>3 DEF Serve, Explain
  <2>6. header'[r] \in {header[r], correlation[r]}
    BY <1>3 DEF Serve, Finalize
  <2>7. stage'[r] \in Routed => event_id'[r] # Unset
    BY <1>3, <2>1, <2>2, <2>4, StepOfService DEF Serve, Trace
  <2>8. answer'[r].status \notin {0, 200, 201} => body_id'[r] # Unset
    BY <1>3, <2>2, <2>5 DEF Serve, Explain, Errs, Answers
  <2>9. outbox'[r] # "absent" => event_id'[r] # Unset
    BY <2>1, <2>2, <2>4, StepOfService DEF Routed
  <2>10. stage'[r] = "answered" /\ answer'[r].status # 500 =>
            header'[r] = correlation'[r] /\ r \in timed'
    BY <1>3, <2>1, StepOfService DEF Serve, Finalize, Sends
  <2>11. timed \subseteq timed'
    BY <1>3 DEF Serve, Finalize
  <2>12. Traced'
    BY <2>1, <2>2, <2>3, <2>4, <2>5, <2>6, <2>8, <2>9, <2>10, <2>11
  <2> QED
    BY <2>1, <2>2, <2>3, <2>4, <2>5, <2>6, <2>7, <2>12
<1> QED
  BY <1>1, <1>2, <1>3 DEF Next

\* For any number of concurrent requests, whatever headers they come with, no
\* request carries another's id; one with an id that is not empty finds it in
\* its event, its error and (but for a 500) its header, and one with an empty
\* id has "unknown" in the first two.
THEOREM OneTraceCorrect == Spec => []OneTracePerRequest
<1>1. Init => TraceInv
  BY DEF Init, OutboxInit, API!ServiceInit, API!NoAnswer, TraceInv,
         Traced, Stored, Routed
<1>2. S!TypeOK /\ TypeOK /\ TraceInv /\ [Next]_vars => TraceInv'
  BY NextTraceInv
<1>3. TraceInv => OneTracePerRequest
  BY DEF TraceInv, Traced, OrUnknown, OneTracePerRequest
<1> QED
  BY <1>1, <1>2, <1>3, ServiceTyped, TypeCorrect, PTL DEF Spec

-----------------------------------------------------------------------------
(* The counters                                                            *)

\* A request is answered once: whoever is answered now had no answer yet.
LEMMA AnsweredOnce ==
    ASSUME S!TypeOK, S!Idempotent, NEW r \in Requests, S!ServiceStep(r),
           answer'[r] # answer[r]
    PROVE  answer[r].status = 0
<1>1. stage[r] \notin {"reply", "answered", "dropped"}
  <2>1. CASE S!BindRequest(r) \/ S!ValidateRequester(r)
             \/ S!FindByExternalId(r) \/ S!FindAfterConflict(r)
             \/ S!PoolTimeout(r) \/ S!DatabaseError(r)
    BY <2>1
       DEF S!BindRequest, S!ValidateRequester, S!FindByExternalId,
           S!FindAfterConflict, S!PoolTimeout, S!DatabaseError
  <2>2. CASE S!Commit(r) \/ S!CommitFails(r)
    BY <2>2 DEF S!Commit, S!CommitFails
  <2>3. CASE S!CreateOrder(r) \/ S!CreateEvent(r) \/ S!Rollback(r)
             \/ S!Reply(r) \/ S!CloseSession(r) \/ S!Crash(r)
    BY <2>3
       DEF S!CreateOrder, S!CreateEvent, S!Rollback, S!Reply, S!CloseSession,
           S!Crash
  <2> QED
    BY <2>1, <2>2, <2>3 DEF S!ServiceStep, S!Advance
<1> QED
  BY <1>1 DEF S!Idempotent, S!WritersAlone, S!NoAnswer

\* A step of r makes at most one order durable, the one of r's key.
LEMMA OneOrder ==
    ASSUME NEW r \in Requests, S!ServiceStep(r)
    PROVE  orders' = orders \/ orders' = [orders EXCEPT ![key[r]] = r]
<1>1. CASE S!BindRequest(r) \/ S!ValidateRequester(r)
           \/ S!FindByExternalId(r) \/ S!FindAfterConflict(r)
           \/ S!PoolTimeout(r) \/ S!DatabaseError(r)
           \/ S!CreateOrder(r) \/ S!CreateEvent(r) \/ S!Rollback(r)
           \/ S!Reply(r) \/ S!CloseSession(r)
  BY <1>1
     DEF S!BindRequest, S!ValidateRequester, S!FindByExternalId,
         S!FindAfterConflict, S!PoolTimeout, S!DatabaseError, S!CreateOrder,
         S!CreateEvent, S!Rollback, S!Reply, S!CloseSession
<1>2. CASE S!Commit(r) \/ S!CommitFails(r) \/ S!Crash(r)
  BY <1>2 DEF S!Commit, S!CommitFails, S!Crash, S!Apply
<1> QED
  BY <1>1, <1>2 DEF S!ServiceStep, S!Advance

AnsweredWith(status) == {r \in Requests : answer[r].status = status}

DurableKeys == {k \in Keys : orders[k] # None}

\* The inductive form of CountersAreAnswers.  There may be infinitely many
\* requests and keys; what makes the sizes mean something is that only
\* finitely many have been answered so far.
CounterInv ==
    /\ \A status \in S!HttpStatuses :
          /\ IsFiniteSet(AnsweredWith(status))
          /\ counters[CounterOf(status)] = Cardinality(AnsweredWith(status))
    /\ IsFiniteSet(DurableKeys)

\* No two kinds of response share a counter.
LEMMA CountersDiffer ==
    \A s, t \in S!HttpStatuses : CounterOf(s) = CounterOf(t) => s = t
BY DEF S!HttpStatuses, CounterOf

\* Nothing is answered, durable or counted at first.
LEMMA InitCounterInv == Init => CounterInv
<1> SUFFICES ASSUME Init PROVE CounterInv
  OBVIOUS
<1>1. \A status \in S!HttpStatuses : AnsweredWith(status) = {}
  BY DEF Init, API!ServiceInit, API!NoAnswer, AnsweredWith, S!HttpStatuses
<1>2. DurableKeys = {}
  BY DEF Init, API!ServiceInit, DurableKeys
<1>3. \A status \in S!HttpStatuses : counters[CounterOf(status)] = 0
  BY CounterType DEF Init
<1> QED
  BY <1>1, <1>2, <1>3, FS_EmptySet DEF CounterInv

\* An answer joins one set of answered requests and moves one counter.
LEMMA AnswerCounted ==
    ASSUME S!TypeOK, S!Idempotent, TypeOK, CounterInv,
           NEW r \in Requests, Serve(r), NEW status \in S!HttpStatuses
    PROVE  /\ IsFiniteSet(AnsweredWith(status)')
           /\ counters'[CounterOf(status)] = Cardinality(AnsweredWith(status)')
<1>1. /\ S!ServiceStep(r)
      /\ Meter(r)
  BY SameService DEF Serve
<1>2. /\ answer \in [Requests -> S!Answers]
      /\ answer' \in [Requests -> S!Answers]
      /\ \A q \in Requests \ {r} : answer'[q] = answer[q]
  BY <1>1, StepOfService DEF S!TypeOK, S!ServiceTypeOK
<1>3. /\ IsFiniteSet(AnsweredWith(status))
      /\ counters[CounterOf(status)] = Cardinality(AnsweredWith(status))
  BY DEF CounterInv
<1>4. counters \in [Counters -> Nat] /\ CounterOf(status) \in Counters
  BY CounterType DEF TypeOK, PipelineTypeOK
<1>5. CASE ~Answers(r)
  <2>1. AnsweredWith(status)' = AnsweredWith(status)
    BY <1>2, <1>5 DEF AnsweredWith, Answers
  <2>2. counters' = counters
    BY <1>1, <1>5 DEF Meter
  <2> QED
    BY <1>3, <2>1, <2>2
<1>6. CASE Answers(r)
  <2> DEFINE given == answer'[r].status
  <2>1. given \in S!HttpStatuses /\ answer[r].status = 0
    BY <1>1, <1>6, AnswerGiven, AnsweredOnce DEF Answers
  <2>2. counters' = [counters EXCEPT ![CounterOf(given)] = @ + 1]
    BY <1>1, <1>6 DEF Meter, Count
  <2>3. r \notin AnsweredWith(status)
    BY <2>1 DEF AnsweredWith, S!HttpStatuses
  <2>4. CASE status = given
    <3>1. AnsweredWith(status)' = AnsweredWith(status) \cup {r}
      BY <1>2, <2>4 DEF AnsweredWith
    <3>2. counters'[CounterOf(status)] = counters[CounterOf(status)] + 1
      BY <1>4, <2>2, <2>4
    <3> QED
      BY <1>3, <2>3, <3>1, <3>2, FS_AddElement
  <2>5. CASE status # given
    <3>1. AnsweredWith(status)' = AnsweredWith(status)
      BY <1>2, <2>3, <2>5 DEF AnsweredWith
    <3>2. CounterOf(status) # CounterOf(given)
      BY <2>1, <2>5, CountersDiffer
    <3>3. counters'[CounterOf(status)] = counters[CounterOf(status)]
      BY <1>4, <2>2, <3>2
    <3> QED
      BY <1>3, <3>1, <3>3
  <2> QED
    BY <2>4, <2>5
<1> QED
  BY <1>5, <1>6

\* Every step of the process keeps the counts.
LEMMA NextCounterInv ==
    S!TypeOK /\ S!Idempotent /\ TypeOK /\ CounterInv /\ [Next]_vars
        => CounterInv'
<1> SUFFICES ASSUME S!TypeOK, S!Idempotent, TypeOK, CounterInv, [Next]_vars
             PROVE  CounterInv'
  OBVIOUS
<1>1. CASE UNCHANGED <<answer, orders, counters>>
  BY <1>1 DEF CounterInv, AnsweredWith, DurableKeys
<1>2. ASSUME NEW r \in Requests, Serve(r) PROVE CounterInv'
  <2>1. orders' = orders \/ orders' = [orders EXCEPT ![key[r]] = r]
    BY <1>2, SameService, OneOrder DEF Serve
  <2>2. DurableKeys' \subseteq DurableKeys \cup {key[r]}
    BY <2>1 DEF DurableKeys, S!TypeOK, S!ServiceTypeOK
  <2>3. IsFiniteSet(DurableKeys \cup {key[r]})
    BY FS_AddElement DEF CounterInv
  <2>4. IsFiniteSet(DurableKeys')
    BY <2>2, <2>3, FS_Subset
  <2>5. \A status \in S!HttpStatuses :
           /\ IsFiniteSet(AnsweredWith(status)')
           /\ counters'[CounterOf(status)] = Cardinality(AnsweredWith(status)')
    BY <1>2, AnswerCounted
  <2> QED
    BY <2>4, <2>5 DEF CounterInv
<1>3. CASE UNCHANGED vars
  BY <1>1, <1>3 DEF vars, pipelineVars
<1>4. ASSUME NEW r \in Requests, Dispatch(r) PROVE CounterInv'
  BY <1>1, <1>4 DEF Dispatch
<1> QED
  BY <1>2, <1>3, <1>4 DEF Next

\* Requests told 201 have different keys, each with a durable order.
LEMMA CreatedAreDurable ==
    ASSUME S!TypeOK, S!Idempotent, CounterInv
    PROVE  Cardinality(AnsweredWith(201)) <= Cardinality(DurableKeys)
<1> DEFINE f == [r \in AnsweredWith(201) |-> key[r]]
<1>1. ASSUME NEW r \in AnsweredWith(201)
      PROVE  key[r] \in Keys /\ orders[key[r]] = r /\ r # None
  <2>1. r \in Requests /\ answer[r].status = 201
    BY <1>1 DEF AnsweredWith
  <2>2. stage[r] # "new"
    BY <2>1 DEF S!Idempotent, S!WritersAlone, S!NoAnswer
  <2>3. key[r] \in Keys
    BY <2>1, <2>2 DEF S!TypeOK, S!ServiceTypeOK
  <2>4. r # None
    BY <2>1, PipelineAssumption
  <2> QED
    BY <2>1, <2>3, <2>4 DEF S!Idempotent, S!AnsweredOrderIsDurable
<1>2. f \in [AnsweredWith(201) -> DurableKeys]
  BY <1>1 DEF DurableKeys
<1>3. \A q, r \in AnsweredWith(201) : f[q] = f[r] => q = r
  BY <1>1
<1>4. f \in Injection(AnsweredWith(201), DurableKeys)
  BY <1>2, <1>3 DEF Injection, IsInjective
<1> QED
  BY <1>4, FS_Injection DEF CounterInv

\* For any number of concurrent requests, the counters on /metrics are the
\* answers given, and no order is counted as created that is not durable.
THEOREM CountersCorrect == Spec => []CountersAreAnswers
<1>1. Init => CounterInv
  BY InitCounterInv
<1>2. S!TypeOK /\ S!Idempotent /\ TypeOK /\ CounterInv /\ [Next]_vars
        => CounterInv'
  BY NextCounterInv
<1>3. S!TypeOK /\ S!Idempotent /\ CounterInv => CountersAreAnswers
  <2> SUFFICES ASSUME S!TypeOK, S!Idempotent, CounterInv
               PROVE  CountersAreAnswers
    OBVIOUS
  <2>1. S!HttpStatuses = API!HttpStatuses /\ 201 \in S!HttpStatuses
    BY DEF S!HttpStatuses, API!HttpStatuses
  <2>2. counters["created"] = Cardinality(AnsweredWith(201))
    BY <2>1 DEF CounterInv, CounterOf
  <2> QED
    BY <2>1, <2>2, CreatedAreDurable
       DEF CountersAreAnswers, CounterInv, AnsweredWith, DurableKeys
<1> QED
  BY <1>1, <1>2, <1>3, ServiceTyped, ServiceIdempotent, TypeCorrect, PTL DEF Spec
=============================================================================
