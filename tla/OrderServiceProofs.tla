------------------------- MODULE OrderServiceProofs -------------------------
(***************************************************************************)
(* Theorems of OrderService, for any sets of requests, keys and clock      *)
(* values and any pool size.                                               *)
(***************************************************************************)
EXTENDS OrderService, FiniteSetTheorems, TLAPS

-----------------------------------------------------------------------------
(* Type correctness                                                        *)

\* The requester service alone makes nobody believe in an order.
LEMMA VerdictType ==
    \A u \in Upstream : RequesterVerdict(u) \in {0, 422, 500, 503}
BY DEF Upstream, RequesterVerdict

\* The initial state is well typed.
LEMMA InitTypeOK == Init => TypeOK
BY DEF Init, OutboxInit, ServiceInit, TypeOK, OutboxTypeOK, ServiceTypeOK,
       Statuses, Stages, Answers, NoAnswer

\* A step of r leaves a well-typed stage and answer, those of others alone.
Typed(r) ==
    /\ answer' \in [Requests -> Answers]
    /\ stage' \in [Requests -> Stages]
    /\ stage'[r] # "new"
    /\ \A q \in Requests : q # r => stage'[q] = stage[q]

\* A response fits the type of answers.
LEMMA FinishType ==
    ASSUME ServiceTypeOK,
           NEW r \in Requests, NEW status \in HttpStatuses,
           NEW order \in Requests \cup {None},
           Finish(r, status, order)
    PROVE  Typed(r)
BY DEF Typed, ServiceTypeOK, Finish, Goto, Answers, Stages

\* Every step of the service keeps the types.
LEMMA NextTypeOK == TypeOK /\ [Next]_vars => TypeOK'
<1> SUFFICES ASSUME TypeOK, [Next]_vars PROVE TypeOK'
  OBVIOUS
<1> USE NoneAssumption
<1>1. CASE UNCHANGED vars
  BY <1>1 DEF TypeOK, OutboxTypeOK, ServiceTypeOK, vars, serviceVars
<1>2. ASSUME NEW r \in Requests, ServiceStep(r) PROVE TypeOK'
  <2> USE DEF TypeOK
  <2>1. CASE BindRequest(r)
    <3>1. PICK k \in Keys : key' = [key EXCEPT ![r] = k]
      BY <2>1 DEF BindRequest
    <3>2. key' \in [Requests -> Keys \cup {None}] /\ key'[r] \in Keys
          /\ \A q \in Requests : q # r => key'[q] = key[q]
      BY <3>1 DEF ServiceTypeOK
    <3>3. CASE Goto(r, "validating") /\ UNCHANGED answer
      BY <2>1, <3>2, <3>3
         DEF BindRequest, OutboxTypeOK, ServiceTypeOK, Goto, Stages
    <3>4. CASE Finish(r, 400, None)
      <4>1. Typed(r)
        BY <3>4, FinishType DEF HttpStatuses
      <4> QED
        BY <2>1, <3>2, <4>1 DEF BindRequest, OutboxTypeOK, ServiceTypeOK, Typed
    <3> QED
      BY <2>1, <3>3, <3>4 DEF BindRequest
  <2>2. CASE ValidateRequester(r)
    <3>1. PICK u \in Upstream :
             IF RequesterVerdict(u) = 0
             THEN Goto(r, "lookup") /\ UNCHANGED answer
             ELSE Finish(r, RequesterVerdict(u), None)
      BY <2>2 DEF ValidateRequester
    <3>2. Typed(r)
      <4>1. CASE RequesterVerdict(u) = 0
        BY <3>1, <4>1 DEF ServiceTypeOK, Goto, Stages, Typed
      <4>2. CASE RequesterVerdict(u) # 0
        <5>1. RequesterVerdict(u) \in HttpStatuses
          BY <4>2, VerdictType DEF HttpStatuses
        <5> QED
          BY <3>1, <4>2, <5>1, FinishType
      <4> QED
        BY <4>1, <4>2
    <3> QED
      BY <2>2, <3>2 DEF ValidateRequester, OutboxTypeOK, ServiceTypeOK, Typed
  <2>3. CASE FindByExternalId(r)
    <3>1. orders[key[r]] \in Requests \cup {None}
      BY <2>3 DEF FindByExternalId, ServiceTypeOK
    <3>2. Typed(r)
      <4>1. CASE orders[key[r]] # None
        BY <2>3, <3>1, <4>1, FinishType DEF FindByExternalId, HttpStatuses
      <4>2. CASE orders[key[r]] = None
        BY <2>3, <4>2 DEF FindByExternalId, ServiceTypeOK, Goto, Stages, Typed
      <4> QED
        BY <4>1, <4>2
    <3> QED
      BY <2>3, <3>2 DEF FindByExternalId, OutboxTypeOK, ServiceTypeOK, Typed
  <2>4. CASE CreateOrder(r)
    BY <2>4 DEF CreateOrder, Goto, OutboxTypeOK, ServiceTypeOK, Stages
  <2>5. CASE CreateEvent(r)
    BY <2>5, TimesAssumption
       DEF CreateEvent, Goto, OutboxTypeOK, ServiceTypeOK, Stages
  <2>6. CASE Commit(r)
    <3>1. Typed(r)
      BY <2>6, FinishType DEF Commit, HttpStatuses
    <3> QED
      BY <2>6, <3>1
         DEF Commit, Apply, OutboxTypeOK, ServiceTypeOK, Statuses, Typed
  <2>7. CASE Rollback(r)
    BY <2>7 DEF Rollback, Goto, OutboxTypeOK, ServiceTypeOK, Stages
  <2>8. CASE FindAfterConflict(r)
    <3>1. orders[key[r]] \in Requests \cup {None}
      BY <2>8 DEF FindAfterConflict, ServiceTypeOK
    <3>2. Typed(r)
      BY <2>8, <3>1, FinishType DEF FindAfterConflict, HttpStatuses
    <3> QED
      BY <2>8, <3>2 DEF FindAfterConflict, OutboxTypeOK, ServiceTypeOK, Typed
  <2>9. CASE Reply(r)
    BY <2>9 DEF Reply, Goto, OutboxTypeOK, ServiceTypeOK, Stages
  <2>10. CASE CloseSession(r)
    BY <2>10 DEF CloseSession, OutboxTypeOK, ServiceTypeOK
  <2>11. CASE PoolTimeout(r) \/ DatabaseError(r)
    <3>1. Typed(r)
      BY <2>11, FinishType DEF PoolTimeout, DatabaseError, HttpStatuses
    <3> QED
      BY <2>11, <3>1
         DEF PoolTimeout, DatabaseError, OutboxTypeOK, ServiceTypeOK, Typed
  <2>12. CASE CommitFails(r)
    <3>1. Typed(r)
      BY <2>12, FinishType DEF CommitFails, HttpStatuses
    <3> QED
      BY <2>12, <3>1
         DEF CommitFails, Apply, OutboxTypeOK, ServiceTypeOK, Statuses, Typed
  <2>13. CASE Crash(r)
    BY <2>13
       DEF Crash, Apply, Goto, OutboxTypeOK, ServiceTypeOK, Statuses, Stages
  <2> QED
    BY <1>2, <2>1, <2>2, <2>3, <2>4, <2>5, <2>6, <2>7, <2>8, <2>9, <2>10,
       <2>11, <2>12, <2>13 DEF ServiceStep, Advance
<1> QED
  BY <1>1, <1>2 DEF Next

\* Every reachable state of the service is well typed.
THEOREM TypeCorrect == Spec => []TypeOK
BY InitTypeOK, NextTypeOK, PTL DEF Spec

-----------------------------------------------------------------------------
(* Idempotency and the transactional outbox                                *)

\* The invariant that carries the answers' promises, beyond the types.
Idempotent ==
    /\ WritersAlone
    /\ EventIffOrder
    /\ AnsweredOrderIsDurable
    /\ ConflictFindsOrder
    /\ RefusedCreatesNothing

\* Initially there is no order, no event and no answer.
LEMMA InitIdempotent == Init => Idempotent
BY NoneAssumption
   DEF Init, OutboxInit, ServiceInit, Idempotent, WritersAlone, Writing,
       EventIffOrder, Stored, AnsweredOrderIsDurable, ConflictFindsOrder,
       RefusedCreatesNothing, NoAnswer

\* A transaction that takes effect, whether its client learns of it (201) or
\* not (500, or no answer): no other request writes under its key, so no
\* order is overwritten and no answer given before becomes wrong.
LEMMA ApplyKeepsIdempotent ==
    ASSUME TypeOK, Idempotent,
           NEW r \in Requests, stage[r] = "commit", Apply(r),
           NEW s \in {"reply", "dropped"}, Goto(r, s),
           NEW a,
           \/ a = NoAnswer
           \/ a = [status |-> 201, order |-> r]
           \/ a = [status |-> 500, order |-> None],
           answer' = [answer EXCEPT ![r] = a],
           UNCHANGED key
    PROVE  Idempotent'
<1> USE NoneAssumption
<1>1. /\ key[r] \in Keys
      /\ orders[key[r]] = None
      /\ \A q \in Requests : Writing(q) /\ key[q] = key[r] => q = r
  BY DEF TypeOK, ServiceTypeOK, Idempotent, WritersAlone, Writing
<1>2. /\ orders' = [orders EXCEPT ![key[r]] = r]
      /\ orders \in [Keys -> Requests \cup {None}]
      /\ outbox' = [outbox EXCEPT ![r] = "pending"]
      /\ outbox \in [Requests -> Statuses \cup {"absent"}]
      /\ stage' = [stage EXCEPT ![r] = s]
      /\ stage \in [Requests -> Stages]
      /\ answer \in [Requests -> Answers]
  BY DEF Apply, Goto, TypeOK, ServiceTypeOK, OutboxTypeOK
<1>3. WritersAlone'
  BY <1>1, <1>2 DEF Idempotent, WritersAlone, Writing, NoAnswer
<1>4. EventIffOrder'
  BY <1>1, <1>2 DEF Idempotent, EventIffOrder, Stored
<1>5. AnsweredOrderIsDurable'
  BY <1>1, <1>2 DEF Idempotent, AnsweredOrderIsDurable, NoAnswer
<1>6. ConflictFindsOrder'
  BY <1>1, <1>2 DEF Idempotent, ConflictFindsOrder, TypeOK, ServiceTypeOK, NoAnswer
<1>7. RefusedCreatesNothing'
  BY <1>1, <1>2 DEF Idempotent, RefusedCreatesNothing, Stored, NoAnswer
<1> QED
  BY <1>3, <1>4, <1>5, <1>6, <1>7 DEF Idempotent

\* A response that creates nothing: a refusal, or the order the key has.
LEMMA FinishKeepsIdempotent ==
    ASSUME TypeOK, Idempotent,
           NEW r \in Requests,
           stage[r] \notin {"new", "reply", "answered", "dropped"},
           NEW status \in {200, 422, 500, 503},
           NEW order \in Requests \cup {None},
           Finish(r, status, order),
           order # None => order = orders[key[r]],
           status = 200 => order # None,
           UNCHANGED <<orders, key, outbox>>
    PROVE  Idempotent'
<1> USE NoneAssumption
<1>1. /\ stage' = [stage EXCEPT ![r] = "reply"]
      /\ stage \in [Requests -> Stages]
      /\ answer' = [answer EXCEPT ![r] = [status |-> status, order |-> order]]
      /\ answer \in [Requests -> Answers]
      /\ orders' = orders /\ key' = key /\ outbox' = outbox
  BY DEF Finish, Goto, TypeOK, ServiceTypeOK
<1>2. \A k \in Keys : orders[k] # r
  BY DEF Idempotent, WritersAlone
<1>3. WritersAlone'
  BY <1>1 DEF Idempotent, WritersAlone, Writing, TypeOK, ServiceTypeOK
<1>4. EventIffOrder'
  BY <1>1 DEF Idempotent, EventIffOrder, Stored
<1>5. AnsweredOrderIsDurable'
  BY <1>1 DEF Idempotent, AnsweredOrderIsDurable
<1>6. ConflictFindsOrder'
  BY <1>1 DEF Idempotent, ConflictFindsOrder
<1>7. RefusedCreatesNothing'
  BY <1>1, <1>2 DEF Idempotent, RefusedCreatesNothing, EventIffOrder, Stored
<1> QED
  BY <1>3, <1>4, <1>5, <1>6, <1>7 DEF Idempotent

\* A step of r's transaction that neither ends it nor answers.
LEMMA GotoKeepsIdempotent ==
    ASSUME TypeOK, Idempotent,
           NEW r \in Requests, NEW s \in Stages, Goto(r, s),
           s \notin {"reply", "answered", "dropped"} =>
               stage[r] \notin {"reply", "answered", "dropped"},
           s \in {"insert_event", "commit"} =>
               \/ Writing(r)
               \/ /\ orders[key[r]] = None
                  /\ \A q \in Requests : Writing(q) => key[q] # key[r],
           s \in {"rollback", "relookup"} => orders[key[r]] # None,
           UNCHANGED <<orders, key, outbox, answer>>
    PROVE  Idempotent'
<1>1. /\ stage' = [stage EXCEPT ![r] = s]
      /\ stage \in [Requests -> Stages]
      /\ orders' = orders /\ key' = key /\ outbox' = outbox /\ answer' = answer
  BY DEF Goto, TypeOK, ServiceTypeOK
<1>2. WritersAlone'
  BY <1>1 DEF Idempotent, WritersAlone, Writing, TypeOK, ServiceTypeOK
<1>3. ConflictFindsOrder'
  BY <1>1 DEF Idempotent, ConflictFindsOrder
<1> QED
  BY <1>1, <1>2, <1>3
     DEF Idempotent, EventIffOrder, Stored, AnsweredOrderIsDurable,
         RefusedCreatesNothing

\* Every step of the service keeps the invariant of the answers.
LEMMA NextIdempotent == TypeOK /\ Idempotent /\ [Next]_vars => Idempotent'
<1> SUFFICES ASSUME TypeOK, Idempotent, [Next]_vars PROVE Idempotent'
  OBVIOUS
<1> USE NoneAssumption
<1>1. CASE UNCHANGED vars
  BY <1>1
     DEF vars, serviceVars, Idempotent, WritersAlone, Writing, EventIffOrder,
         Stored, AnsweredOrderIsDurable, ConflictFindsOrder,
         RefusedCreatesNothing
<1>2. ASSUME NEW r \in Requests, ServiceStep(r) PROVE Idempotent'
  <2>1. CASE BindRequest(r)
    <3>1. answer[r] = NoAnswer /\ \A k \in Keys : orders[k] # r
      BY <2>1 DEF BindRequest, Idempotent, WritersAlone
    <3>2. PICK k \in Keys : key' = [key EXCEPT ![r] = k]
      BY <2>1 DEF BindRequest
    <3>3. PICK s \in {"validating", "reply"} : stage' = [stage EXCEPT ![r] = s]
      BY <2>1 DEF BindRequest, Goto, Finish
    <3>4. \/ answer' = answer
          \/ /\ stage'[r] = "reply"
             /\ answer' = [answer EXCEPT ![r] = [status |-> 400, order |-> None]]
      BY <2>1 DEF BindRequest, Goto, Finish, TypeOK, ServiceTypeOK
    <3>5. /\ orders' = orders /\ outbox' = outbox
          /\ stage[r] = "new"
      BY <2>1 DEF BindRequest
    <3> USE DEF TypeOK, ServiceTypeOK, Idempotent
    <3>6. WritersAlone'
      BY <3>1, <3>2, <3>3, <3>4, <3>5 DEF WritersAlone, Writing
    <3>7. EventIffOrder'
      BY <3>5 DEF EventIffOrder, Stored
    <3>8. AnsweredOrderIsDurable' /\ ConflictFindsOrder'
      BY <3>1, <3>2, <3>3, <3>4, <3>5
         DEF AnsweredOrderIsDurable, ConflictFindsOrder, NoAnswer
    <3>9. RefusedCreatesNothing'
      BY <3>1, <3>4, <3>5 DEF RefusedCreatesNothing, EventIffOrder, Stored
    <3> QED
      BY <3>6, <3>7, <3>8, <3>9
  <2>2. CASE ValidateRequester(r)
    <3>1. PICK u \in Upstream :
             IF RequesterVerdict(u) = 0
             THEN Goto(r, "lookup") /\ UNCHANGED answer
             ELSE Finish(r, RequesterVerdict(u), None)
      BY <2>2 DEF ValidateRequester
    <3>2. CASE RequesterVerdict(u) = 0
      BY <2>2, <3>1, <3>2, GotoKeepsIdempotent DEF ValidateRequester, Stages
    <3>3. CASE RequesterVerdict(u) # 0
      <4>1. RequesterVerdict(u) \in {422, 500, 503}
        BY <3>3, VerdictType
      <4> QED
        BY <2>2, <3>1, <3>3, <4>1, FinishKeepsIdempotent DEF ValidateRequester
    <3> QED
      BY <3>2, <3>3
  <2>3. CASE FindByExternalId(r)
    <3>1. orders[key[r]] \in Requests \cup {None}
      BY <2>3 DEF FindByExternalId, TypeOK, ServiceTypeOK
    <3>2. CASE orders[key[r]] # None
      BY <2>3, <3>1, <3>2, FinishKeepsIdempotent DEF FindByExternalId
    <3>3. CASE orders[key[r]] = None
      BY <2>3, <3>3, GotoKeepsIdempotent DEF FindByExternalId, Stages
    <3> QED
      BY <3>2, <3>3
  <2>4. CASE CreateOrder(r)
    BY <2>4, GotoKeepsIdempotent DEF CreateOrder, Stages
  <2>5. CASE CreateEvent(r)
    BY <2>5, GotoKeepsIdempotent DEF CreateEvent, Stages, Writing
  <2>6. CASE Commit(r)
    BY <2>6, ApplyKeepsIdempotent DEF Commit, Finish
  <2>7. CASE Rollback(r)
    BY <2>7, GotoKeepsIdempotent
       DEF Rollback, Stages, Idempotent, ConflictFindsOrder
  <2>8. CASE FindAfterConflict(r)
    <3>1. orders[key[r]] \in Requests
      BY <2>8
         DEF FindAfterConflict, TypeOK, ServiceTypeOK, Idempotent,
             ConflictFindsOrder
    <3> QED
      BY <2>8, <3>1, FinishKeepsIdempotent DEF FindAfterConflict
  <2>9. CASE Reply(r)
    BY <2>9, GotoKeepsIdempotent DEF Reply, Stages
  <2>10. CASE CloseSession(r)
    BY <2>10
       DEF CloseSession, Idempotent, WritersAlone, Writing, EventIffOrder,
           Stored, AnsweredOrderIsDurable, ConflictFindsOrder,
           RefusedCreatesNothing
  <2>11. CASE PoolTimeout(r)
    BY <2>11, FinishKeepsIdempotent DEF PoolTimeout
  <2>12. CASE DatabaseError(r)
    BY <2>12, FinishKeepsIdempotent DEF DatabaseError
  <2>13. CASE CommitFails(r)
    <3>1. CASE Apply(r)
      <4>1. /\ stage[r] = "commit" /\ Goto(r, "reply") /\ UNCHANGED key
            /\ answer' = [answer EXCEPT ![r] = [status |-> 500, order |-> None]]
        BY <2>13 DEF CommitFails, Finish
      <4> QED
        BY <3>1, <4>1, ApplyKeepsIdempotent
    <3>2. CASE UNCHANGED <<orders, outbox>>
      BY <2>13, <3>2, FinishKeepsIdempotent DEF CommitFails
    <3> QED
      BY <2>13, <3>1, <3>2 DEF CommitFails
  <2>14. CASE Crash(r)
    <3>1. CASE stage[r] = "commit" /\ Apply(r)
      <4>1. answer[r] = NoAnswer /\ answer' = [answer EXCEPT ![r] = NoAnswer]
        BY <2>14, <3>1
           DEF Crash, Idempotent, WritersAlone, TypeOK, ServiceTypeOK
      <4> QED
        BY <2>14, <3>1, <4>1, ApplyKeepsIdempotent DEF Crash
    <3>2. CASE UNCHANGED <<orders, outbox>>
      BY <2>14, <3>2, GotoKeepsIdempotent DEF Crash, Stages
    <3> QED
      BY <2>14, <3>1, <3>2 DEF Crash
  <2> QED
    BY <1>2, <2>1, <2>2, <2>3, <2>4, <2>5, <2>6, <2>7, <2>8, <2>9, <2>10,
       <2>11, <2>12, <2>13, <2>14 DEF ServiceStep, Advance
<1> QED
  BY <1>1, <1>2 DEF Next

\* Every invariant of the answers holds in every reachable state.
THEOREM IdempotencyCorrect == Spec => []Idempotent
<1>1. Init => Idempotent
  BY InitIdempotent
<1>2. TypeOK /\ Idempotent /\ [Next]_vars => Idempotent'
  BY NextIdempotent
<1> QED
  BY <1>1, <1>2, TypeCorrect, PTL DEF Spec

\* The strengthening itself: requests of one key write one at a time, and an
\* order's request is past its COMMIT.
THEOREM WritersAloneCorrect == Spec => []WritersAlone
<1>1. Idempotent => WritersAlone
  BY DEF Idempotent
<1> QED
  BY <1>1, IdempotencyCorrect, PTL

\* The order and its event are committed together: in every reachable
\* state, for any number of requests, an order exists exactly when its event
\* does.
THEOREM EventIffOrderCorrect == Spec => []EventIffOrder
<1>1. Idempotent => EventIffOrder
  BY DEF Idempotent
<1> QED
  BY <1>1, IdempotencyCorrect, PTL

\* All clients of a key are given the one committed order of that key.
THEOREM AnsweredOrderCorrect == Spec => []AnsweredOrderIsDurable
<1>1. Idempotent => AnsweredOrderIsDurable
  BY DEF Idempotent
<1> QED
  BY <1>1, IdempotencyCorrect, PTL

\* The search after IntegrityError always finds the order, so the
\* DuplicateOrderException of create_order is never raised.
THEOREM ConflictFindsOrderCorrect == Spec => []ConflictFindsOrder
<1>1. Idempotent => ConflictFindsOrder
  BY DEF Idempotent
<1> QED
  BY <1>1, IdempotencyCorrect, PTL

\* A client told 400, 422 or 503 has left no order and no event behind.
THEOREM RefusalCorrect == Spec => []RefusedCreatesNothing
<1>1. Idempotent => RefusedCreatesNothing
  BY DEF Idempotent
<1> QED
  BY <1>1, IdempotencyCorrect, PTL

-----------------------------------------------------------------------------
(* The connection pool                                                     *)

\* The inductive form of NoHoldAndWait: a Cardinality means something only
\* of a finite set, and a new request has no session yet.
PoolInv ==
    /\ NoHoldAndWait
    /\ IsFiniteSet(connected)
    /\ \A r \in connected : stage[r] # "new"

\* Initially the pool is idle.
LEMMA InitPoolInv == Init => PoolInv
BY PoolAssumption, FS_EmptySet DEF Init, ServiceInit, PoolInv, NoHoldAndWait

\* Checking one connection out within the limit.
LEMMA CheckOut ==
    ASSUME PoolInv, NEW r \in Requests, CanConnect(r),
           connected' = connected \cup {r}
    PROVE  IsFiniteSet(connected') /\ Cardinality(connected') <= PoolLimit
<1>1. CASE r \in connected
  <2>1. connected' = connected
    BY <1>1
  <2> QED
    BY <2>1 DEF PoolInv, NoHoldAndWait
<1>2. CASE r \notin connected
  <2>1. /\ IsFiniteSet(connected')
        /\ Cardinality(connected') = Cardinality(connected) + 1
    BY <1>2, FS_AddElement DEF PoolInv
  <2>2. Cardinality(connected) \in Nat
    BY FS_CardinalityType DEF PoolInv
  <2> QED
    BY <1>2, <2>1, <2>2, PoolAssumption DEF CanConnect
<1> QED
  BY <1>1, <1>2

\* Returning connections, or keeping them.
LEMMA CheckIn ==
    ASSUME PoolInv, connected' \subseteq connected
    PROVE  IsFiniteSet(connected') /\ Cardinality(connected') <= PoolLimit
<1>1. /\ IsFiniteSet(connected')
      /\ Cardinality(connected') <= Cardinality(connected)
  BY FS_Subset DEF PoolInv
<1>2. Cardinality(connected) \in Nat /\ Cardinality(connected') \in Nat
  BY <1>1, FS_CardinalityType DEF PoolInv
<1> QED
  BY <1>1, <1>2, PoolAssumption DEF PoolInv, NoHoldAndWait

\* Every step checks at most one connection out, and within the limit.
LEMMA NextPoolInv == TypeOK /\ PoolInv /\ [Next]_vars => PoolInv'
<1> SUFFICES ASSUME TypeOK, PoolInv, [Next]_vars PROVE PoolInv'
  OBVIOUS
<1>1. CASE UNCHANGED vars
  BY <1>1 DEF vars, serviceVars, PoolInv, NoHoldAndWait
<1>2. ASSUME NEW r \in Requests, ServiceStep(r) PROVE PoolInv'
  <2>1. /\ \A q \in Requests : q # r => stage'[q] = stage[q]
        /\ r \in connected' =>
              stage'[r] \notin {"new", "validating", "lookup", "relookup",
                               "dropped"}
        /\ stage'[r] \in {"insert_order", "insert_event", "commit", "rollback"}
              => r \in connected'
    <3> USE DEF TypeOK, ServiceTypeOK, PoolInv, NoHoldAndWait, Goto, Finish
    <3>1. CASE BindRequest(r)
      BY <3>1 DEF BindRequest
    <3>2. CASE ValidateRequester(r)
      BY <3>2 DEF ValidateRequester
    <3>3. CASE FindByExternalId(r) \/ CreateOrder(r)
      BY <3>3 DEF FindByExternalId, CreateOrder
    <3>4. CASE CreateEvent(r) \/ Commit(r)
      BY <3>4 DEF CreateEvent, Commit
    <3>5. CASE Rollback(r) \/ FindAfterConflict(r)
      BY <3>5 DEF Rollback, FindAfterConflict
    <3>6. CASE Reply(r) \/ CloseSession(r)
      BY <3>6 DEF Reply, CloseSession
    <3>7. CASE PoolTimeout(r) \/ DatabaseError(r)
      BY <3>7 DEF PoolTimeout, DatabaseError
    <3>8. CASE CommitFails(r) \/ Crash(r)
      BY <3>8 DEF CommitFails, Crash
    <3> QED
      BY <1>2, <3>1, <3>2, <3>3, <3>4, <3>5, <3>6, <3>7, <3>8
         DEF ServiceStep, Advance
  <2>2. \/ connected' \in {connected, connected \ {r}}
        \/ CanConnect(r) /\ connected' = connected \cup {r}
    BY <1>2
       DEF ServiceStep, Advance, BindRequest, ValidateRequester,
           FindByExternalId, CreateOrder, CreateEvent, Commit, Rollback,
           FindAfterConflict, Reply, CloseSession, PoolTimeout,
           DatabaseError, CommitFails, Crash
  <2>3. IsFiniteSet(connected') /\ Cardinality(connected') <= PoolLimit
    BY <2>2, CheckIn, CheckOut
  <2>4. /\ connected' \subseteq Requests
        /\ \A q \in Requests \ {r} : q \in connected' <=> q \in connected
    BY <2>2 DEF TypeOK, ServiceTypeOK
  <2> QED
    BY <2>1, <2>3, <2>4 DEF PoolInv, NoHoldAndWait, TypeOK, ServiceTypeOK
<1> QED
  BY <1>1, <1>2 DEF Next

\* For any pool size, the pool is never exceeded, no request keeps a
\* connection while it waits for the requester service or for another one,
\* and none that has inserted has to wait for one.
THEOREM PoolCorrect == Spec => []NoHoldAndWait
<1>1. Init => PoolInv
  BY InitPoolInv
<1>2. TypeOK /\ PoolInv /\ [Next]_vars => PoolInv'
  BY NextPoolInv
<1>3. PoolInv => NoHoldAndWait
  BY DEF PoolInv
<1> QED
  BY <1>1, <1>2, <1>3, TypeCorrect, PTL DEF Spec

-----------------------------------------------------------------------------
(* Progress                                                                *)

\* Every step moves its request forward, and no other.
LEMMA NextAdvances ==
    ASSUME TypeOK, [Next]_vars, NEW r \in Requests, stage'[r] # stage[r]
    PROVE  Progress[stage[r]] < Progress[stage'[r]]
<1> USE DEF TypeOK, ServiceTypeOK, Progress, Goto, Finish
<1>1. PICK q \in Requests : ServiceStep(q)
  BY DEF Next, vars, serviceVars
<1>2. CASE BindRequest(q) \/ ValidateRequester(q) \/ FindByExternalId(q)
  BY <1>2 DEF BindRequest, ValidateRequester, FindByExternalId
<1>3. CASE CreateOrder(q) \/ CreateEvent(q) \/ Commit(q) \/ Rollback(q)
  BY <1>3 DEF CreateOrder, CreateEvent, Commit, Rollback
<1>4. CASE FindAfterConflict(q) \/ Reply(q) \/ CloseSession(q)
  BY <1>4 DEF FindAfterConflict, Reply, CloseSession
<1>5. CASE PoolTimeout(q) \/ DatabaseError(q) \/ CommitFails(q)
  BY <1>5 DEF PoolTimeout, DatabaseError, CommitFails
<1>6. CASE Crash(q)
  BY <1>6 DEF Crash, Stages
<1> QED
  BY <1>1, <1>2, <1>3, <1>4, <1>5, <1>6 DEF ServiceStep, Advance

\* For any number of requests, none is sent back by a conflict, a failure or
\* the requests it competes with: it is answered or dropped after at most
\* seven changes of its stage.
THEOREM RequestsOnlyAdvanceCorrect == Spec => RequestsOnlyAdvance
<1>1. TypeOK /\ [Next]_vars =>
         [\A r \in Requests : stage'[r] # stage[r] =>
             Progress[stage[r]] < Progress[stage'[r]]]_vars
  BY NextAdvances
<1> QED
  BY <1>1, TypeCorrect, PTL DEF Spec, RequestsOnlyAdvance

-----------------------------------------------------------------------------
(* Refinement                                                              *)

\* A transaction that takes effect is the abstract Create.
LEMMA ApplyRefinesCreate ==
    ASSUME TypeOK, Idempotent,
           NEW r \in Requests, stage[r] = "commit", Apply(r), UNCHANGED key,
           \/ UNCHANGED answer
           \/ answer' = [answer EXCEPT ![r] = [status |-> 201, order |-> r]]
           \/ answer' = [answer EXCEPT ![r] = [status |-> 500, order |-> None]]
    PROVE  Abstract!Create(r)
<1>1. /\ key[r] \in Keys
      /\ key[r] # None
      /\ answer[r].status = 0
      /\ orders[key[r]] = None
  BY NoneAssumption
     DEF TypeOK, ServiceTypeOK, Idempotent, WritersAlone, Writing, NoAnswer
<1>2. Stored' = Stored \cup {r}
  BY DEF Apply, Stored, TypeOK, OutboxTypeOK
<1> QED
  BY <1>1, <1>2 DEF Abstract!Create, Abstract!Waiting, Abstract!Give, Apply

\* A response that creates nothing is the abstract Return or Refuse.
LEMMA FinishRefines ==
    ASSUME TypeOK, Idempotent,
           NEW r \in Requests,
           stage[r] \notin {"new", "reply", "answered", "dropped"},
           NEW status \in {200, 422, 500, 503},
           NEW order \in Requests \cup {None},
           Finish(r, status, order),
           \/ status = 200 /\ order = orders[key[r]] /\ order # None
           \/ status # 200 /\ order = None,
           UNCHANGED <<orders, key, outbox>>
    PROVE  Abstract!Return(r) \/ Abstract!Refuse(r)
<1>1. /\ key[r] # None
      /\ answer[r].status = 0
  BY NoneAssumption
     DEF TypeOK, ServiceTypeOK, Idempotent, WritersAlone, NoAnswer
<1>2. Stored' = Stored
  BY DEF Stored
<1>3. CASE status = 200
  <2>1. order = orders[key[r]] /\ orders[key[r]] # None
    BY <1>3
  <2>2. answer' = [answer EXCEPT ![r] = [status |-> 200, order |-> orders[key[r]]]]
    BY <1>3, <2>1 DEF Finish
  <2> QED
    BY <1>1, <1>2, <2>1, <2>2
       DEF Abstract!Return, Abstract!Waiting, Abstract!Give
<1>4. CASE status # 200
  <2>1. status \in {422, 503, 500} /\ order = None
    BY <1>4
  <2>2. Abstract!Give(r, status, None)
    BY <2>1 DEF Finish, Abstract!Give
  <2>3. \E s \in {422, 503, 500} : Abstract!Give(r, s, None)
    BY <2>1, <2>2
  <2> QED
    BY <1>1, <1>2, <2>3 DEF Abstract!Refuse, Abstract!Waiting
<1> QED
  BY <1>3, <1>4

\* Every step of the service is an abstract step or invisible.
LEMMA NextRefines ==
    TypeOK /\ Idempotent /\ [Next]_vars => [Abstract!Next]_(Abstract!vars)
<1> SUFFICES ASSUME TypeOK, Idempotent, [Next]_vars
             PROVE  Abstract!Next \/ UNCHANGED <<orders, Stored, key, answer>>
  BY DEF Abstract!vars
<1>1. CASE UNCHANGED vars
  BY <1>1 DEF vars, serviceVars, Stored
<1>2. ASSUME NEW r \in Requests, ServiceStep(r)
      PROVE  \/ Abstract!Receive(r) \/ Abstract!Create(r)
             \/ Abstract!Return(r) \/ Abstract!Refuse(r)
             \/ UNCHANGED <<orders, Stored, key, answer>>
  <2>1. CASE BindRequest(r)
    <3>1. key[r] = None
      BY <2>1 DEF BindRequest, TypeOK, ServiceTypeOK
    <3>2. answer' = answer \/ Abstract!Give(r, 400, None)
      BY <2>1 DEF BindRequest, Finish, Abstract!Give
    <3> QED
      BY <2>1, <3>1, <3>2 DEF BindRequest, Stored, Abstract!Receive
  <2>2. CASE ValidateRequester(r)
    <3>1. PICK u \in Upstream :
             IF RequesterVerdict(u) = 0
             THEN Goto(r, "lookup") /\ UNCHANGED answer
             ELSE Finish(r, RequesterVerdict(u), None)
      BY <2>2 DEF ValidateRequester
    <3>2. CASE RequesterVerdict(u) = 0
      BY <2>2, <3>1, <3>2 DEF ValidateRequester, Stored
    <3>3. CASE RequesterVerdict(u) # 0
      <4>1. RequesterVerdict(u) \in {422, 500, 503}
        BY <3>3, VerdictType
      <4> QED
        BY <2>2, <3>1, <3>3, <4>1, FinishRefines DEF ValidateRequester
    <3> QED
      BY <3>2, <3>3
  <2>3. CASE FindByExternalId(r)
    <3>1. orders[key[r]] \in Requests \cup {None}
      BY <2>3 DEF FindByExternalId, TypeOK, ServiceTypeOK
    <3>2. CASE orders[key[r]] # None
      BY <2>3, <3>1, <3>2, FinishRefines DEF FindByExternalId
    <3>3. CASE orders[key[r]] = None
      BY <2>3, <3>3 DEF FindByExternalId, Stored
    <3> QED
      BY <3>2, <3>3
  <2>4. CASE CreateOrder(r) \/ CreateEvent(r) \/ Rollback(r)
    BY <2>4 DEF CreateOrder, CreateEvent, Rollback, Stored
  <2>5. CASE Reply(r) \/ CloseSession(r)
    BY <2>5 DEF Reply, CloseSession, Stored
  <2>6. CASE Commit(r)
    BY <2>6, ApplyRefinesCreate DEF Commit, Finish
  <2>7. CASE FindAfterConflict(r)
    <3>1. orders[key[r]] \in Requests
      BY <2>7, NoneAssumption
         DEF FindAfterConflict, TypeOK, ServiceTypeOK, Idempotent,
             ConflictFindsOrder
    <3> QED
      BY <2>7, <3>1, NoneAssumption, FinishRefines DEF FindAfterConflict
  <2>8. CASE PoolTimeout(r) \/ DatabaseError(r)
    BY <2>8, FinishRefines DEF PoolTimeout, DatabaseError
  <2>9. CASE CommitFails(r)
    <3>1. CASE Apply(r)
      BY <2>9, <3>1, ApplyRefinesCreate DEF CommitFails, Finish
    <3>2. CASE UNCHANGED <<orders, outbox>>
      BY <2>9, <3>2, FinishRefines DEF CommitFails
    <3> QED
      BY <2>9, <3>1, <3>2 DEF CommitFails
  <2>10. CASE Crash(r)
    <3>1. CASE stage[r] = "commit" /\ Apply(r)
      BY <2>10, <3>1, ApplyRefinesCreate DEF Crash
    <3>2. CASE UNCHANGED <<orders, outbox>>
      BY <2>10, <3>2 DEF Crash, Stored
    <3> QED
      BY <2>10, <3>1, <3>2 DEF Crash
  <2> QED
    BY <1>2, <2>1, <2>2, <2>3, <2>4, <2>5, <2>6, <2>7, <2>8, <2>9, <2>10
       DEF ServiceStep, Advance
<1> QED
  BY <1>1, <1>2 DEF Next, Abstract!Next

\* For any sets of requests and keys and any pool, the service implements
\* the atomic, idempotent store of orders.
THEOREM ServiceRefines == Spec => ImplementsIdempotentOrders
<1>1. Init => Abstract!Init
  BY DEF Init, OutboxInit, ServiceInit, NoAnswer, Stored, Abstract!Init
<1>2. TypeOK /\ Idempotent /\ [Next]_vars => [Abstract!Next]_(Abstract!vars)
  BY NextRefines
<1> QED
  BY <1>1, <1>2, TypeCorrect, IdempotencyCorrect, PTL
     DEF Spec, ImplementsIdempotentOrders, Abstract!Spec

-----------------------------------------------------------------------------
(* What the refinement brings: the theorems of IdempotentOrdersProofs      *)

Promise == INSTANCE IdempotentOrdersProofs WITH events <- Stored

\* The two instances of the abstract specification are the same one.
LEMMA SameAbstract ==
    /\ Abstract!Init => Promise!Init
    /\ [Abstract!Next]_(Abstract!vars) => [Promise!Next]_(Promise!vars)
BY Zenon DEF Abstract!Init, Promise!Init, Abstract!Next, Promise!Next,
    Abstract!vars, Promise!vars, Abstract!Receive, Promise!Receive,
    Abstract!Create, Promise!Create, Abstract!Return, Promise!Return,
    Abstract!Refuse, Promise!Refuse, Abstract!Waiting, Promise!Waiting,
    Abstract!Give, Promise!Give

LEMMA KeepsPromise == Spec => Promise!Spec
BY ServiceRefines, SameAbstract, PTL
   DEF ImplementsIdempotentOrders, Abstract!Spec, Promise!Spec

\* No step of any request, no failure and no crash takes back an answer, the
\* order of a key or an event.
THEOREM PromisesAreFinalCorrect == Spec => PromisesAreFinal
<1>1. None \notin Keys
  BY NoneAssumption
<1>2. Promise!Spec => Promise!PromisesAreFinal
  BY <1>1, Promise!PromisesAreFinalCorrect
<1>3. Promise!PromisesAreFinal => PromisesAreFinal
  BY PTL DEF PromisesAreFinal, Abstract!PromisesAreFinal,
     Promise!PromisesAreFinal, Abstract!vars, Promise!vars
<1> QED
  BY <1>2, <1>3, KeepsPromise, PTL

\* All clients of a key that are given an order are given the same one, and
\* one of them at most is told that it created it.
THEOREM OneOrderPerKeyCorrect == Spec => []Abstract!OneOrderPerKey
<1>1. None \notin Keys
  BY NoneAssumption
<1>2. Promise!Spec => []Promise!OneOrderPerKey
  BY <1>1, Promise!OneOrderPerKeyCorrect
<1>3. Promise!OneOrderPerKey => Abstract!OneOrderPerKey
  BY DEF Promise!OneOrderPerKey, Abstract!OneOrderPerKey
<1> QED
  BY <1>2, <1>3, KeepsPromise, PTL
=============================================================================
