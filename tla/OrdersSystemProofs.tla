------------------------- MODULE OrdersSystemProofs -------------------------
(***************************************************************************)
(* Theorems of the composed system.  What was proved of each component     *)
(* alone is used here for the view the component has of the shared table,  *)
(* and the two views are shown to be what the system really does.          *)
(***************************************************************************)
EXTENDS OrdersSystem, TLAPS

S == INSTANCE OrderServiceProofs WITH outbox <- Written

W == INSTANCE OutboxWorkerProofs WITH created_at <- Visible

-----------------------------------------------------------------------------
(* What a request does, seen from either side                              *)

\* A table that does not change looks unchanged to the API.
LEMMA WrittenUnchanged == UNCHANGED outbox => UNCHANGED Written
BY DEF Written

\* A transaction that takes effect looks the same to the API.
LEMMA WrittenApply ==
    ASSUME OutboxTypeOK, NEW r \in Requests, API!Apply(r)
    PROVE  S!Apply(r)
BY DEF API!Apply, S!Apply, Written, OutboxTypeOK

\* Both instances of OrderService count connections in the same way.
LEMMA SamePool == \A r : API!CanConnect(r) <=> S!CanConnect(r)
BY DEF API!CanConnect, S!CanConnect, API!Cardinality, S!Cardinality

\* A step of a request is the same step on the API's view of the table.
LEMMA ServeIsServiceStep ==
    ASSUME OutboxTypeOK, NEW r \in Requests, Serve(r)
    PROVE  S!ServiceStep(r)
<1> USE WrittenUnchanged, WrittenApply, SamePool
    DEF API!Goto, S!Goto, API!Finish, S!Finish, API!Writing, S!Writing
<1>1. CASE API!BindRequest(r)
  BY <1>1 DEF API!BindRequest, S!ServiceStep, S!BindRequest
<1>2. CASE API!ValidateRequester(r)
  <2>1. S!ValidateRequester(r)
    BY <1>2 DEF API!ValidateRequester, S!ValidateRequester, API!Upstream,
         S!Upstream, API!RequesterVerdict, S!RequesterVerdict
  <2> QED
    BY <2>1 DEF S!ServiceStep, S!Advance
<1>3. CASE API!FindByExternalId(r)
  BY <1>3 DEF API!FindByExternalId, S!ServiceStep, S!Advance, S!FindByExternalId
<1>4. CASE API!CreateOrder(r)
  BY <1>4 DEF API!CreateOrder, S!ServiceStep, S!Advance, S!CreateOrder
<1>5. CASE API!CreateEvent(r)
  BY <1>5 DEF API!CreateEvent, S!ServiceStep, S!Advance, S!CreateEvent
<1>6. CASE API!Commit(r)
  BY <1>6 DEF API!Commit, S!ServiceStep, S!Advance, S!Commit
<1>7. CASE API!Rollback(r)
  BY <1>7 DEF API!Rollback, S!ServiceStep, S!Advance, S!Rollback
<1>8. CASE API!FindAfterConflict(r)
  BY <1>8 DEF API!FindAfterConflict, S!ServiceStep, S!Advance, S!FindAfterConflict
<1>9. CASE API!Reply(r)
  BY <1>9 DEF API!Reply, S!ServiceStep, S!Advance, S!Reply
<1>10. CASE API!PoolTimeout(r)
  BY <1>10 DEF API!PoolTimeout, S!ServiceStep, S!Advance, S!PoolTimeout
<1>11. CASE API!CloseSession(r)
  BY <1>11 DEF API!CloseSession, S!ServiceStep, S!CloseSession
<1>12. CASE API!DatabaseError(r)
  BY <1>12 DEF API!DatabaseError, S!ServiceStep, S!DatabaseError
<1>13. CASE API!CommitFails(r)
  BY <1>13 DEF API!CommitFails, S!ServiceStep, S!CommitFails
<1>14. CASE API!Crash(r)
  BY <1>14 DEF API!Crash, S!ServiceStep, S!Crash
<1> QED
  BY <1>1, <1>2, <1>3, <1>4, <1>5, <1>6, <1>7, <1>8, <1>9, <1>10, <1>11,
     <1>12, <1>13, <1>14 DEF Serve, API!ServiceStep, API!Advance

\* A transaction that can commit has stamped its row.
Stamped == \A r \in Requests : stage[r] = "commit" => created_at[r] \in Times

\* To the workers a step of a request commits one pending row or nothing,
\* because the request that commits has no row yet.
LEMMA ServeIsOrderCommitted ==
    ASSUME OutboxTypeOK, S!TypeOK, S!Idempotent, Stamped,
           NEW r \in Requests, Serve(r)
    PROVE  W!OrderCommitted(r) \/ UNCHANGED W!vars
<1>1. ASSUME API!Apply(r), stage[r] = "commit", UNCHANGED created_at
      PROVE  W!OrderCommitted(r)
  <2>1. outbox[r] = "absent"
    <3>1. \A k \in Keys : orders[k] # r
      BY <1>1, SystemAssumption DEF S!Idempotent, S!WritersAlone
    <3>2. Written[r] = "absent"
      BY <3>1 DEF S!Idempotent, S!EventIffOrder, S!Stored
    <3> QED
      BY <3>2 DEF Written
  <2>2. outbox' = [outbox EXCEPT ![r] = "pending"]
    BY <1>1 DEF API!Apply
  <2>3. Visible' = [Visible EXCEPT ![r] = created_at[r]]
    BY <1>1, <2>2 DEF Visible, OutboxTypeOK
  <2>4. created_at[r] \in Times
    BY <1>1 DEF Stamped
  <2> QED
    BY <2>1, <2>2, <2>3, <2>4 DEF W!OrderCommitted, W!workerVars, Serve, fleetVars
<1>2. ASSUME outbox' = outbox,
             \/ created_at' = created_at
             \/ /\ outbox[r] = "absent"
                /\ \E t \in Times : created_at' = [created_at EXCEPT ![r] = t]
      PROVE  UNCHANGED W!vars
  <2>1. Visible' = Visible
    BY <1>2 DEF Visible, OutboxTypeOK
  <2> QED
    BY <1>2, <2>1 DEF W!vars, W!workerVars, Serve, fleetVars
<1>3. CASE API!CreateEvent(r)
  <2>1. \A k \in Keys : orders[k] # r
    BY <1>3, SystemAssumption DEF API!CreateEvent, S!Idempotent, S!WritersAlone
  <2>2. outbox[r] = "absent"
    <3>1. Written[r] = "absent"
      BY <2>1 DEF S!Idempotent, S!EventIffOrder, S!Stored
    <3> QED
      BY <3>1 DEF Written
  <2> QED
    BY <1>2, <1>3, <2>2 DEF API!CreateEvent
<1>4. CASE API!Commit(r)
  BY <1>1, <1>4 DEF API!Commit
<1>5. CASE API!CommitFails(r) \/ API!Crash(r)
  <2>1. /\ created_at' = created_at
        /\ (API!Apply(r) /\ stage[r] = "commit") \/ outbox' = outbox
    BY <1>5 DEF API!CommitFails, API!Crash
  <2> QED
    BY <1>1, <1>2, <2>1
<1>6. CASE \/ API!BindRequest(r) \/ API!ValidateRequester(r)
           \/ API!FindByExternalId(r) \/ API!CreateOrder(r)
           \/ API!Rollback(r) \/ API!FindAfterConflict(r) \/ API!Reply(r)
           \/ API!PoolTimeout(r) \/ API!CloseSession(r)
           \/ API!DatabaseError(r)
  <2>1. outbox' = outbox /\ created_at' = created_at
    BY <1>6
       DEF API!BindRequest, API!ValidateRequester, API!FindByExternalId,
           API!CreateOrder, API!Rollback, API!FindAfterConflict, API!Reply,
           API!PoolTimeout, API!CloseSession, API!DatabaseError
  <2> QED
    BY <1>2, <2>1
<1> QED
  BY <1>3, <1>4, <1>5, <1>6 DEF Serve, API!ServiceStep, API!Advance

\* A request stamps its row before it can commit it.
LEMMA ServeStamps ==
    ASSUME OutboxTypeOK, S!TypeOK, Stamped, NEW r \in Requests, Serve(r)
    PROVE  Stamped'
<1> USE DEF Stamped, OutboxTypeOK, S!TypeOK, S!ServiceTypeOK, API!Goto,
            API!Finish
<1>1. CASE API!CreateEvent(r)
  BY <1>1 DEF API!CreateEvent
<1>2. CASE API!CreateOrder(r)
  BY <1>2 DEF API!CreateOrder
<1>3. CASE \/ API!BindRequest(r) \/ API!ValidateRequester(r)
           \/ API!FindByExternalId(r) \/ API!Commit(r) \/ API!CommitFails(r)
           \/ API!Crash(r) \/ API!Rollback(r) \/ API!FindAfterConflict(r)
           \/ API!Reply(r) \/ API!PoolTimeout(r) \/ API!CloseSession(r)
           \/ API!DatabaseError(r)
  BY <1>3
     DEF API!BindRequest, API!ValidateRequester, API!FindByExternalId,
         API!Commit, API!CommitFails, API!Crash, API!Rollback,
         API!FindAfterConflict, API!Reply, API!PoolTimeout,
         API!CloseSession, API!DatabaseError
<1> QED
  BY <1>1, <1>2, <1>3 DEF Serve, API!ServiceStep, API!Advance

-----------------------------------------------------------------------------
(* What a worker does, seen from either side                               *)

\* A worker changes no row but the stored one in its hand, which it settles.
LEMMA WorkSettles ==
    ASSUME W!TypeOK, W!RowsInHand, NEW w \in Workers, Work(w)
    PROVE  /\ created_at' = created_at
           /\ \/ outbox' = outbox
              \/ /\ current[w] \in Requests
                 /\ outbox[current[w]] # "absent"
                 /\ \E s \in {"processed", "failed"} :
                       outbox' = [outbox EXCEPT ![current[w]] = s]
<1> DEFINE Keeps == created_at' = created_at /\ outbox' = outbox
           Settles(s) == /\ step[w] \in {"commit_processed", "commit_failed"}
                         /\ created_at' = created_at
                         /\ outbox' = [outbox EXCEPT ![current[w]] = s]
<1>1. Keeps \/ \E s \in {"processed", "failed"} : Settles(s)
  <2>1. CASE \/ Fleet!Start(w) \/ Fleet!Stop(w) \/ Fleet!Exit(w)
             \/ Fleet!SleepOver(w) \/ Fleet!FetchPending(w)
             \/ Fleet!FetchNothing(w) \/ Fleet!FetchFails(w)
             \/ Fleet!NextEvent(w) \/ Fleet!EndBatch(w) \/ Fleet!Publish(w)
             \/ Fleet!PublishFails(w) \/ Fleet!BackoffOver(w)
             \/ Fleet!SessionRaises(w) \/ Fleet!ConnectionLost(w)
    BY <2>1
       DEF Fleet!Start, Fleet!Stop, Fleet!Exit, Fleet!SleepOver,
           Fleet!FetchPending, Fleet!FetchNothing, Fleet!FetchFails,
           Fleet!NextEvent, Fleet!EndBatch, Fleet!Publish,
           Fleet!PublishFails, Fleet!BackoffOver, Fleet!SessionRaises,
           Fleet!ConnectionLost
  <2>2. CASE Fleet!MarkProcessed(w) \/ Fleet!MarkFailed(w)
    BY <2>2 DEF Fleet!MarkProcessed, Fleet!MarkFailed, Fleet!Update
  <2>3. CASE Fleet!CommitProcessed(w) \/ Fleet!CommitFailed(w)
    BY <2>3 DEF Fleet!CommitProcessed, Fleet!CommitFailed, Fleet!SetStatus
  <2>4. CASE Fleet!DatabaseFault(w) \/ Fleet!Crash(w)
    BY <2>4 DEF Fleet!DatabaseFault, Fleet!Crash, Fleet!SetStatus
  <2> QED
    BY <2>1, <2>2, <2>3, <2>4
       DEF Work, Fleet!WorkerStep, Fleet!Advance, Fleet!Fault
<1>2. step[w] \in {"commit_processed", "commit_failed"} =>
          current[w] \in Requests /\ outbox[current[w]] # "absent"
  <2>1. ASSUME step[w] \in {"commit_processed", "commit_failed"}
        PROVE  current[w] \in Requests /\ current[w] \in W!Batch(w)
    BY <2>1 DEF W!TypeOK, W!WorkerTypeOK, W!Handling, W!Batch
  <2> QED
    BY <2>1 DEF W!RowsInHand, W!Stored
<1> QED
  BY <1>1, <1>2

\* So neither view of the table changes in a way the other side can notice.
LEMMA WorkKeepsViews ==
    ASSUME W!TypeOK, W!RowsInHand, NEW w \in Workers, Work(w)
    PROVE  Visible' = Visible /\ Written' = Written
<1>1. \A e \in Requests : outbox'[e] = "absent" <=> outbox[e] = "absent"
  BY WorkSettles DEF W!TypeOK, W!OutboxTypeOK
<1> QED
  BY <1>1, WorkSettles DEF Visible, Written

\* Both instances of OutboxWorker count rows in the same way.
LEMMA SameCount == \A T : Fleet!Cardinality(T) = W!Cardinality(T)
BY DEF Fleet!Cardinality, W!Cardinality

\* A step of a worker is the same step on the workers' view of the table,
\* for a worker reads the clock of stored rows only.
LEMMA WorkIsWorkerStep ==
    ASSUME W!TypeOK, W!RowsInHand, NEW w \in Workers, Work(w)
    PROVE  W!WorkerStep(w)
<1> USE WorkKeepsViews
    DEF Fleet!Goto, W!Goto, Fleet!Session, W!Session, Fleet!Release,
        W!Release, Fleet!SetStatus, W!SetStatus, Fleet!Leave, W!Leave,
        Fleet!Retry, W!Retry, Fleet!MAX_RETRIES, W!MAX_RETRIES
<1>1. CASE Fleet!Start(w)
  BY <1>1 DEF Fleet!Start, W!WorkerStep, W!Start
<1>2. CASE Fleet!Stop(w)
  BY <1>2 DEF Fleet!Stop, W!WorkerStep, W!Stop
<1>3. CASE Fleet!Exit(w)
  BY <1>3 DEF Fleet!Exit, W!WorkerStep, W!Advance, W!Exit
<1>4. CASE Fleet!SleepOver(w)
  BY <1>4 DEF Fleet!SleepOver, W!WorkerStep, W!Advance, W!SleepOver
<1>5. CASE Fleet!FetchPending(w)
  <2>1. /\ Fleet!Available = W!Available
        /\ \A e \in W!Available : Visible[e] = created_at[e]
    BY DEF Fleet!Available, W!Available, Fleet!Pending, W!Pending, Visible
  <2>2. W!FetchPending(w)
    BY <1>5, <2>1, SameCount DEF Fleet!FetchPending, W!FetchPending
  <2> QED
    BY <2>2 DEF W!WorkerStep, W!Advance
<1>6. CASE Fleet!FetchNothing(w) \/ Fleet!FetchFails(w)
  <2>1. Fleet!Available = W!Available
    BY DEF Fleet!Available, W!Available, Fleet!Pending, W!Pending
  <2> QED
    BY <1>6, <2>1
       DEF Fleet!FetchNothing, W!FetchNothing, Fleet!FetchFails,
           W!FetchFails, W!WorkerStep, W!Advance, W!Fault
<1>7. CASE Fleet!NextEvent(w)
  <2>1. Fleet!Oldest(todo[w]) = W!Oldest(todo[w])
    BY DEF W!RowsInHand, W!Batch, W!Stored, Fleet!Oldest, W!Oldest, Visible
  <2>2. W!NextEvent(w)
    BY <1>7, <2>1 DEF Fleet!NextEvent, W!NextEvent
  <2> QED
    BY <2>2 DEF W!WorkerStep, W!Advance
<1>8. CASE Fleet!EndBatch(w)
  BY <1>8 DEF Fleet!EndBatch, W!WorkerStep, W!Advance, W!EndBatch
<1>9. CASE Fleet!Publish(w)
  BY <1>9 DEF Fleet!Publish, W!WorkerStep, W!Advance, W!Publish
<1>10. CASE Fleet!PublishFails(w)
  BY <1>10 DEF Fleet!PublishFails, W!WorkerStep, W!Advance, W!PublishFails
<1>11. CASE Fleet!BackoffOver(w)
  BY <1>11 DEF Fleet!BackoffOver, W!WorkerStep, W!Advance, W!BackoffOver
<1>12. CASE Fleet!MarkProcessed(w)
  BY <1>12
     DEF Fleet!MarkProcessed, Fleet!Update, W!WorkerStep, W!Advance,
         W!MarkProcessed, W!Update
<1>13. CASE Fleet!MarkFailed(w)
  BY <1>13
     DEF Fleet!MarkFailed, Fleet!Update, W!WorkerStep, W!Advance,
         W!MarkFailed, W!Update
<1>14. CASE Fleet!CommitProcessed(w)
  BY <1>14
     DEF Fleet!CommitProcessed, W!WorkerStep, W!Advance, W!CommitProcessed
<1>15. CASE Fleet!CommitFailed(w)
  BY <1>15 DEF Fleet!CommitFailed, W!WorkerStep, W!Advance, W!CommitFailed
<1>16. CASE Fleet!SessionRaises(w)
  BY <1>16 DEF Fleet!SessionRaises, W!WorkerStep, W!Advance, W!SessionRaises
<1>17. CASE Fleet!DatabaseFault(w)
  BY <1>17 DEF Fleet!DatabaseFault, W!WorkerStep, W!Fault, W!DatabaseFault
<1>18. CASE Fleet!ConnectionLost(w)
  BY <1>18 DEF Fleet!ConnectionLost, W!WorkerStep, W!Fault, W!ConnectionLost
<1>19. CASE Fleet!Crash(w)
  BY <1>19
     DEF Fleet!Crash, Fleet!Forget, W!WorkerStep, W!Fault, W!Crash, W!Forget
<1> QED
  BY <1>1, <1>2, <1>3, <1>4, <1>5, <1>6, <1>7, <1>8, <1>9, <1>10, <1>11,
     <1>12, <1>13, <1>14, <1>15, <1>16, <1>17, <1>18, <1>19
     DEF Work, Fleet!WorkerStep, Fleet!Advance, Fleet!Fault

-----------------------------------------------------------------------------
(* The invariant of the system                                             *)

\* Each component's invariant holds of the view it has of the table.
SystemInv ==
    /\ OutboxTypeOK
    /\ S!TypeOK /\ S!Idempotent
    /\ W!TypeOK /\ W!RowsInHand /\ W!ProcessedWasPublished
    /\ Stamped

\* Both components start as they do alone.
LEMMA InitViews == Init => S!Init /\ W!Init
<1> SUFFICES ASSUME Init PROVE S!Init /\ W!Init
  OBVIOUS
<1>1. Written = [r \in Requests |-> "absent"] /\ Visible = [r \in Requests |-> 0]
  BY DEF Init, OutboxInit, Written, Visible
<1> QED
  BY <1>1
     DEF Init, OutboxInit, API!ServiceInit, API!NoAnswer, Fleet!WorkerInit,
         S!Init, S!OutboxInit, S!ServiceInit, S!NoAnswer,
         W!Init, W!OutboxInit, W!WorkerInit

\* Every step of the system is a step of the API, or none of its business,
\* and a step of the workers' specification, or none of theirs.
LEMMA NextViews ==
    SystemInv /\ [Next]_vars => [S!Next]_(S!vars) /\ [W!Next]_(W!vars)
<1> SUFFICES ASSUME SystemInv, [Next]_vars
             PROVE  (S!Next \/ UNCHANGED S!vars) /\ (W!Next \/ UNCHANGED W!vars)
  OBVIOUS
<1> USE DEF SystemInv
<1>1. CASE UNCHANGED vars
  <2>1. Visible' = Visible /\ Written' = Written
    BY <1>1 DEF vars, Visible, Written
  <2> QED
    BY <1>1, <2>1
       DEF vars, serviceVars, fleetVars, S!vars, S!serviceVars, W!vars,
           W!workerVars
<1>2. ASSUME NEW r \in Requests, Serve(r)
      PROVE  S!ServiceStep(r) /\ (W!OrderCommitted(r) \/ UNCHANGED W!vars)
  BY <1>2, ServeIsServiceStep, ServeIsOrderCommitted
<1>3. ASSUME NEW w \in Workers, Work(w)
      PROVE  W!WorkerStep(w) /\ UNCHANGED S!vars
  <2>1. Written' = Written /\ created_at' = created_at
    BY <1>3, WorkKeepsViews, WorkSettles
  <2> QED
    BY <1>3, <2>1, WorkIsWorkerStep
       DEF Work, serviceVars, S!vars, S!serviceVars
<1> QED
  BY <1>1, <1>2, <1>3 DEF Next, S!Next, W!Next

\* The components' invariants are the system's.
LEMMA SystemInvariant == Spec => []SystemInv
<1>1. Init => SystemInv
  <2> SUFFICES ASSUME Init PROVE SystemInv
    OBVIOUS
  <2>1. S!Init /\ W!Init
    BY InitViews
  <2>2. S!TypeOK /\ S!Idempotent
    BY <2>1, S!InitTypeOK, S!InitIdempotent, SystemAssumption, TimesAssumption
  <2>3. W!TypeOK /\ W!RowsInHand
    BY <2>1, W!InitTypeOK, W!InitRowsInHand, SystemAssumption, TimesAssumption
  <2>4. OutboxTypeOK /\ Stamped /\ W!ProcessedWasPublished
    BY DEF Init, OutboxInit, OutboxTypeOK, API!ServiceInit, Stamped,
           W!ProcessedWasPublished
  <2> QED
    BY <2>2, <2>3, <2>4 DEF SystemInv
<1>2. SystemInv /\ [Next]_vars => SystemInv'
  <2> SUFFICES ASSUME SystemInv, [Next]_vars PROVE SystemInv'
    OBVIOUS
  <2>1. [S!Next]_(S!vars) /\ [W!Next]_(W!vars)
    BY NextViews
  <2>2. S!TypeOK' /\ S!Idempotent'
    BY <2>1, S!NextTypeOK, S!NextIdempotent, SystemAssumption, TimesAssumption
       DEF SystemInv
  <2>3. W!TypeOK' /\ W!RowsInHand' /\ W!ProcessedWasPublished'
    BY <2>1, W!NextTypeOK, W!NextRowsInHand, W!NextPublished,
       SystemAssumption, TimesAssumption
       DEF SystemInv
  <2>4. OutboxTypeOK'
    BY <2>2, <2>3
       DEF S!TypeOK, S!OutboxTypeOK, W!TypeOK, W!OutboxTypeOK, W!Statuses,
           OutboxTypeOK, Statuses
  <2>5. Stamped'
    <3>1. CASE UNCHANGED vars
      BY <3>1 DEF vars, serviceVars, SystemInv, Stamped
    <3>2. ASSUME NEW r \in Requests, Serve(r) PROVE Stamped'
      BY <3>2, ServeStamps DEF SystemInv
    <3>3. ASSUME NEW w \in Workers, Work(w) PROVE Stamped'
      BY <3>3, WorkSettles DEF SystemInv, Stamped, Work, serviceVars
    <3> QED
      BY <3>1, <3>2, <3>3 DEF Next
  <2> QED
    BY <2>2, <2>3, <2>4, <2>5 DEF SystemInv
<1> QED
  BY <1>1, <1>2, PTL DEF Spec

-----------------------------------------------------------------------------
(* What the outbox is there for                                            *)

\* Whatever fails on either side, a message names the one durable order of
\* its idempotency key.
THEOREM MessagesNameOrdersCorrect == Spec => []MessagesNameOrders
<1>1. SystemInv => MessagesNameOrders
  <2> SUFFICES ASSUME SystemInv, NEW e \in queue PROVE orders[key[e]] = e
    BY DEF MessagesNameOrders
  <2>1. e \in Requests /\ outbox[e] # "absent"
    BY DEF SystemInv, W!RowsInHand, W!Stored
  <2>2. PICK k \in Keys : orders[k] = e
    BY <2>1 DEF SystemInv, S!Idempotent, S!EventIffOrder, S!Stored, Written
  <2>3. key[e] = k
    BY <2>1, <2>2, SystemAssumption DEF SystemInv, S!Idempotent, S!WritersAlone
  <2> QED
    BY <2>2, <2>3
<1> QED
  BY <1>1, SystemInvariant, PTL

\* No request refused for good is announced, and workers hold only rows
\* whose request is past its COMMIT.
THEOREM RefusedIsNeverAnnouncedCorrect == Spec => []RefusedIsNeverAnnounced
<1>1. SystemInv => RefusedIsNeverAnnounced
  <2> SUFFICES ASSUME SystemInv, NEW r \in Requests
               PROVE  /\ answer[r].status \in {400, 422, 503} => r \notin queue
                      /\ \A w \in Workers : r \in Fleet!Batch(w) =>
                            stage[r] \in {"reply", "answered", "dropped"}
    BY DEF RefusedIsNeverAnnounced
  <2>1. answer[r].status \in {400, 422, 503} => outbox[r] = "absent"
    BY DEF SystemInv, S!Idempotent, S!RefusedCreatesNothing, S!Stored, Written
  <2>2. r \in queue => outbox[r] # "absent"
    BY DEF SystemInv, W!RowsInHand, W!Stored
  <2>3. ASSUME NEW w \in Workers, r \in Fleet!Batch(w)
        PROVE  outbox[r] # "absent"
    BY <2>3 DEF SystemInv, W!RowsInHand, W!Stored, W!Batch, Fleet!Batch
  <2>4. ASSUME outbox[r] # "absent"
        PROVE  stage[r] \in {"reply", "answered", "dropped"}
    <3>1. PICK k \in Keys : orders[k] = r
      BY <2>4 DEF SystemInv, S!Idempotent, S!EventIffOrder, S!Stored, Written
    <3> QED
      BY <3>1, SystemAssumption DEF SystemInv, S!Idempotent, S!WritersAlone
  <2> QED
    BY <2>1, <2>2, <2>3, <2>4
<1> QED
  BY <1>1, SystemInvariant, PTL

\* Every order a client was told of has a row that is pending, failed, or
\* processed with its message sent.
THEOREM AnsweredOrderIsKeptCorrect == Spec => []AnsweredOrderIsKept
<1>1. SystemInv => AnsweredOrderIsKept
  <2> SUFFICES ASSUME SystemInv, NEW r \in Requests, NEW e \in Requests,
                      answer[r].order = e
               PROVE  \/ outbox[e] \in {"pending", "failed"}
                      \/ outbox[e] = "processed" /\ e \in queue
    BY DEF AnsweredOrderIsKept
  <2>1. e # None
    BY SystemAssumption
  <2>2. orders[key[r]] = e
    BY <2>1 DEF SystemInv, S!Idempotent, S!AnsweredOrderIsDurable
  <2>3. stage[r] # "new"
    BY <2>1 DEF SystemInv, S!Idempotent, S!WritersAlone, S!NoAnswer
  <2>4. key[r] \in Keys
    BY <2>3 DEF SystemInv, S!TypeOK, S!ServiceTypeOK
  <2>5. outbox[e] # "absent"
    BY <2>2, <2>4
       DEF SystemInv, S!Idempotent, S!EventIffOrder, S!Stored, Written
  <2> QED
    BY <2>5 DEF SystemInv, OutboxTypeOK, Statuses, W!ProcessedWasPublished
<1> QED
  BY <1>1, SystemInvariant, PTL

\* A request commits only its own new row, and a worker only settles.
LEMMA NextSettled ==
    ASSUME SystemInv, [Next]_vars, NEW e \in Requests, Settled(e)
    PROVE  Settled(e)'
<1> USE DEF Settled
<1>1. CASE UNCHANGED vars
  BY <1>1 DEF vars
<1>2. ASSUME NEW r \in Requests, Serve(r) PROVE Settled(e)'
  <2>1. W!OrderCommitted(r) \/ UNCHANGED W!vars
    BY <1>2, ServeIsOrderCommitted DEF SystemInv
  <2> QED
    BY <2>1 DEF W!OrderCommitted, W!vars, SystemInv, OutboxTypeOK
<1>3. ASSUME NEW w \in Workers, Work(w) PROVE Settled(e)'
  BY <1>3, WorkSettles DEF SystemInv, OutboxTypeOK
<1> QED
  BY <1>1, <1>2, <1>3 DEF Next

\* For any number of workers and requests, no settled event becomes pending
\* again or loses its row.
THEOREM SettledStaysSettledCorrect == Spec => SettledStaysSettled
<1>1. SystemInv /\ [Next]_vars =>
          [\A e \in Requests : Settled(e) => Settled(e)']_vars
  BY NextSettled
<1> QED
  BY <1>1, SystemInvariant, PTL DEF Spec, SettledStaysSettled

-----------------------------------------------------------------------------
(* The system implements each of its parts                                 *)

\* ServiceView and S are the same specification; S has the theorems.
LEMMA SameService ==
    /\ \A r : S!ServiceStep(r) <=> ServiceView!ServiceStep(r)
    /\ UNCHANGED S!vars <=> UNCHANGED ServiceView!vars
BY Zenon
   DEF S!vars, ServiceView!vars, S!serviceVars,
       ServiceView!serviceVars, S!ServiceStep,
       ServiceView!ServiceStep, S!Advance, ServiceView!Advance,
       S!BindRequest, ServiceView!BindRequest, S!ValidateRequester,
       ServiceView!ValidateRequester, S!FindByExternalId,
       ServiceView!FindByExternalId, S!CreateOrder,
       ServiceView!CreateOrder, S!CreateEvent,
       ServiceView!CreateEvent, S!Commit, ServiceView!Commit,
       S!Rollback, ServiceView!Rollback, S!FindAfterConflict,
       ServiceView!FindAfterConflict, S!Reply, ServiceView!Reply,
       S!PoolTimeout, ServiceView!PoolTimeout, S!CloseSession,
       ServiceView!CloseSession, S!DatabaseError,
       ServiceView!DatabaseError, S!CommitFails,
       ServiceView!CommitFails, S!Crash, ServiceView!Crash,
       S!Upstream, ServiceView!Upstream, S!RequesterVerdict,
       ServiceView!RequesterVerdict, S!Writing, ServiceView!Writing,
       S!CanConnect, ServiceView!CanConnect, S!Goto, ServiceView!Goto,
       S!Finish, ServiceView!Finish, S!Apply, ServiceView!Apply,
       S!Cardinality, ServiceView!Cardinality

\* FleetView and W are the same specification; W has the theorems.
LEMMA SameFleet ==
    /\ \A w : W!WorkerStep(w) <=> FleetView!WorkerStep(w)
    /\ \A e : W!OrderCommitted(e) <=> FleetView!OrderCommitted(e)
    /\ UNCHANGED W!vars <=> UNCHANGED FleetView!vars
BY Zenon
   DEF W!vars, FleetView!vars, W!workerVars, FleetView!workerVars,
       W!OrderCommitted, FleetView!OrderCommitted, W!WorkerStep,
       FleetView!WorkerStep, W!Advance, FleetView!Advance, W!Fault,
       FleetView!Fault, W!Start, FleetView!Start, W!Stop,
       FleetView!Stop, W!Exit, FleetView!Exit, W!SleepOver,
       FleetView!SleepOver, W!FetchPending, FleetView!FetchPending,
       W!FetchNothing, FleetView!FetchNothing, W!FetchFails,
       FleetView!FetchFails, W!NextEvent, FleetView!NextEvent,
       W!EndBatch, FleetView!EndBatch, W!Publish, FleetView!Publish,
       W!PublishFails, FleetView!PublishFails, W!BackoffOver,
       FleetView!BackoffOver, W!MarkProcessed,
       FleetView!MarkProcessed, W!MarkFailed, FleetView!MarkFailed,
       W!Update, FleetView!Update, W!CommitProcessed,
       FleetView!CommitProcessed, W!CommitFailed,
       FleetView!CommitFailed, W!SessionRaises,
       FleetView!SessionRaises, W!DatabaseFault,
       FleetView!DatabaseFault, W!ConnectionLost,
       FleetView!ConnectionLost, W!Crash, FleetView!Crash,
       W!Available, FleetView!Available, W!Pending, FleetView!Pending,
       W!Oldest, FleetView!Oldest, W!Session, FleetView!Session,
       W!Goto, FleetView!Goto, W!Forget, FleetView!Forget, W!Release,
       FleetView!Release, W!SetStatus, FleetView!SetStatus, W!Retry,
       FleetView!Retry, W!Leave, FleetView!Leave, W!MAX_RETRIES,
       FleetView!MAX_RETRIES, W!Cardinality, FleetView!Cardinality

\* With the workers running, the requests still behave as OrderService says,
\* so all that is proved of it alone holds in the system.
THEOREM SystemImplementsService == Spec => ImplementsOrderService
<1>1. S!Init => ServiceView!Init
  BY DEF S!Init, S!OutboxInit, S!ServiceInit, S!NoAnswer, ServiceView!Init,
         ServiceView!OutboxInit, ServiceView!ServiceInit, ServiceView!NoAnswer
<1>2. [S!Next]_(S!vars) => [ServiceView!Next]_(ServiceView!vars)
  BY Zenon, SameService DEF S!Next, ServiceView!Next
<1> QED
  BY <1>1, <1>2, InitViews, NextViews, SystemInvariant, PTL
     DEF Spec, ImplementsOrderService, ServiceView!Spec

\* All the API does to the table is what OutboxWorker assumes of it.
THEOREM SystemImplementsWorkers == Spec => ImplementsOutboxWorker
<1>1. W!Init => FleetView!Init
  BY DEF W!Init, W!OutboxInit, W!WorkerInit, FleetView!Init,
         FleetView!OutboxInit, FleetView!WorkerInit
<1>2. [W!Next]_(W!vars) => [FleetView!Next]_(FleetView!vars)
  BY Zenon, SameFleet DEF W!Next, FleetView!Next
<1> QED
  BY <1>1, <1>2, InitViews, NextViews, SystemInvariant, PTL
     DEF Spec, ImplementsOutboxWorker, FleetView!Spec

\* What was proved of one worker alone holds with the API running: the status
\* of a settled row is final.
THEOREM SystemSettledIsFinal ==
    ASSUME \A v, w \in Workers : v = w PROVE Spec => SettledIsFinal
<1>1. W!Spec => W!SettledIsFinal
  BY W!AloneSettledIsFinal, SystemAssumption, TimesAssumption DEF W!Alone
<1>2. [\A e \in Requests : outbox[e] \in {"processed", "failed"}
          => outbox'[e] = outbox[e]]_(W!vars)
      => [\A e \in Requests : outbox[e] \in {"processed", "failed"}
          => outbox'[e] = outbox[e]]_vars
  BY DEF W!vars
<1> QED
  BY <1>1, <1>2, InitViews, NextViews, SystemInvariant, PTL
     DEF Spec, W!Spec, W!SettledIsFinal, SettledIsFinal
=============================================================================
