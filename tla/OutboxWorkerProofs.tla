------------------------- MODULE OutboxWorkerProofs -------------------------
(***************************************************************************)
(* Theorems of OutboxWorker, for any sets of events and workers, any batch *)
(* size, any clock and any selection of faults.                            *)
(***************************************************************************)
EXTENDS OutboxWorker, FiniteSetTheorems, TLAPS

-----------------------------------------------------------------------------
(* Type correctness                                                        *)

\* The initial state is well typed.
LEMMA InitTypeOK == Init => TypeOK
BY DEF Init, OutboxInit, WorkerInit, TypeOK, OutboxTypeOK, WorkerTypeOK,
       Statuses, Steps, Handling, Sessions, MAX_RETRIES

\* Every step of a worker, and every committed order, keeps the types.
LEMMA NextTypeOK == TypeOK /\ [Next]_vars => TypeOK'
<1> SUFFICES ASSUME TypeOK, [Next]_vars PROVE TypeOK'
  OBVIOUS
<1> USE NoOneAssumption, TimesAssumption
    DEF TypeOK, OutboxTypeOK, WorkerTypeOK, MAX_RETRIES
<1>1. CASE UNCHANGED vars
  BY <1>1 DEF vars, workerVars
<1>2. ASSUME NEW e \in Requests, OrderCommitted(e) PROVE TypeOK'
  BY <1>2 DEF OrderCommitted, workerVars, Statuses
<1>3. ASSUME NEW w \in Workers, WorkerStep(w) PROVE TypeOK'
  <2> USE DEF Goto, Session, Steps, Sessions, Handling
  <2>1. CASE Start(w)
    BY <2>1 DEF Start
  <2>2. CASE Stop(w)
    BY <2>2 DEF Stop
  <2>3. CASE Exit(w)
    BY <2>3 DEF Exit
  <2>4. CASE SleepOver(w)
    BY <2>4 DEF SleepOver
  <2>5. CASE FetchPending(w)
    BY <2>5 DEF FetchPending, Available, Pending
  <2>6. CASE FetchNothing(w)
    BY <2>6 DEF FetchNothing
  <2>7. CASE FetchFails(w)
    BY <2>7 DEF FetchFails
  <2>8. CASE NextEvent(w)
    BY <2>8 DEF NextEvent, Oldest
  <2>9. CASE EndBatch(w)
    BY <2>9 DEF EndBatch, Release
  <2>10. CASE Publish(w)
    BY <2>10 DEF Publish
  <2>11. CASE PublishFails(w)
    BY <2>11 DEF PublishFails, Retry
  <2>12. CASE BackoffOver(w)
    BY <2>12 DEF BackoffOver
  <2>13. CASE MarkProcessed(w)
    BY <2>13 DEF MarkProcessed, Update
  <2>14. CASE MarkFailed(w)
    BY <2>14 DEF MarkFailed, Update
  <2>15. CASE CommitProcessed(w)
    BY <2>15 DEF CommitProcessed, SetStatus, Release, Leave, Statuses
  <2>16. CASE CommitFailed(w)
    BY <2>16 DEF CommitFailed, SetStatus, Release, Leave, Statuses
  <2>17. CASE SessionRaises(w)
    BY <2>17 DEF SessionRaises, Retry, Leave
  <2>18. CASE DatabaseFault(w)
    BY <2>18 DEF DatabaseFault, Retry, Leave, Release, SetStatus, Statuses
  <2>19. CASE ConnectionLost(w)
    BY <2>19 DEF ConnectionLost, Release
  <2>20. CASE Crash(w)
    BY <2>20 DEF Crash, Release, SetStatus, Statuses, Forget
  <2> QED
    BY <1>3, <2>1, <2>2, <2>3, <2>4, <2>5, <2>6, <2>7, <2>8, <2>9,
       <2>10, <2>11, <2>12, <2>13, <2>14, <2>15, <2>16, <2>17, <2>18,
       <2>19, <2>20
       DEF WorkerStep, Advance, Fault
<1> QED
  BY <1>1, <1>2, <1>3 DEF Next

\* Every reachable state of the workers is well typed.
THEOREM TypeCorrect == Spec => []TypeOK
BY InitTypeOK, NextTypeOK, PTL DEF Spec

-----------------------------------------------------------------------------
(* Locks, messages and rows                                                *)

\* Initially nothing is locked, sent or in hand.
LEMMA InitRowsInHand == Init => RowsInHand
BY DEF Init, OutboxInit, WorkerInit, RowsInHand, Batch, Stored

\* A COMMIT ends the transaction that locked its row, so no other worker's
\* step comes between an UPDATE and its COMMIT.
LEMMA NextRowsInHand ==
    TypeOK /\ RowsInHand /\ [Next]_vars => RowsInHand'
<1> SUFFICES ASSUME TypeOK, RowsInHand, [Next]_vars
             PROVE  RowsInHand'
  OBVIOUS
<1> USE NoOneAssumption
    DEF TypeOK, OutboxTypeOK, WorkerTypeOK, Statuses, Handling, RowsInHand, Batch, Stored
<1>1. CASE UNCHANGED vars
  BY <1>1 DEF vars, workerVars
<1>2. ASSUME NEW e \in Requests, OrderCommitted(e) PROVE RowsInHand'
  BY <1>2 DEF OrderCommitted, workerVars
<1>3. ASSUME NEW w \in Workers, WorkerStep(w) PROVE RowsInHand'
  <2> USE DEF Goto
  <2>1. CASE \/ Start(w) \/ Stop(w) \/ Exit(w) \/ SleepOver(w)
             \/ FetchNothing(w) \/ FetchFails(w)
    BY <2>1 DEF Start, Stop, Exit, SleepOver, FetchNothing, FetchFails
  <2>2. CASE FetchPending(w)
    BY <2>2 DEF FetchPending, Available, Pending, Session
  <2>3. CASE NextEvent(w)
    BY <2>3 DEF NextEvent, Oldest
  <2>4. CASE EndBatch(w)
    BY <2>4 DEF EndBatch, Release, Session
  <2>5. CASE Publish(w)
    BY <2>5 DEF Publish
  <2>6. CASE PublishFails(w)
    BY <2>6 DEF PublishFails, Retry
  <2>7. CASE BackoffOver(w)
    BY <2>7 DEF BackoffOver
  <2>8. CASE MarkProcessed(w) \/ MarkFailed(w)
    BY <2>8 DEF MarkProcessed, MarkFailed, Update, Session
  <2>9. CASE CommitProcessed(w) \/ CommitFailed(w)
    BY <2>9
       DEF CommitProcessed, CommitFailed, SetStatus, Release, Leave, Session
  <2>10. CASE SessionRaises(w)
    BY <2>10 DEF SessionRaises, Retry, Leave
  <2>11. CASE DatabaseFault(w)
    BY <2>11 DEF DatabaseFault, Retry, Leave, Release, SetStatus, Session
  <2>12. CASE ConnectionLost(w)
    BY <2>12 DEF ConnectionLost, Release, Session
  <2>13. CASE Crash(w)
    BY <2>13 DEF Crash, Release, SetStatus, Forget, Session
  <2> QED
    BY <1>3, <2>1, <2>2, <2>3, <2>4, <2>5, <2>6, <2>7, <2>8, <2>9, <2>10,
    <2>11, <2>12, <2>13
       DEF WorkerStep, Advance, Fault
<1> QED
  BY <1>1, <1>2, <1>3 DEF Next

\* A row lock always belongs to a live transaction, and a COMMIT writes only
\* a row its transaction has locked.
THEOREM RowsInHandCorrect == Spec => []RowsInHand
<1>1. Init => RowsInHand
  BY InitRowsInHand
<1>2. TypeOK /\ RowsInHand /\ [Next]_vars => RowsInHand'
  BY NextRowsInHand
<1> QED
  BY <1>1, <1>2, TypeCorrect, PTL DEF Spec

\* The event a COMMIT marks processed has been sent (RowsInHand).
LEMMA NextPublished ==
    TypeOK /\ RowsInHand /\ ProcessedWasPublished /\ [Next]_vars => ProcessedWasPublished'
<1> SUFFICES ASSUME TypeOK, RowsInHand, ProcessedWasPublished, [Next]_vars
             PROVE  ProcessedWasPublished'
  OBVIOUS
<1> USE NoOneAssumption
    DEF TypeOK, OutboxTypeOK, WorkerTypeOK, Statuses, Handling, RowsInHand, ProcessedWasPublished
<1>1. CASE UNCHANGED vars
  BY <1>1 DEF vars, workerVars
<1>2. ASSUME NEW e \in Requests, OrderCommitted(e) PROVE ProcessedWasPublished'
  BY <1>2 DEF OrderCommitted, workerVars
<1>3. ASSUME NEW w \in Workers, WorkerStep(w) PROVE ProcessedWasPublished'
  <2> USE DEF Goto
  <2>1. CASE \/ Start(w) \/ Stop(w) \/ Exit(w) \/ SleepOver(w)
             \/ FetchNothing(w) \/ FetchFails(w)
    BY <2>1 DEF Start, Stop, Exit, SleepOver, FetchNothing, FetchFails
  <2>2. CASE FetchPending(w)
    BY <2>2 DEF FetchPending, Available, Pending, Session
  <2>3. CASE NextEvent(w)
    BY <2>3 DEF NextEvent, Oldest
  <2>4. CASE EndBatch(w)
    BY <2>4 DEF EndBatch, Release, Session
  <2>5. CASE Publish(w)
    BY <2>5 DEF Publish
  <2>6. CASE PublishFails(w)
    BY <2>6 DEF PublishFails, Retry
  <2>7. CASE BackoffOver(w)
    BY <2>7 DEF BackoffOver
  <2>8. CASE MarkProcessed(w) \/ MarkFailed(w)
    BY <2>8 DEF MarkProcessed, MarkFailed, Update, Session
  <2>9. CASE CommitProcessed(w) \/ CommitFailed(w)
    BY <2>9
       DEF CommitProcessed, CommitFailed, SetStatus, Release, Leave, Session
  <2>10. CASE SessionRaises(w)
    BY <2>10 DEF SessionRaises, Retry, Leave
  <2>11. CASE DatabaseFault(w)
    BY <2>11 DEF DatabaseFault, Retry, Leave, Release, SetStatus, Session
  <2>12. CASE ConnectionLost(w)
    BY <2>12 DEF ConnectionLost, Release, Session
  <2>13. CASE Crash(w)
    BY <2>13 DEF Crash, Release, SetStatus, Forget, Session
  <2> QED
    BY <1>3, <2>1, <2>2, <2>3, <2>4, <2>5, <2>6, <2>7, <2>8, <2>9, <2>10,
    <2>11, <2>12, <2>13
       DEF WorkerStep, Advance, Fault
<1> QED
  BY <1>1, <1>2, <1>3 DEF Next

\* At-least-once: for any number of workers and whatever fails, a row is
\* marked processed only for a message that has reached SQS.
THEOREM AtLeastOnce == Spec => []ProcessedWasPublished
<1>1. Init => ProcessedWasPublished
  BY DEF Init, OutboxInit, ProcessedWasPublished
<1>2. TypeOK /\ RowsInHand /\ ProcessedWasPublished /\ [Next]_vars
      => ProcessedWasPublished'
  BY NextPublished
<1> QED
  BY <1>1, <1>2, TypeCorrect, RowsInHandCorrect, PTL DEF Spec

\* Other workers lock only free rows and settle only rows they have locked.
LEMMA NextExcludes ==
    TypeOK /\ RowsInHand /\ FetchTransactionExcludes /\ [Next]_vars => FetchTransactionExcludes'
<1> SUFFICES ASSUME TypeOK, RowsInHand, FetchTransactionExcludes, [Next]_vars
             PROVE  FetchTransactionExcludes'
  OBVIOUS
<1> USE NoOneAssumption
    DEF TypeOK, OutboxTypeOK, WorkerTypeOK, Statuses, Handling, RowsInHand, FetchTransactionExcludes, InFetchTransaction, Batch, Stored
<1>1. CASE UNCHANGED vars
  BY <1>1 DEF vars, workerVars
<1>2. ASSUME NEW e \in Requests, OrderCommitted(e) PROVE FetchTransactionExcludes'
  BY <1>2 DEF OrderCommitted, workerVars
<1>3. ASSUME NEW w \in Workers, WorkerStep(w) PROVE FetchTransactionExcludes'
  <2> USE DEF Goto
  <2>1. CASE \/ Start(w) \/ Stop(w) \/ Exit(w) \/ SleepOver(w)
             \/ FetchNothing(w) \/ FetchFails(w)
    BY <2>1 DEF Start, Stop, Exit, SleepOver, FetchNothing, FetchFails
  <2>2. CASE FetchPending(w)
    BY <2>2 DEF FetchPending, Available, Pending, Session
  <2>3. CASE NextEvent(w)
    BY <2>3 DEF NextEvent, Oldest
  <2>4. CASE EndBatch(w)
    BY <2>4 DEF EndBatch, Release, Session
  <2>5. CASE Publish(w)
    BY <2>5 DEF Publish
  <2>6. CASE PublishFails(w)
    BY <2>6 DEF PublishFails, Retry
  <2>7. CASE BackoffOver(w)
    BY <2>7 DEF BackoffOver
  <2>8. CASE MarkProcessed(w) \/ MarkFailed(w)
    BY <2>8 DEF MarkProcessed, MarkFailed, Update, Session
  <2>9. CASE CommitProcessed(w) \/ CommitFailed(w)
    BY <2>9
       DEF CommitProcessed, CommitFailed, SetStatus, Release, Leave, Session
  <2>10. CASE SessionRaises(w)
    BY <2>10 DEF SessionRaises, Retry, Leave
  <2>11. CASE DatabaseFault(w)
    BY <2>11 DEF DatabaseFault, Retry, Leave, Release, SetStatus, Session
  <2>12. CASE ConnectionLost(w)
    BY <2>12 DEF ConnectionLost, Release, Session
  <2>13. CASE Crash(w)
    BY <2>13 DEF Crash, Release, SetStatus, Forget, Session
  <2> QED
    BY <1>3, <2>1, <2>2, <2>3, <2>4, <2>5, <2>6, <2>7, <2>8, <2>9, <2>10,
    <2>11, <2>12, <2>13
       DEF WorkerStep, Advance, Fault
<1> QED
  BY <1>1, <1>2, <1>3 DEF Next

\* For any number of workers, a batch is its worker's alone as long as the
\* transaction of its SELECT lives, through every publication and backoff.
THEOREM FetchTransactionCorrect == Spec => []FetchTransactionExcludes
<1>1. Init => FetchTransactionExcludes
  BY DEF Init, OutboxInit, WorkerInit, FetchTransactionExcludes,
         InFetchTransaction
<1>2. TypeOK /\ RowsInHand /\ FetchTransactionExcludes /\ [Next]_vars
      => FetchTransactionExcludes'
  BY NextExcludes
<1> QED
  BY <1>1, <1>2, TypeCorrect, RowsInHandCorrect, PTL DEF Spec

\* For any number of workers, one that waits for a row lock holds none, so
\* no set of workers can wait for each other's rows.
THEOREM NoDatabaseDeadlock == Spec => []BlockedHoldsNothing
<1>1. TypeOK /\ RowsInHand /\ FetchTransactionExcludes => BlockedHoldsNothing
  <2> SUFFICES ASSUME TypeOK, RowsInHand, FetchTransactionExcludes,
                      NEW w \in Workers, Blocked(w),
                      NEW e \in Requests, lock[e] = w
               PROVE  FALSE
    BY DEF BlockedHoldsNothing
  <2>1. session[w] = "open"
    BY NoOneAssumption DEF RowsInHand
  <2>2. current[w] \in Batch(w)
    BY DEF Blocked, Batch, TypeOK, WorkerTypeOK, Handling
  <2>3. lock[current[w]] = w
    BY <2>1, <2>2 DEF FetchTransactionExcludes, InFetchTransaction, Blocked
  <2> QED
    BY <2>3 DEF Blocked
<1> QED
  BY <1>1, TypeCorrect, RowsInHandCorrect, FetchTransactionCorrect, PTL

-----------------------------------------------------------------------------
(* What other workers and the database wait for                            *)

\* A worker lets go of an event after its transaction, or after a failure
\* that ended it; only a batch has a session.
LEMMA NextLocksAreInHand ==
    TypeOK /\ RowsInHand /\ LocksAreInHand /\ [Next]_vars => LocksAreInHand'
<1> SUFFICES ASSUME TypeOK, RowsInHand, LocksAreInHand, [Next]_vars
             PROVE  LocksAreInHand'
  OBVIOUS
<1> USE NoOneAssumption
    DEF TypeOK, OutboxTypeOK, WorkerTypeOK, Handling, RowsInHand,
        LocksAreInHand, Batch
<1>1. CASE UNCHANGED vars
  BY <1>1 DEF vars, workerVars
<1>2. ASSUME NEW e \in Requests, OrderCommitted(e) PROVE LocksAreInHand'
  BY <1>2 DEF OrderCommitted, workerVars
<1>3. ASSUME NEW w \in Workers, WorkerStep(w) PROVE LocksAreInHand'
  <2> USE DEF Goto, Session
  <2>1. CASE \/ Start(w) \/ Stop(w) \/ Exit(w) \/ SleepOver(w)
             \/ FetchNothing(w) \/ FetchFails(w)
    BY <2>1 DEF Start, Stop, Exit, SleepOver, FetchNothing, FetchFails
  <2>2. CASE FetchPending(w)
    BY <2>2 DEF FetchPending, Available, Pending
  <2>3. CASE NextEvent(w)
    BY <2>3 DEF NextEvent, Oldest
  <2>4. CASE EndBatch(w)
    BY <2>4 DEF EndBatch, Release
  <2>5. CASE Publish(w)
    BY <2>5 DEF Publish
  <2>6. CASE PublishFails(w)
    BY <2>6 DEF PublishFails, Retry
  <2>7. CASE BackoffOver(w)
    BY <2>7 DEF BackoffOver
  <2>8. CASE MarkProcessed(w) \/ MarkFailed(w)
    BY <2>8 DEF MarkProcessed, MarkFailed, Update
  <2>9. CASE CommitProcessed(w) \/ CommitFailed(w)
    BY <2>9 DEF CommitProcessed, CommitFailed, SetStatus, Release, Leave
  <2>10. CASE SessionRaises(w)
    BY <2>10 DEF SessionRaises, Retry, Leave
  <2>11. CASE DatabaseFault(w)
    BY <2>11 DEF DatabaseFault, Retry, Leave, Release, SetStatus
  <2>12. CASE ConnectionLost(w)
    BY <2>12 DEF ConnectionLost, Release
  <2>13. CASE Crash(w)
    BY <2>13 DEF Crash, Release, SetStatus, Forget
  <2> QED
    BY <1>3, <2>1, <2>2, <2>3, <2>4, <2>5, <2>6, <2>7, <2>8, <2>9, <2>10,
       <2>11, <2>12, <2>13
       DEF WorkerStep, Advance, Fault
<1> QED
  BY <1>1, <1>2, <1>3 DEF Next

\* For any number of workers and whatever fails, every locked row is in the
\* hands of its worker, so that SKIP LOCKED hides no row nobody works on.
THEOREM LocksAreInHandCorrect == Spec => []LocksAreInHand
<1>1. Init => LocksAreInHand
  BY NoOneAssumption
     DEF Init, OutboxInit, WorkerInit, LocksAreInHand
<1>2. TypeOK /\ RowsInHand /\ LocksAreInHand /\ [Next]_vars => LocksAreInHand'
  BY NextLocksAreInHand
<1> QED
  BY <1>1, <1>2, TypeCorrect, RowsInHandCorrect, PTL DEF Spec

\* Only finitely many orders have been committed at any time.
FinitelyStored == IsFiniteSet(Stored)

\* A step commits one order or stores no new row.
LEMMA NextFinitelyStored ==
    TypeOK /\ RowsInHand /\ FinitelyStored /\ [Next]_vars => FinitelyStored'
<1> SUFFICES ASSUME TypeOK, RowsInHand, FinitelyStored, [Next]_vars
             PROVE  FinitelyStored'
  OBVIOUS
<1>1. ASSUME NEW e \in Requests, OrderCommitted(e) PROVE FinitelyStored'
  <2>1. Stored' \subseteq Stored \cup {e}
    BY <1>1 DEF OrderCommitted, Stored, TypeOK, OutboxTypeOK
  <2>2. IsFiniteSet(Stored \cup {e})
    BY FS_AddElement DEF FinitelyStored
  <2> QED
    BY <2>1, <2>2, FS_Subset DEF FinitelyStored
<1>2. ASSUME NEW w \in Workers, WorkerStep(w) PROVE FinitelyStored'
  <2>1. \/ outbox' = outbox
        \/ /\ step[w] \in {"commit_processed", "commit_failed"}
           /\ SetStatus(w, "processed") \/ SetStatus(w, "failed")
    BY <1>2
       DEF WorkerStep, Advance, Fault, Start, Stop, Exit, SleepOver,
           FetchPending, FetchNothing, FetchFails, NextEvent, EndBatch,
           Publish, PublishFails, BackoffOver, MarkProcessed, MarkFailed,
           Update, CommitProcessed, CommitFailed, SessionRaises,
           DatabaseFault, ConnectionLost, Crash
  <2>2. step[w] \in Handling => current[w] \in Stored
    BY NoOneAssumption
       DEF TypeOK, WorkerTypeOK, RowsInHand, Batch, Stored
  <2>3. Stored' \subseteq Stored
    BY <2>1, <2>2 DEF Handling, SetStatus, Stored, TypeOK, OutboxTypeOK
  <2> QED
    BY <2>3, FS_Subset DEF FinitelyStored
<1>3. CASE UNCHANGED vars
  BY <1>3 DEF vars, FinitelyStored, Stored
<1> QED
  BY <1>1, <1>2, <1>3 DEF Next

LEMMA FinitelyStoredAlways == Spec => []FinitelyStored
<1>1. Init => FinitelyStored
  <2> SUFFICES ASSUME Init PROVE FinitelyStored
    OBVIOUS
  <2>1. Stored = {}
    BY DEF Init, OutboxInit, Stored
  <2> QED
    BY <2>1, FS_EmptySet DEF FinitelyStored
<1>2. TypeOK /\ RowsInHand /\ FinitelyStored /\ [Next]_vars => FinitelyStored'
  BY NextFinitelyStored
<1> QED
  BY <1>1, <1>2, TypeCorrect, RowsInHandCorrect, PTL DEF Spec

\* Whatever an await of a batch ends with, it leaves less work, or ends the
\* batch.
LEMMA NextBatchesEnd ==
    ASSUME TypeOK, RowsInHand, FinitelyStored, Next,
           NEW w \in Workers,
           step[w] \in Handling \cup {"next"}, step'[w] # step[w]
    PROVE  step'[w] \in {"sleep", "down"} \/ WorkLeft(w)' < WorkLeft(w)
<1>1. /\ IsFiniteSet(todo[w])
      /\ Cardinality(todo[w]) \in Nat
  <2>1. todo[w] \subseteq Stored
    BY DEF RowsInHand, Batch
  <2> QED
    BY <2>1, FS_Subset, FS_CardinalityType DEF FinitelyStored
<1>2. attempt[w] \in 0 .. 2
  BY DEF TypeOK, WorkerTypeOK, MAX_RETRIES
<1>3. WorkerStep(w)
  <2>1. ASSUME NEW e \in Requests, OrderCommitted(e) PROVE FALSE
    BY <2>1 DEF OrderCommitted, workerVars
  <2>2. ASSUME NEW v \in Workers, WorkerStep(v), v # w PROVE FALSE
    <3>1. step' = step \/ \E s \in Steps : step' = [step EXCEPT ![v] = s]
      BY <2>2
         DEF WorkerStep, Advance, Fault, Start, Stop, Exit, SleepOver,
             FetchPending, FetchNothing, FetchFails, NextEvent, EndBatch,
             Publish, PublishFails, BackoffOver, MarkProcessed, MarkFailed,
             Update, CommitProcessed, CommitFailed, SessionRaises,
             DatabaseFault, ConnectionLost, Crash, Retry, Leave, Goto, Steps
    <3> QED
      BY <2>2, <3>1 DEF TypeOK, WorkerTypeOK
  <2> QED
    BY <2>1, <2>2 DEF Next
<1>4. CASE NextEvent(w)
  <2>1. PICK e \in todo[w] :
          /\ todo' = [todo EXCEPT ![w] = @ \ {e}]
          /\ step' = [step EXCEPT ![w] = "publish"]
          /\ step[w] = "next" /\ attempt' = attempt
    BY <1>4 DEF NextEvent, Oldest, Goto
  <2>2. todo'[w] = todo[w] \ {e} /\ step'[w] = "publish"
        /\ attempt'[w] = attempt[w]
    BY <2>1 DEF TypeOK, WorkerTypeOK
  <2>3. Cardinality(todo'[w]) = Cardinality(todo[w]) - 1
    BY <1>1, <2>2, FS_RemoveElement
  <2>4. StepsLeft(w) = 0
    BY <2>1 DEF StepsLeft
  <2>5. StepsLeft(w)' \in 0 .. 14
    BY <1>2, <2>2 DEF StepsLeft, AttemptsLeft, MAX_RETRIES
  <2> QED
    BY <1>1, <2>3, <2>4, <2>5 DEF WorkLeft
<1>5. ASSUME todo'[w] = todo[w],
             StepsLeft(w) \in Int, StepsLeft(w)' \in Int,
             StepsLeft(w)' < StepsLeft(w)
      PROVE  WorkLeft(w)' < WorkLeft(w)
  BY <1>1, <1>5 DEF WorkLeft
<1> USE <1>2 DEF StepsLeft, AttemptsLeft, MAX_RETRIES, Goto, TypeOK,
        WorkerTypeOK
<1>6. CASE Publish(w)
  BY <1>5, <1>6 DEF Publish
<1>7. CASE PublishFails(w)
  BY <1>5, <1>7 DEF PublishFails, Retry
<1>8. CASE BackoffOver(w)
  BY <1>5, <1>8 DEF BackoffOver
<1>9. CASE MarkProcessed(w) \/ MarkFailed(w)
  BY <1>5, <1>9 DEF MarkProcessed, MarkFailed, Update
<1>10. CASE CommitProcessed(w) \/ CommitFailed(w)
  BY <1>5, <1>10 DEF CommitProcessed, CommitFailed, Leave
<1>11. CASE SessionRaises(w)
  BY <1>5, <1>11 DEF SessionRaises, Retry, Leave
<1>12. CASE DatabaseFault(w)
  BY <1>5, <1>12 DEF DatabaseFault, Retry, Leave
<1>13. CASE EndBatch(w) \/ Crash(w)
  BY <1>13 DEF EndBatch, Crash
<1>14. CASE Stop(w) \/ ConnectionLost(w)
  BY <1>14 DEF Stop, ConnectionLost
<1>15. step[w] \notin {"down", "loop", "sleep"}
  BY DEF Handling
<1> QED
  BY <1>3, <1>4, <1>6, <1>7, <1>8, <1>9, <1>10, <1>11, <1>12, <1>13, <1>14,
     <1>15
     DEF WorkerStep, Advance, Fault, Start, Exit, SleepOver, FetchPending,
         FetchNothing, FetchFails

\* For any number of workers, any batch size and whatever fails, each await
\* brings a batch nearer to its end.
THEOREM BatchesEndCorrect == Spec => BatchesEnd
<1>1. TypeOK /\ RowsInHand /\ FinitelyStored /\ [Next]_vars =>
        [\A w \in Workers :
            step[w] \in Handling \cup {"next"} /\ step'[w] # step[w] =>
                step'[w] \in {"sleep", "down"} \/ WorkLeft(w)' < WorkLeft(w)]_vars
  BY NextBatchesEnd
<1> QED
  BY <1>1, TypeCorrect, RowsInHandCorrect, FinitelyStoredAlways, PTL
     DEF Spec, BatchesEnd

-----------------------------------------------------------------------------
(* One worker                                                              *)

\* What keeps the lone worker's unguarded UPDATEs harmless: while its session
\* can still write, every event in its hands is pending.
HandsPending ==
    \A w \in Workers :
        /\ current[w] \notin todo[w]
        /\ session[w] # "broken" =>
              \A e \in Batch(w) : outbox[e] = "pending"

\* There is at most one worker.
Alone == \A v, w \in Workers : v = w

\* A COMMIT whose answer is lost breaks the session, and with it the worker's
\* way to overwrite the row.
LEMMA NextHandsPending ==
    TypeOK /\ Alone /\ RowsInHand /\ HandsPending /\ [Next]_vars => HandsPending'
<1> SUFFICES ASSUME TypeOK, Alone, RowsInHand, HandsPending,
                    [Next]_vars
             PROVE  HandsPending'
  OBVIOUS
<1> USE NoOneAssumption
    DEF TypeOK, OutboxTypeOK, WorkerTypeOK, Statuses, Handling, RowsInHand, HandsPending, Batch, Stored, Alone
<1>1. CASE UNCHANGED vars
  BY <1>1 DEF vars, workerVars
<1>2. ASSUME NEW e \in Requests, OrderCommitted(e) PROVE HandsPending'
  BY <1>2 DEF OrderCommitted, workerVars
<1>3. ASSUME NEW w \in Workers, WorkerStep(w) PROVE HandsPending'
  <2> USE DEF Goto
  <2>1. CASE \/ Start(w) \/ Stop(w) \/ Exit(w) \/ SleepOver(w)
             \/ FetchNothing(w) \/ FetchFails(w)
    BY <2>1 DEF Start, Stop, Exit, SleepOver, FetchNothing, FetchFails
  <2>2. CASE FetchPending(w)
    BY <2>2 DEF FetchPending, Available, Pending, Session
  <2>3. CASE NextEvent(w)
    BY <2>3 DEF NextEvent, Oldest
  <2>4. CASE EndBatch(w)
    BY <2>4 DEF EndBatch, Release, Session
  <2>5. CASE Publish(w)
    BY <2>5 DEF Publish
  <2>6. CASE PublishFails(w)
    BY <2>6 DEF PublishFails, Retry
  <2>7. CASE BackoffOver(w)
    BY <2>7 DEF BackoffOver
  <2>8. CASE MarkProcessed(w) \/ MarkFailed(w)
    BY <2>8 DEF MarkProcessed, MarkFailed, Update, Session
  <2>9. CASE CommitProcessed(w) \/ CommitFailed(w)
    BY <2>9
       DEF CommitProcessed, CommitFailed, SetStatus, Release, Leave, Session
  <2>10. CASE SessionRaises(w)
    BY <2>10 DEF SessionRaises, Retry, Leave
  <2>11. CASE DatabaseFault(w)
    BY <2>11 DEF DatabaseFault, Retry, Leave, Release, SetStatus, Session
  <2>12. CASE ConnectionLost(w)
    BY <2>12 DEF ConnectionLost, Release, Session
  <2>13. CASE Crash(w)
    BY <2>13 DEF Crash, Release, SetStatus, Forget, Session
  <2> QED
    BY <1>3, <2>1, <2>2, <2>3, <2>4, <2>5, <2>6, <2>7, <2>8, <2>9, <2>10,
    <2>11, <2>12, <2>13
       DEF WorkerStep, Advance, Fault
<1> QED
  BY <1>1, <1>2, <1>3 DEF Next

\* Whatever fails, one worker never changes the status of a settled row: the
\* lifecycle of models.py holds for it.
THEOREM AloneSettledIsFinal ==
    ASSUME Alone PROVE Spec => SettledIsFinal
<1>1. Init => HandsPending
  BY NoOneAssumption DEF Init, OutboxInit, WorkerInit, HandsPending, Batch
<1>2. TypeOK /\ RowsInHand /\ HandsPending /\ [Next]_vars => HandsPending'
  BY NextHandsPending
<1>3. TypeOK /\ RowsInHand /\ HandsPending /\ [Next]_vars
      => [\A e \in Requests : outbox[e] \in {"processed", "failed"}
             => outbox'[e] = outbox[e]]_vars
  <2> SUFFICES ASSUME TypeOK, RowsInHand, HandsPending, Next,
                      NEW e \in Requests, outbox[e] \in {"processed", "failed"}
               PROVE  outbox'[e] = outbox[e]
    OBVIOUS
  <2>1. ASSUME NEW f \in Requests, OrderCommitted(f)
        PROVE  outbox'[e] = outbox[e]
    BY <2>1 DEF OrderCommitted, TypeOK, OutboxTypeOK
  <2>2. ASSUME NEW w \in Workers, WorkerStep(w) PROVE outbox'[e] = outbox[e]
    <3>1. \/ outbox' = outbox
          \/ /\ step[w] \in {"commit_processed", "commit_failed"}
             /\ SetStatus(w, "processed") \/ SetStatus(w, "failed")
      BY <2>2
         DEF WorkerStep, Advance, Fault, Start, Stop, Exit, SleepOver,
             FetchPending, FetchNothing, FetchFails, NextEvent, EndBatch,
             Publish, PublishFails, BackoffOver, MarkProcessed, MarkFailed,
             Update, CommitProcessed, CommitFailed, SessionRaises,
             DatabaseFault, ConnectionLost, Crash
    <3>2. CASE step[w] \in {"commit_processed", "commit_failed"}
      <4>1. current[w] \in Requests /\ session[w] = "open"
        BY <3>2, NoOneAssumption
           DEF TypeOK, WorkerTypeOK, Handling, RowsInHand
      <4>2. outbox[current[w]] = "pending"
        BY <4>1, NoOneAssumption DEF HandsPending, Batch
      <4> QED
        BY <3>1, <4>2 DEF SetStatus, TypeOK, OutboxTypeOK
    <3> QED
      BY <3>1, <3>2
  <2> QED
    BY <2>1, <2>2 DEF Next
<1> QED
  BY <1>1, <1>2, <1>3, TypeCorrect, RowsInHandCorrect, PTL
     DEF Spec, SettledIsFinal

-----------------------------------------------------------------------------
(* Refinement                                                              *)

\* Every step of a worker is one abstract step or invisible.
LEMMA NextRefines ==
    TypeOK /\ RowsInHand /\ [Next]_vars => [Abstract!Next]_(Abstract!vars)
<1> SUFFICES ASSUME TypeOK, RowsInHand, [Next]_vars
             PROVE  Abstract!Next \/ UNCHANGED <<outbox, queue>>
  BY DEF Abstract!vars
<1> USE NoOneAssumption
<1>1. CASE UNCHANGED vars
  BY <1>1 DEF vars
<1>2. ASSUME NEW e \in Requests, OrderCommitted(e) PROVE Abstract!Next
  BY <1>2 DEF OrderCommitted, Abstract!Next, Abstract!Commit, Abstract!Set
<1>3. ASSUME NEW w \in Workers, WorkerStep(w)
      PROVE  Abstract!Next \/ UNCHANGED <<outbox, queue>>
  <2>1. \/ UNCHANGED <<outbox, queue>>
        \/ /\ step[w] = "publish" /\ UNCHANGED outbox
           /\ queue' = queue \cup {current[w]}
        \/ /\ step[w] = "commit_processed" /\ UNCHANGED queue
           /\ SetStatus(w, "processed")
        \/ /\ step[w] = "commit_failed" /\ UNCHANGED queue
           /\ SetStatus(w, "failed")
    BY <1>3
       DEF WorkerStep, Advance, Fault, Start, Stop, Exit, SleepOver,
           FetchPending, FetchNothing, FetchFails, NextEvent, EndBatch,
           Publish, PublishFails, BackoffOver, MarkProcessed, MarkFailed,
           Update, CommitProcessed, CommitFailed, SessionRaises,
           DatabaseFault, ConnectionLost, Crash
  <2>2. ASSUME step[w] \in Handling
        PROVE  current[w] \in Requests /\ outbox[current[w]] # "absent"
    BY <2>2 DEF TypeOK, WorkerTypeOK, RowsInHand, Batch, Stored
  <2>3. CASE step[w] = "publish" /\ UNCHANGED outbox
             /\ queue' = queue \cup {current[w]}
    BY <2>2, <2>3 DEF Handling, Abstract!Next, Abstract!Send
  <2>4. CASE step[w] = "commit_processed" /\ UNCHANGED queue
             /\ SetStatus(w, "processed")
    <3>1. current[w] \in queue
      BY <2>4 DEF RowsInHand
    <3> QED
      BY <2>2, <2>4, <3>1
         DEF Handling, SetStatus, Abstract!Next, Abstract!Acknowledge,
             Abstract!Set
  <2>5. CASE step[w] = "commit_failed" /\ UNCHANGED queue
             /\ SetStatus(w, "failed")
    BY <2>2, <2>5
       DEF Handling, SetStatus, Abstract!Next, Abstract!GiveUp, Abstract!Set
  <2> QED
    BY <2>1, <2>3, <2>4, <2>5
<1> QED
  BY <1>1, <1>2, <1>3 DEF Next

\* Any number of workers, with any faults, implement at-least-once delivery.
THEOREM WorkersRefine == Spec => ImplementsOutboxDelivery
<1>1. Init => Abstract!Init
  BY DEF Init, OutboxInit, WorkerInit, Abstract!Init
<1>2. TypeOK /\ RowsInHand /\ [Next]_vars => [Abstract!Next]_(Abstract!vars)
  BY NextRefines
<1> QED
  BY <1>1, <1>2, TypeCorrect, RowsInHandCorrect, PTL
     DEF Spec, ImplementsOutboxDelivery, Abstract!Spec
=============================================================================
