---------------------------- MODULE OutboxWorker ----------------------------
(***************************************************************************)
(* The outbox worker: the polling loop of OutboxWorker, the rows it locks  *)
(* with SELECT ... FOR UPDATE SKIP LOCKED, the publication to SQS and its  *)
(* retries, and the database session all events of one batch share.  Every *)
(* worker process is one member of Workers; every await is one action.     *)
(*                                                                         *)
(* The session is what makes the worker subtle.  The first commit inside a *)
(* batch ends the transaction of the SELECT, and with it the locks on the  *)
(* rest of the batch.  A statement or COMMIT that raises is never rolled   *)
(* back inside the batch, so from then on every statement of the session   *)
(* raises until the batch ends and the session is closed.                  *)
(***************************************************************************)
EXTENDS OutboxTable

CONSTANTS
    Workers,    \* the worker processes
    NoOne,      \* "no worker" and "no event"
    BatchSize,  \* outbox_batch_size, the LIMIT of the query
    FaultKinds  \* the faults beyond SQS errors the environment may inject

ASSUME NoOneAssumption == NoOne \notin Workers \cup Requests
ASSUME BatchAssumption == BatchSize \in Nat \ {0}
ASSUME FaultAssumption == FaultKinds \subseteq {"crash", "connection", "database"}

VARIABLES
    step,       \* the await at which each worker is
    running,    \* OutboxWorker._running
    session,    \* the state of the batch's session
    todo,       \* the events of the batch still to process
    current,    \* the event being processed
    attempt,    \* the attempt it is in, from 0
    lock,       \* the transaction that holds each row's lock
    queue       \* the events whose message has reached SQS, once or more

workerVars == <<step, running, session, todo, current, attempt>>

vars == <<outbox, created_at, lock, queue, workerVars>>

-----------------------------------------------------------------------------
(* Types and initial state                                                 *)

\* len(RETRY_DELAYS), where RETRY_DELAYS = [1, 5, 30].
MAX_RETRIES == 3

Steps == {"down", "loop", "next", "publish", "mark_processed",
          "commit_processed", "backoff", "mark_failed", "commit_failed",
          "sleep"}

\* The steps at which a worker has an event in hand.
Handling == {"publish", "mark_processed", "commit_processed", "backoff",
             "mark_failed", "commit_failed"}

\* closed: outside "async with"; open: in a transaction; clean: between two
\* transactions; broken: a transaction failed and nobody rolled it back.
Sessions == {"closed", "open", "clean", "broken"}

WorkerTypeOK ==
    /\ step \in [Workers -> Steps]
    /\ running \in [Workers -> BOOLEAN]
    /\ session \in [Workers -> Sessions]
    /\ todo \in [Workers -> SUBSET Requests]
    /\ current \in [Workers -> Requests \cup {NoOne}]
    /\ \A w \in Workers : current[w] = NoOne <=> step[w] \notin Handling
    /\ attempt \in [Workers -> 0 .. MAX_RETRIES - 1]
    /\ \A w \in Workers : step[w] = "backoff" => attempt[w] < MAX_RETRIES - 1
    /\ lock \in [Requests -> Workers \cup {NoOne}]
    /\ queue \subseteq Requests

WorkerInit ==
    /\ step = [w \in Workers |-> "down"]
    /\ running = [w \in Workers |-> FALSE]
    /\ session = [w \in Workers |-> "closed"]
    /\ todo = [w \in Workers |-> {}]
    /\ current = [w \in Workers |-> NoOne]
    /\ attempt = [w \in Workers |-> 0]
    /\ lock = [e \in Requests |-> NoOne]
    /\ queue = {}

-----------------------------------------------------------------------------
(* Helpers                                                                 *)

Goto(w, s) == step' = [step EXCEPT ![w] = s]

Session(w, s) == session' = [session EXCEPT ![w] = s]

\* What the worker forgets when a batch or the process ends.
Forget(w) ==
    /\ todo' = [todo EXCEPT ![w] = {}]
    /\ current' = [current EXCEPT ![w] = NoOne]
    /\ attempt' = [attempt EXCEPT ![w] = 0]

\* A transaction ends, with COMMIT or without: all its row locks go.
Release(w) == lock' = [e \in Requests |-> IF lock[e] = w THEN NoOne ELSE lock[e]]

\* The events in w's hands.
Batch(w) == todo[w] \cup ({current[w]} \ {NoOne})

\* UPDATE ... WHERE id = :id, whatever the row's status is now.
SetStatus(w, s) == outbox' = [outbox EXCEPT ![current[w]] = s]

\* The rows the query can take: pending, and not locked by anybody.
Available == {e \in Pending : lock[e] = NoOne}

\* The UPDATE on w's event must wait for another worker's transaction.
Blocked(w) ==
    /\ step[w] \in {"mark_processed", "mark_failed"}
    /\ session[w] # "broken"
    /\ lock[current[w]] \notin {w, NoOne}

\* An UPDATE of w's event goes through: its row is locked by w.
Update(w, s) ==
    /\ session[w] # "broken"
    /\ lock[current[w]] \in {w, NoOne}
    /\ lock' = [lock EXCEPT ![current[w]] = w]
    /\ Session(w, "open")
    /\ Goto(w, s)
    /\ UNCHANGED <<outbox, created_at, queue, running, todo, current, attempt>>

\* A slip in Retry: one attempt too many.
RetryOffByOne(w) ==
    Goto(w, IF attempt[w] < MAX_RETRIES THEN "backoff" ELSE "mark_failed")

\* except Exception: sleep and try again, or give up after the last attempt
\* without sleeping.
Retry(w) ==
    Goto(w, IF attempt[w] < MAX_RETRIES - 1 THEN "backoff" ELSE "mark_failed")

\* The event is done with, whatever became of its row.
Leave(w) ==
    /\ Goto(w, "next")
    /\ current' = [current EXCEPT ![w] = NoOne]
    /\ attempt' = [attempt EXCEPT ![w] = 0]

-----------------------------------------------------------------------------
(* Slips: each is a plausible wrong version of the action its comment      *)
(* names.  No specification uses them; the properties below reject them.   *)

\* FetchPending, without with_for_update(skip_locked=True).
FetchPendingUnlocked(w) ==
    /\ step[w] = "loop" /\ running[w]
    /\ Pending # {}
    /\ \E S \in SUBSET Pending :
          /\ S # {} /\ Cardinality(S) <= BatchSize
          /\ todo' = [todo EXCEPT ![w] = S]
    /\ Session(w, "open")
    /\ Goto(w, "next")
    /\ UNCHANGED <<outbox, created_at, lock, queue, running, current, attempt>>

\* FetchPending, that reads a batch and then locks what is free of it.
FetchPendingTwice(w) ==
    /\ step[w] = "loop" /\ running[w]
    /\ Pending # {}
    /\ \E S \in SUBSET Pending :
          /\ S # {} /\ Cardinality(S) <= BatchSize
          /\ todo' = [todo EXCEPT ![w] = S]
          /\ lock' = [e \in Requests |-> IF e \in S \cap Available THEN w ELSE lock[e]]
    /\ Session(w, "open")
    /\ Goto(w, "next")
    /\ UNCHANGED <<outbox, created_at, queue, running, current, attempt>>

\* PublishFails, with the exception swallowed in the publisher.
PublishFailsSwallowed(w) ==
    /\ step[w] = "publish"
    /\ Goto(w, "mark_processed")
    /\ UNCHANGED <<outbox, created_at, lock, queue, running, session, todo,
                   current, attempt>>

\* PublishFails, that drops the event after its last attempt.
PublishFailsSkipping(w) ==
    /\ step[w] = "publish"
    /\ queue' \in {queue, queue \cup {current[w]}}
    /\ IF attempt[w] < MAX_RETRIES - 1
       THEN Goto(w, "backoff") /\ UNCHANGED <<current, attempt>>
       ELSE Leave(w)
    /\ UNCHANGED <<outbox, created_at, lock, running, session, todo>>

\* BackoffOver, in a "while" loop that forgets to count.
BackoffOverUncounted(w) ==
    /\ step[w] = "backoff"
    /\ Goto(w, "publish")
    /\ UNCHANGED <<outbox, created_at, lock, queue, running, session, todo,
                   current, attempt>>

\* SleepOver, in a loop that starts over with _running = True.
SleepOverRearmed(w) ==
    /\ step[w] = "sleep"
    /\ running' = [running EXCEPT ![w] = TRUE]
    /\ Goto(w, "loop")
    /\ UNCHANGED <<outbox, created_at, lock, queue, session, todo, current,
                   attempt>>

\* CommitProcessed, with one UPDATE for the whole batch.
CommitProcessedBatch(w) ==
    /\ step[w] = "commit_processed"
    /\ outbox' = [e \in Requests |-> IF e \in Batch(w) THEN "processed" ELSE outbox[e]]
    /\ Release(w)
    /\ Session(w, "clean")
    /\ Leave(w)
    /\ UNCHANGED <<created_at, queue, running, todo>>

\* CommitProcessed, with the processed row deleted to keep the table small.
CommitProcessedDeleting(w) ==
    /\ step[w] = "commit_processed"
    /\ SetStatus(w, "absent")
    /\ Release(w)
    /\ Session(w, "clean")
    /\ Leave(w)
    /\ UNCHANGED <<created_at, queue, running, todo>>

\* DatabaseFault, with the rollback the worker's handlers lack.
DatabaseFaultRolledBack(w) ==
    /\ "database" \in FaultKinds
    /\ step[w] \in {"mark_processed", "commit_processed", "mark_failed",
                    "commit_failed"}
    /\ \/ step[w] = "commit_processed" /\ SetStatus(w, "processed")
       \/ step[w] = "commit_failed" /\ SetStatus(w, "failed")
       \/ UNCHANGED outbox
    /\ IF step[w] \in {"mark_processed", "commit_processed"}
       THEN Retry(w) /\ UNCHANGED <<current, attempt>>
       ELSE Leave(w)
    /\ Release(w)
    /\ Session(w, "clean")
    /\ UNCHANGED <<created_at, queue, running, todo>>

-----------------------------------------------------------------------------
(* The process: start, stop, and the loop                                  *)

\* The API commits an order together with its event.
OrderCommitted(e) ==
    /\ outbox[e] = "absent"
    /\ outbox' = [outbox EXCEPT ![e] = "pending"]
    /\ \E t \in Times : created_at' = [created_at EXCEPT ![e] = t]
    /\ UNCHANGED <<lock, queue, workerVars>>

\* A worker process starts, for the first time or again.
Start(w) ==
    /\ step[w] = "down"
    /\ running' = [running EXCEPT ![w] = TRUE]
    /\ Goto(w, "loop")
    /\ UNCHANGED <<outbox, created_at, lock, queue, session, todo, current,
                   attempt>>

\* SIGTERM or SIGINT: the handler only clears the flag.
Stop(w) ==
    /\ step[w] # "down" /\ running[w]
    /\ running' = [running EXCEPT ![w] = FALSE]
    /\ UNCHANGED <<outbox, created_at, lock, queue, step, session, todo,
                   current, attempt>>

\* The loop reads the flag between two batches only.
Exit(w) ==
    /\ step[w] = "loop" /\ ~running[w]
    /\ Goto(w, "down")
    /\ UNCHANGED <<outbox, created_at, lock, queue, running, session, todo,
                   current, attempt>>

SleepOver(w) ==
    /\ step[w] = "sleep"
    /\ Goto(w, "loop")
    /\ UNCHANGED <<outbox, created_at, lock, queue, running, session, todo,
                   current, attempt>>

-----------------------------------------------------------------------------
(* The batch                                                               *)

\* SELECT ... WHERE status = 'pending' ORDER BY created_at LIMIT n FOR
\* UPDATE SKIP LOCKED: the oldest rows nobody has locked.
FetchPending(w) ==
    /\ step[w] = "loop" /\ running[w]
    /\ Available # {}
    /\ \E S \in SUBSET Available :
          /\ S # Available => Cardinality(S) = BatchSize
          /\ Cardinality(S) <= BatchSize
          /\ \A e \in S, f \in Available \ S : created_at[e] <= created_at[f]
          /\ todo' = [todo EXCEPT ![w] = S]
          /\ lock' = [e \in Requests |-> IF e \in S THEN w ELSE lock[e]]
    /\ Session(w, "open")
    /\ Goto(w, "next")
    /\ UNCHANGED <<outbox, created_at, queue, running, current, attempt>>

\* "if not events: return" closes the session again.
FetchNothing(w) ==
    /\ step[w] = "loop" /\ running[w]
    /\ Available = {}
    /\ Goto(w, "sleep")
    /\ UNCHANGED <<outbox, created_at, lock, queue, running, session, todo,
                   current, attempt>>

\* The connection or the SELECT raises: start() logs it and sleeps.
FetchFails(w) ==
    /\ "database" \in FaultKinds
    /\ step[w] = "loop" /\ running[w]
    /\ Available # {}
    /\ Goto(w, "sleep")
    /\ UNCHANGED <<outbox, created_at, lock, queue, running, session, todo,
                   current, attempt>>

NextEvent(w) ==
    /\ step[w] = "next"
    /\ \E e \in Oldest(todo[w]) :
          /\ todo' = [todo EXCEPT ![w] = @ \ {e}]
          /\ current' = [current EXCEPT ![w] = e]
    /\ Goto(w, "publish")
    /\ UNCHANGED <<outbox, created_at, lock, queue, running, session, attempt>>

\* "async with" ends: whatever transaction is left is rolled back.
EndBatch(w) ==
    /\ step[w] = "next" /\ todo[w] = {}
    /\ Release(w)
    /\ Session(w, "closed")
    /\ Goto(w, "sleep")
    /\ UNCHANGED <<outbox, created_at, queue, running, todo, current, attempt>>

-----------------------------------------------------------------------------
(* One event                                                               *)

Publish(w) ==
    /\ step[w] = "publish"
    /\ queue' = queue \cup {current[w]}
    /\ Goto(w, "mark_processed")
    /\ UNCHANGED <<outbox, created_at, lock, running, session, todo, current,
                   attempt>>

\* publish() raises, be it that SQS refused the message, was unreachable,
\* or accepted it and its answer was lost.
PublishFails(w) ==
    /\ step[w] = "publish"
    /\ queue' \in {queue, queue \cup {current[w]}}
    /\ Retry(w)
    /\ UNCHANGED <<outbox, created_at, lock, running, session, todo, current,
                   attempt>>

BackoffOver(w) ==
    /\ step[w] = "backoff"
    /\ attempt' = [attempt EXCEPT ![w] = @ + 1]
    /\ Goto(w, "publish")
    /\ UNCHANGED <<outbox, created_at, lock, queue, running, session, todo,
                   current>>

MarkProcessed(w) == step[w] = "mark_processed" /\ Update(w, "commit_processed")

MarkFailed(w) == step[w] = "mark_failed" /\ Update(w, "commit_failed")

CommitProcessed(w) ==
    /\ step[w] = "commit_processed"
    /\ SetStatus(w, "processed")
    /\ Release(w)
    /\ Session(w, "clean")
    /\ Leave(w)
    /\ UNCHANGED <<created_at, queue, running, todo>>

CommitFailed(w) ==
    /\ step[w] = "commit_failed"
    /\ SetStatus(w, "failed")
    /\ Release(w)
    /\ Session(w, "clean")
    /\ Leave(w)
    /\ UNCHANGED <<created_at, queue, running, todo>>

\* The session refuses the statement.  In the attempt loop that is one more
\* failed attempt; after it, the error is logged and the event left.
SessionRaises(w) ==
    /\ session[w] = "broken"
    /\ \/ /\ step[w] = "mark_processed"
          /\ Retry(w)
          /\ UNCHANGED <<current, attempt>>
       \/ step[w] = "mark_failed" /\ Leave(w)
    /\ UNCHANGED <<outbox, created_at, lock, queue, running, session, todo>>

-----------------------------------------------------------------------------
(* Failures                                                                *)

\* An UPDATE or a COMMIT raises: the transaction is lost, or it is durable
\* and only the answer to COMMIT is lost.  If not even a connection was had
\* for the UPDATE, the session stays as it was.
DatabaseFault(w) ==
    /\ "database" \in FaultKinds
    /\ step[w] \in {"mark_processed", "commit_processed", "mark_failed",
                    "commit_failed"}
    /\ session[w] # "broken"
    /\ \/ step[w] = "commit_processed" /\ SetStatus(w, "processed")
       \/ step[w] = "commit_failed" /\ SetStatus(w, "failed")
       \/ UNCHANGED outbox
    /\ IF step[w] \in {"mark_processed", "commit_processed"}
       THEN Retry(w) /\ UNCHANGED <<current, attempt>>
       ELSE Leave(w)
    /\ Release(w)
    /\ \/ Session(w, "broken")
       \/ session[w] = "clean" /\ UNCHANGED session
    /\ UNCHANGED <<created_at, queue, running, todo>>

\* The connection of an open transaction is cut: PostgreSQL ends the
\* transaction at once, the worker finds out at its next statement.
ConnectionLost(w) ==
    /\ "connection" \in FaultKinds
    /\ session[w] = "open"
    /\ step[w] \in {"next", "publish", "backoff", "mark_processed",
                    "mark_failed"}
    /\ Release(w)
    /\ Session(w, "broken")
    /\ UNCHANGED <<outbox, created_at, queue, step, running, todo, current,
                   attempt>>

\* The process dies.  A COMMIT already sent may still take effect.
Crash(w) ==
    /\ "crash" \in FaultKinds
    /\ step[w] # "down"
    /\ \/ step[w] = "commit_processed" /\ SetStatus(w, "processed")
       \/ step[w] = "commit_failed" /\ SetStatus(w, "failed")
       \/ UNCHANGED outbox
    /\ Release(w)
    /\ Session(w, "closed")
    /\ Goto(w, "down")
    /\ running' = [running EXCEPT ![w] = FALSE]
    /\ Forget(w)
    /\ UNCHANGED <<created_at, queue>>

-----------------------------------------------------------------------------
(* Specification                                                           *)

\* The event loop's own progress.
Advance(w) ==
    \/ Exit(w) \/ SleepOver(w) \/ FetchPending(w) \/ FetchNothing(w)
    \/ NextEvent(w) \/ EndBatch(w) \/ Publish(w) \/ PublishFails(w)
    \/ BackoffOver(w) \/ MarkProcessed(w) \/ MarkFailed(w)
    \/ CommitProcessed(w) \/ CommitFailed(w) \/ SessionRaises(w)

Fault(w) ==
    FetchFails(w) \/ DatabaseFault(w) \/ ConnectionLost(w) \/ Crash(w)

WorkerStep(w) == Start(w) \/ Stop(w) \/ Advance(w) \/ Fault(w)

Init == OutboxInit /\ WorkerInit

Next ==
    \/ \E e \in Requests : OrderCommitted(e)
    \/ \E w \in Workers : WorkerStep(w)

\* A live process goes on: sleeps end, SQS and PostgreSQL answer or raise,
\* and a row lock is granted once it is free.  Nothing makes an operator
\* start a worker, an order arrive, or a fault happen or stay away.
Fairness == \A w \in Workers : WF_vars(Advance(w))

Spec == Init /\ [][Next]_vars

FairSpec == Spec /\ Fairness

-----------------------------------------------------------------------------
(* Safety                                                                  *)

\* The type invariant of the workers' state and of the outbox rows.
TypeOK == OutboxTypeOK /\ WorkerTypeOK

\* w is in the transaction of its SELECT, before its first UPDATE.
InFetchTransaction(w) ==
    session[w] = "open" /\ step[w] \notin {"commit_processed", "commit_failed"}

\* As long as the transaction of the SELECT lives, the batch is w's alone:
\* every event in w's hands is locked by w and still pending, through all
\* publications and backoffs, whatever the other workers do meanwhile.
FetchTransactionExcludes ==
    \A w \in Workers : InFetchTransaction(w) =>
        \A e \in Batch(w) : lock[e] = w /\ outbox[e] = "pending"

\* At-least-once: a row is only ever marked processed for a message that has
\* reached SQS, so no event is lost behind a "processed", however attempts,
\* crashes and the two workers of a shared event interleave.
ProcessedWasPublished ==
    \A e \in Requests : outbox[e] = "processed" => e \in queue

\* A worker that waits for a row lock holds none itself, so workers that
\* share a batch after its first commit cannot deadlock in the database.
BlockedHoldsNothing ==
    \A w \in Workers : Blocked(w) => \A e \in Requests : lock[e] # w

\* What makes the properties above inductive: a row lock belongs to a live
\* transaction, a COMMIT writes a row its transaction has locked, workers
\* only handle committed events, and an event about to be marked processed
\* has been sent.
RowsInHand ==
    /\ \A e \in Requests : lock[e] # NoOne => session[lock[e]] = "open"
    /\ \A w \in Workers :
          /\ step[w] \in {"commit_processed", "commit_failed"}
                => lock[current[w]] = w
          /\ step[w] \in {"mark_processed", "commit_processed"}
                => current[w] \in queue
          /\ Batch(w) \subseteq Stored
    /\ queue \subseteq Stored

\* The only rows the other workers skip are those whose owner will still
\* settle them: on no path through a batch, its retries and its failures is a
\* row left locked that its worker has already let go of.
LocksAreInHand ==
    /\ \A w \in Workers : \A e \in Requests : lock[e] = w => e \in Batch(w)
    /\ \A w \in Workers :
          session[w] # "closed" => step[w] \in Handling \cup {"next"}

\* The awaits a batch can still make: at most 14 for every event that waits
\* its turn, and for the event in hand what its attempt leaves.
AttemptsLeft(w) == 4 * (MAX_RETRIES - attempt[w])

StepsLeft(w) ==
    CASE step[w] = "publish" -> AttemptsLeft(w) + 2
      [] step[w] = "mark_processed" -> AttemptsLeft(w) + 1
      [] step[w] = "commit_processed" -> AttemptsLeft(w)
      [] step[w] = "backoff" -> AttemptsLeft(w) - 1
      [] step[w] = "mark_failed" -> 2
      [] step[w] = "commit_failed" -> 1
      [] OTHER -> 0

WorkLeft(w) == 15 * Cardinality(todo[w]) + StepsLeft(w)

\* Every await of a batch brings its end nearer: no failure of SQS or of the
\* database, no broken session and no other worker makes it retry without
\* end, so that its locks, and a stop, wait for a bounded number of awaits.
BatchesEnd ==
    [][\A w \in Workers :
          step[w] \in Handling \cup {"next"} /\ step'[w] # step[w] =>
              step'[w] \in {"sleep", "down"} \/ WorkLeft(w)' < WorkLeft(w)]_vars

\* A settled row keeps its status.  True of one worker, whatever fails, for
\* a session that lost the answer to a COMMIT refuses the later UPDATEs;
\* with two workers mark_failed can overwrite a processed row.
SettledIsFinal ==
    [][\A e \in Requests : outbox[e] \in {"processed", "failed"}
          => outbox'[e] = outbox[e]]_vars

-----------------------------------------------------------------------------
(* Liveness, under FairSpec                                                *)

\* If some worker stays up and faults come to an end, every stored event is
\* settled, whether SQS recovers or not: no lock, broken session or worker
\* that died half-way through a batch keeps it pending.
PendingIsSettled ==
    /\ \E w \in Workers : <>[](running[w])
    /\ <>[][\A w \in Workers : ~Fault(w)]_vars
    => \A e \in Requests :
          outbox[e] = "pending" ~> outbox[e] \in {"processed", "failed"}

\* Once faults come to an end, a worker that was told to stop goes down: it
\* finishes the batch it is in, however its sends fail, whatever its broken
\* session refuses and whatever rows it must wait for, and fetches no other.
StopIsHonoured ==
    <>[][\A w \in Workers : ~Fault(w)]_vars
    => \A w \in Workers : step[w] # "down" /\ ~running[w] ~> step[w] = "down"

-----------------------------------------------------------------------------
(* Refinement                                                              *)

\* Seen from the table and the queue, any number of workers, with all
\* faults, only send what is committed and only settle what is stored.
Abstract == INSTANCE OutboxDelivery

ImplementsOutboxDelivery == Abstract!Spec

-----------------------------------------------------------------------------
(* What the repository's documents say of the worker and its code does not *)

\* README.md, SELECT FOR UPDATE SKIP LOCKED: "garante que cada instancia do
\* worker pega um lote exclusivo de eventos".  The first commit inside a
\* batch gives the rest of it away.
ExclusiveBatches ==
    \A v, w \in Workers : v # w => Batch(v) \cap Batch(w) = {}

\* models.py: "Lifecycle: pending -> processed | failed".
StatusLifecycle ==
    [][\A e \in Requests : outbox'[e] # outbox[e] =>
          outbox[e] = "absent" \/ outbox[e] = "pending"]_vars

\* README.md, retry table: after attempt 3 the worker "Marca evento como
\* `failed` e loga `outbox_processing_failed`".  The log and the counter of
\* failed messages come even when the row could not be marked.
ReportedFailureIsStored ==
    [][\A w \in Workers :
          step[w] \in {"mark_failed", "commit_failed"} /\ step'[w] = "next"
          => outbox'[current[w]] = "failed"]_vars

\* README.md, retry table: attempt 3 also waits, 30 seconds.
EveryFailedAttemptWaits ==
    [][\A w \in Workers :
          step[w] = "publish" /\ step'[w] # "publish"
          => step'[w] \in {"mark_processed", "backoff"}]_vars

\* outbox_worker.py: "Each event is processed individually with retry."
\* After a database fault on one event, the events behind it in the batch
\* are published three times each, through a session in which none of them
\* can be marked any more.
EventsFailIndividually ==
    \A w \in Workers :
        step[w] = "publish" /\ attempt[w] = 0 => session[w] # "broken"
=============================================================================
