------------------------------ MODULE SqsQueue ------------------------------
(***************************************************************************)
(* The queue behind the worker: every message the workers send, and what   *)
(* becomes of it in orders-queue and orders-dlq as localstack-init.sh      *)
(* configures them.  Where OutboxWorker's `queue` only says which events   *)
(* have been sent, here each request that SQS accepts adds a message of    *)
(* its own.  One attempt of a worker is one send_message, and botocore     *)
(* makes several requests of it when answers are lost: the client in       *)
(* sqs_publisher.py has no Config, so it has the default retries.          *)
(*                                                                         *)
(* The readers are `dev.py sqs-messages`, which receives and never         *)
(* deletes, and the consumer the repository does not contain, which may    *)
(* delete what it has received.                                            *)
(***************************************************************************)
EXTENDS OutboxTable

CONSTANTS
    Workers, NoOne, BatchSize, FaultKinds,  \* of OutboxWorker
    SendRequests,       \* the requests botocore makes of one send_message
    MaxReceiveCount,    \* of the redrive policy
    MaxCopies,          \* a bound for TLC: messages per event and worker
    MaxRead             \* a bound for TLC: messages that are ever received

ASSUME QueueAssumption ==
    /\ NoOne \notin Workers \cup Requests
    /\ BatchSize \in Nat \ {0}
    /\ FaultKinds \subseteq {"crash", "connection", "database"}
    /\ SendRequests \in Nat \ {0}
    /\ MaxReceiveCount \in Nat \ {0}
    /\ MaxCopies \in Nat \ {0}
    /\ MaxRead \in Nat

VARIABLES
    lock, queue, step, running, session, todo, current, attempt,
    place,      \* where each message is
    receives,   \* its ApproximateReceiveCount
    faulted     \* history: something else than SQS has failed

W == INSTANCE OutboxWorker

workerVars ==
    <<outbox, created_at, lock, queue, step, running, session, todo, current, attempt>>

vars == <<workerVars, place, receives, faulted>>

-----------------------------------------------------------------------------
(* Types and initial state                                                 *)

Copies == 1 .. MaxCopies

\* A message is known by its event, its sender, and its number among theirs.
Messages == Requests \X Workers \X Copies

\* hidden: received, and within its visibility timeout.
Places == {"unsent", "visible", "hidden", "deleted", "dead"}

TypeOK ==
    /\ place \in [Messages -> Places]
    /\ receives \in [Messages -> 0 .. MaxReceiveCount]
    /\ faulted \in BOOLEAN

Init ==
    /\ W!Init
    /\ place = [m \in Messages |-> "unsent"]
    /\ receives = [m \in Messages |-> 0]
    /\ faulted = FALSE

\* The copies of e that w has sent, in whatever batch.
Sent(e, w) == {c \in Copies : place[<<e, w, c>>] # "unsent"}

Move(m, p) == place' = [place EXCEPT ![m] = p]

-----------------------------------------------------------------------------
(* Slips: each is a plausible wrong version of the action its comment      *)
(* names.  No specification uses them; the properties below reject them.   *)

\* Receive, that dead-letters one receive too late.
ReceiveOnceMore(m) ==
    /\ place[m] = "visible"
    /\ Cardinality({n \in Messages \ {m} : receives[n] > 0}) < MaxRead
    /\ IF receives[m] <= MaxReceiveCount
       THEN Move(m, "hidden") /\ receives' = [receives EXCEPT ![m] = @ + 1]
       ELSE Move(m, "dead") /\ UNCHANGED receives
    /\ UNCHANGED <<workerVars, faulted>>

-----------------------------------------------------------------------------
(* The workers                                                             *)

\* send_message has taken effect, once or, if botocore had to repeat it, up
\* to SendRequests times: the copies of w from first to last are new.
Send(e, w) ==
    \E first, last \in Copies :
        /\ Sent(e, w) = 1 .. (first - 1)
        /\ first <= last /\ last < first + SendRequests
        /\ place' = [m \in Messages |->
                        IF m \in {e} \X {w} \X (first .. last) THEN "visible"
                        ELSE place[m]]
        /\ UNCHANGED receives

\* A worker goes on, with its message if it sends one.
Proceed(w) ==
    /\ \/ W!Publish(w) /\ Send(current[w], w)
       \/ /\ W!PublishFails(w)
          /\ \/ queue' = queue /\ UNCHANGED <<place, receives>>
             \/ current[w] \in queue' /\ Send(current[w], w)
       \/ /\ step[w] # "publish" /\ W!Advance(w)
          /\ UNCHANGED <<place, receives>>
    /\ UNCHANGED faulted

Work(w) ==
    \/ Proceed(w)
    \/ (W!Start(w) \/ W!Stop(w)) /\ UNCHANGED <<place, receives, faulted>>
    \/ W!Fault(w) /\ faulted' = TRUE /\ UNCHANGED <<place, receives>>

-----------------------------------------------------------------------------
(* The readers                                                             *)

Received == {m \in Messages : receives[m] > 0}

\* A receive returns the message, unless it has been received too often:
\* then SQS moves it to orders-dlq.
Receive(m) ==
    /\ place[m] = "visible"
    /\ m \in Received \/ Cardinality(Received) < MaxRead
    /\ IF receives[m] < MaxReceiveCount
       THEN Move(m, "hidden") /\ receives' = [receives EXCEPT ![m] = @ + 1]
       ELSE Move(m, "dead") /\ UNCHANGED receives
    /\ UNCHANGED <<workerVars, faulted>>

Reappear(m) ==
    /\ place[m] = "hidden"
    /\ Move(m, "visible")
    /\ UNCHANGED <<receives, workerVars, faulted>>

\* Only the consumer does this.
Delete(m) ==
    /\ place[m] = "hidden"
    /\ Move(m, "deleted")
    /\ UNCHANGED <<receives, workerVars, faulted>>

Read(m) == Receive(m) \/ Reappear(m)

-----------------------------------------------------------------------------
(* Specification                                                           *)

Next ==
    \/ \E e \in Requests : W!OrderCommitted(e) /\ UNCHANGED <<place, receives, faulted>>
    \/ \E w \in Workers : Work(w)
    \/ \E m \in Messages : Read(m) \/ Delete(m)

Spec == Init /\ [][Next]_vars

-----------------------------------------------------------------------------
(* Properties                                                              *)

\* As long as neither a process nor the database has failed, no worker sends
\* an event more often than botocore makes requests in its attempts: however
\* SQS loses answers, and although the workers share events once the first
\* commit of a batch has released its locks.  It is the most a consumer has
\* to tell apart.
DuplicatesAreBounded ==
    ~faulted => \A e \in Requests, w \in Workers :
        Cardinality(Sent(e, w)) <= W!MAX_RETRIES * SendRequests

\* And an event that has been sent stays pending only in the hands of the
\* workers that sent it: without such a failure no later batch sends it once
\* more, not after a stop between two attempts either.
ResentOnlyAfterFaults ==
    ~faulted => \A e \in Requests, w \in Workers :
        outbox[e] = "pending" /\ Sent(e, w) # {} => current[w] = e

-----------------------------------------------------------------------------
(* What the repository's documents say of the queues and the code does not *)

\* README.md, Amazon SQS: "A DLQ (`orders-dlq`) recebe mensagens que
\* esgotaram os retries no worker".  The worker gives up on a send by
\* marking the row: if no attempt got through, there is no message that any
\* reader could ever bring to orders-dlq.
ExhaustedIsDeadLettered ==
    \A e \in Requests :
        outbox[e] = "failed" => \E w \in Workers : Sent(e, w) # {}
=============================================================================
