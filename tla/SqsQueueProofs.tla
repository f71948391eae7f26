--------------------------- MODULE SqsQueueProofs ---------------------------
(***************************************************************************)
(* Theorems of SqsQueue, for any sets of events and workers, any number of *)
(* requests in one send_message, any redrive limit and any bounds for TLC: *)
(* how many messages of one event a worker sends before the first fault,   *)
(* and that it sends none after it has let go of the event.                *)
(***************************************************************************)
EXTENDS SqsQueue, FiniteSetTheorems, TLAPS

P == INSTANCE OutboxWorkerProofs

-----------------------------------------------------------------------------
(* The workers of SqsQueue are those of OutboxWorker                       *)

\* W and P are the same specification; P has the theorems.
LEMMA SameWorkers ==
    /\ \A w : W!WorkerStep(w) <=> P!WorkerStep(w)
    /\ \A e : W!OrderCommitted(e) <=> P!OrderCommitted(e)
BY Zenon
   DEF W!workerVars, P!workerVars,
       W!WorkerStep, P!WorkerStep, W!OrderCommitted, P!OrderCommitted,
       W!Advance, P!Advance, W!Fault, P!Fault, W!Start, P!Start,
       W!Stop, P!Stop, W!Exit, P!Exit, W!SleepOver, P!SleepOver,
       W!FetchPending, P!FetchPending, W!FetchNothing, P!FetchNothing,
       W!FetchFails, P!FetchFails, W!NextEvent, P!NextEvent,
       W!EndBatch, P!EndBatch, W!Publish, P!Publish, W!PublishFails,
       P!PublishFails, W!BackoffOver, P!BackoffOver, W!MarkProcessed,
       P!MarkProcessed, W!MarkFailed, P!MarkFailed, W!Update,
       P!Update, W!CommitProcessed, P!CommitProcessed, W!CommitFailed,
       P!CommitFailed, W!SessionRaises, P!SessionRaises,
       W!DatabaseFault, P!DatabaseFault, W!ConnectionLost,
       P!ConnectionLost, W!Crash, P!Crash, W!Available, P!Available,
       W!Pending, P!Pending, W!Oldest, P!Oldest, W!Session, P!Session,
       W!Goto, P!Goto, W!Forget, P!Forget, W!Release, P!Release,
       W!SetStatus, P!SetStatus, W!Retry, P!Retry, W!Leave, P!Leave,
       W!MAX_RETRIES, P!MAX_RETRIES, W!Cardinality, P!Cardinality

\* A step of the system is a step of the workers, or invisible to them.
LEMMA StepOfWorkers == [Next]_vars => [P!Next]_(P!vars)
<1> SUFFICES ASSUME [Next]_vars PROVE [P!Next]_(P!vars)
  OBVIOUS
<1>1. ASSUME NEW w \in Workers, Work(w) PROVE P!Next
  <2>1. W!WorkerStep(w)
    BY <1>1 DEF Work, Proceed, W!WorkerStep, W!Advance
  <2> QED
    BY <2>1, SameWorkers DEF P!Next
<1>2. ASSUME NEW e \in Requests, W!OrderCommitted(e) PROVE P!Next
  BY <1>2, SameWorkers DEF P!Next
<1>3. ASSUME UNCHANGED workerVars PROVE UNCHANGED P!vars
  BY <1>3 DEF workerVars, P!vars, P!workerVars
<1>4. ASSUME NEW m \in Messages, Read(m) \/ Delete(m) PROVE UNCHANGED P!vars
  BY <1>3, <1>4 DEF Read, Receive, Reappear, Delete, workerVars
<1> QED
  BY <1>1, <1>2, <1>3, <1>4 DEF Next, vars

LEMMA InitWorkers == Init => P!Init
BY DEF Init, W!Init, W!OutboxInit, W!WorkerInit, P!Init, P!OutboxInit,
       P!WorkerInit

-----------------------------------------------------------------------------
(* Messages                                                                *)

\* Only a worker in an attempt sends, and only the event in its hands.
LEMMA WorkSends ==
    ASSUME P!TypeOK, NEW w \in Workers, Work(w)
    PROVE  \/ /\ step[w] = "publish" /\ current[w] \in Requests
              /\ Send(current[w], w)
           \/ place' = place /\ receives' = receives
<1>1. step[w] = "publish" => current[w] \in Requests
  BY DEF P!TypeOK, P!WorkerTypeOK, P!Handling
<1> QED
  BY <1>1 DEF Work, Proceed, W!Publish, W!PublishFails

\* Every step of the system keeps the types of the messages.
LEMMA NextMessages == P!TypeOK /\ TypeOK /\ [Next]_vars => TypeOK'
<1> SUFFICES ASSUME P!TypeOK, TypeOK, [Next]_vars PROVE TypeOK'
  OBVIOUS
<1> USE QueueAssumption DEF TypeOK, Messages, Places, Copies
<1>1. ASSUME NEW e \in Requests, NEW w \in Workers, Send(e, w),
             faulted' \in BOOLEAN
      PROVE  TypeOK'
  BY <1>1 DEF Send
<1>2. ASSUME place' = place, receives' = receives, faulted' \in BOOLEAN
      PROVE  TypeOK'
  BY <1>2
<1>3. ASSUME NEW m \in Messages, Read(m) \/ Delete(m) PROVE TypeOK'
  BY <1>3 DEF Read, Receive, Reappear, Delete, Move
<1>4. ASSUME NEW w \in Workers, Work(w) PROVE TypeOK'
  <2>1. faulted' \in BOOLEAN
    BY <1>4, Zenon DEF Work, Proceed
  <2> QED
    BY <1>1, <1>2, <1>4, <2>1, WorkSends
<1> QED
  BY <1>2, <1>3, <1>4 DEF Next, vars

\* The invariant: the types, and what the workers guarantee of their rows.
QueueInv == TypeOK /\ P!TypeOK /\ P!RowsInHand

LEMMA InitQueueInv == Init => QueueInv
<1> SUFFICES ASSUME Init PROVE QueueInv
  OBVIOUS
<1>1. P!TypeOK /\ P!RowsInHand
  BY InitWorkers, P!InitTypeOK, P!InitRowsInHand, QueueAssumption, TimesAssumption
<1>2. faulted \in BOOLEAN
  BY Zenon DEF Init
<1>3. TypeOK
  BY <1>2, QueueAssumption DEF Init, TypeOK, Places
<1> QED
  BY <1>1, <1>3 DEF QueueInv

LEMMA NextQueueInv == QueueInv /\ [Next]_vars => QueueInv'
<1> SUFFICES ASSUME QueueInv, [Next]_vars PROVE QueueInv'
  OBVIOUS
<1>1. [P!Next]_(P!vars)
  BY StepOfWorkers
<1>2. P!TypeOK' /\ P!RowsInHand'
  BY <1>1, P!NextTypeOK, P!NextRowsInHand, QueueAssumption, TimesAssumption
     DEF QueueInv
<1>3. TypeOK'
  BY NextMessages DEF QueueInv
<1> QED
  BY <1>2, <1>3 DEF QueueInv

\* Messages keep their types: none is received beyond the redrive limit.
THEOREM TypeCorrect == Spec => []TypeOK
<1>1. QueueInv => TypeOK
  BY DEF QueueInv
<1> QED
  BY <1>1, InitQueueInv, NextQueueInv, PTL DEF Spec

-----------------------------------------------------------------------------
(* An SQS that fails, and nothing else                                     *)

\* The requests that k attempts make at most.
Room(k) == k * SendRequests

\* What the proof needs of a product of two variables.
LEMMA RoomGrows ==
    /\ Room(0) = 0
    /\ \A k \in 0 .. 2 :
          /\ Room(k) \in Nat /\ Room(k + 1) \in Nat
          /\ Room(k + 1) = Room(k) + SendRequests
          /\ Room(k + 1) <= Room(3)
    /\ Room(3) \in Nat
<1>1. SendRequests \in Nat
  BY QueueAssumption
<1>2. /\ Room(0) = 0 /\ Room(1) = SendRequests
      /\ Room(2) = SendRequests + SendRequests
      /\ Room(3) = SendRequests + SendRequests + SendRequests
  BY <1>1 DEF Room
<1>3. \A k \in 0 .. 2 : k = 0 \/ k = 1 \/ k = 2
  OBVIOUS
<1>4. 0 + 1 = 1 /\ 1 + 1 = 2 /\ 2 + 1 = 3
  OBVIOUS
<1> QED
  BY <1>1, <1>2, <1>3, <1>4

\* What bounds the messages of an event that one worker has sent: they are
\* numbered through its attempts, it has the event in hand as long as that is
\* pending, and an event that waits in its batch it has not sent.  Nothing is
\* asked of the other workers: they can only settle the event.
Tally ==
    /\ \A w \in Workers : current[w] \notin todo[w] /\ session[w] # "broken"
    /\ \A e \in Requests, w \in Workers : \A c \in Sent(e, w) :
          /\ c <= Room(3)
          /\ outbox[e] # "absent"
          /\ outbox[e] = "pending" => current[w] = e
          /\ e \notin todo[w]
          /\ current[w] = e => c <= Room(attempt[w] + 1)
          /\ current[w] = e /\ step[w] = "publish" => c <= Room(attempt[w])

\* A send follows those of attempt[w] earlier attempts at most.
LEMMA SendFits ==
    ASSUME QueueInv, Tally, NEW w \in Workers, step[w] = "publish",
           NEW e \in Requests, e = current[w], Send(e, w)
    PROVE  /\ \A c \in Sent(e, w)' : c <= Room(attempt[w] + 1)
           /\ \A f \in Requests, v \in Workers :
                 <<f, v>> # <<e, w>> => Sent(f, v)' = Sent(f, v)
<1> USE QueueAssumption DEF Copies
<1>1. PICK first, last \in Copies :
         /\ Sent(e, w) = 1 .. (first - 1)
         /\ first <= last /\ last < first + SendRequests
         /\ place' = [m \in Messages |->
                         IF m \in {e} \X {w} \X (first .. last) THEN "visible"
                         ELSE place[m]]
  BY Zenon DEF Send
<1>2. attempt[w] \in 0 .. 2
  BY DEF QueueInv, P!TypeOK, P!WorkerTypeOK, P!MAX_RETRIES
<1>3. first - 1 <= Room(attempt[w])
  <2>1. CASE first = 1
    BY <1>2, <2>1, RoomGrows
  <2>2. CASE first # 1
    <3>1. first - 1 \in Sent(e, w)
      BY ONLY <1>1, <2>2, first \in Nat \ {0}, SMT
    <3> QED
      BY <3>1 DEF Tally
  <2> QED
    BY <2>1, <2>2
<1>4. last <= Room(attempt[w] + 1)
  <2>1. /\ first \in Nat /\ last \in Nat /\ SendRequests \in Nat
        /\ last < first + SendRequests
    BY <1>1
  <2>2. /\ Room(attempt[w]) \in Nat
        /\ Room(attempt[w] + 1) = Room(attempt[w]) + SendRequests
    BY <1>2, RoomGrows
  <2> QED
    BY ONLY <1>3, <2>1, <2>2, SMT
<1>5. \A f \in Requests, v \in Workers, c \in Copies :
         place'[<<f, v, c>>] = IF f = e /\ v = w /\ c \in first .. last
                               THEN "visible" ELSE place[<<f, v, c>>]
  BY <1>1 DEF Messages
<1>6. ASSUME NEW c \in Sent(e, w)' PROVE c <= Room(attempt[w] + 1)
  <2>1. c \in Copies /\ (c \in first .. last \/ c \in Sent(e, w))
    <3>1. c \in Copies /\ place'[<<e, w, c>>] # "unsent"
      BY <1>6 DEF Sent
    <3>2. CASE c \in first .. last
      BY <3>1, <3>2
    <3>3. CASE c \notin first .. last
      <4>1. place'[<<e, w, c>>] = place[<<e, w, c>>]
        BY ONLY <1>5, <3>1, <3>3, e \in Requests, w \in Workers, Zenon
      <4> QED
        BY <3>1, <4>1 DEF Sent
    <3> QED
      BY <3>2, <3>3
  <2>2. first \in Nat \ {0} /\ last \in Nat
    BY <1>1
  <2>3. c \in Nat /\ c <= last
    BY ONLY <1>1, <2>1, <2>2, Copies = 1 .. MaxCopies, SMT
  <2> QED
    BY <1>2, <1>4, <2>2, <2>3, RoomGrows
<1>7. ASSUME NEW f \in Requests, NEW v \in Workers, <<f, v>> # <<e, w>>
      PROVE  Sent(f, v)' = Sent(f, v)
  <2>1. \A c \in Copies : place'[<<f, v, c>>] = place[<<f, v, c>>]
    BY <1>5, <1>7
  <2> QED
    BY <2>1 DEF Sent
<1> QED
  BY <1>6, <1>7

\* And a step that sends nothing leaves every count as it is.
LEMMA NextTally ==
    QueueInv /\ (~faulted => Tally) /\ [Next]_vars => (~faulted' => Tally')
<1> SUFFICES ASSUME QueueInv, ~faulted => Tally, [Next]_vars, ~faulted'
             PROVE  Tally'
  OBVIOUS
<1>0. Tally
  BY DEF Next, Work, Proceed, Read, Receive, Reappear, Delete, vars
<1>1. ASSUME NEW w \in Workers, Work(w) PROVE Tally'
  <2> USE <1>0, QueueAssumption
      DEF Tally, QueueInv, P!TypeOK, P!WorkerTypeOK, P!OutboxTypeOK,
          P!Handling, P!Steps, P!MAX_RETRIES, W!MAX_RETRIES, W!Goto, W!Session
  <2>1. CASE (W!Publish(w) \/ W!PublishFails(w)) /\ Send(current[w], w)
    <3>1. /\ step[w] = "publish" /\ step'[w] # "publish"
          /\ \A v \in Workers \ {w} : step'[v] = step[v]
          /\ UNCHANGED <<outbox, session, todo, current, attempt>>
      BY <2>1 DEF W!Publish, W!PublishFails, W!Retry
    <3>2. PICK e \in Requests : e = current[w]
      BY <3>1
    <3>3. outbox[e] # "absent" /\ e \notin todo[w]
      BY <3>1, <3>2 DEF P!RowsInHand, P!Batch, P!Stored
    <3>4. attempt[w] \in 0 .. 2
      OBVIOUS
    <3>5. /\ \A c \in Sent(e, w)' : c <= Room(attempt[w] + 1)
          /\ \A f \in Requests, v \in Workers :
                <<f, v>> # <<e, w>> => Sent(f, v)' = Sent(f, v)
      BY <2>1, <3>1, <3>2, SendFits
    <3>6. \A c \in Sent(e, w)' : c <= Room(3)
      <4>1. \A c \in Sent(e, w)' : c \in Nat
        BY DEF Sent, Copies
      <4> QED
        BY <3>4, <3>5, <4>1, RoomGrows
    <3> QED
      BY <3>1, <3>2, <3>3, <3>5, <3>6
  <2>0. ASSUME place' = place
        PROVE  \A e \in Requests, v \in Workers : Sent(e, v)' = Sent(e, v)
    BY <2>0 DEF Sent
  <2>2. CASE W!Exit(w) /\ place' = place
    BY <2>0, <2>2 DEF W!Exit
  <2>3. CASE W!SleepOver(w) /\ place' = place
    BY <2>0, <2>3 DEF W!SleepOver
  <2>4. CASE W!FetchPending(w) /\ place' = place
    BY <2>0, <2>4 DEF W!FetchPending, W!Available, W!Pending
  <2>5. CASE W!FetchNothing(w) /\ place' = place
    BY <2>0, <2>5 DEF W!FetchNothing
  <2>6. CASE W!NextEvent(w) /\ place' = place
    BY <2>0, <2>6 DEF W!NextEvent, W!Oldest
  <2>7. CASE W!EndBatch(w) /\ place' = place
    BY <2>0, <2>7 DEF W!EndBatch, W!Release
  <2>8. CASE W!BackoffOver(w) /\ place' = place
    <3>1. attempt[w] \in 0 .. 2 /\ attempt'[w] = attempt[w] + 1
          /\ attempt'[w] \in 0 .. 2
      BY <2>8 DEF W!BackoffOver
    <3>2. \A e \in Requests : \A c \in Sent(e, w) : c \in Nat
      BY DEF Sent, Copies
    <3> QED
      BY <2>0, <2>8, <3>1, <3>2, RoomGrows DEF W!BackoffOver
  <2>9. CASE W!MarkProcessed(w) /\ place' = place
    BY <2>0, <2>9 DEF W!MarkProcessed, W!Update
  <2>10. CASE W!MarkFailed(w) /\ place' = place
    BY <2>0, <2>10 DEF W!MarkFailed, W!Update
  <2>11. CASE W!CommitProcessed(w) /\ place' = place
    BY <2>0, <2>11 DEF W!CommitProcessed, W!SetStatus, W!Release, W!Leave
  <2>12. CASE W!CommitFailed(w) /\ place' = place
    BY <2>0, <2>12 DEF W!CommitFailed, W!SetStatus, W!Release, W!Leave
  <2>13. CASE W!SessionRaises(w) /\ place' = place
    BY <2>13 DEF W!SessionRaises
  <2>14. CASE W!Start(w) /\ place' = place
    BY <2>0, <2>14 DEF W!Start
  <2>15. CASE W!Stop(w) /\ place' = place
    BY <2>0, <2>15 DEF W!Stop
  <2>16. CASE W!PublishFails(w) /\ place' = place
    BY <2>0, <2>16 DEF W!PublishFails, W!Retry
  <2>17. \/ (W!Publish(w) \/ W!PublishFails(w)) /\ Send(current[w], w)
         \/ W!PublishFails(w) /\ place' = place
         \/ (W!Advance(w) \/ W!Start(w) \/ W!Stop(w)) /\ step[w] # "publish" /\ place' = place
         \/ (W!Start(w) \/ W!Stop(w)) /\ place' = place
    BY <1>1 DEF Work, Proceed
  <2> QED
    BY <2>1, <2>2, <2>3, <2>4, <2>5, <2>6, <2>7,
       <2>8, <2>9, <2>10, <2>11, <2>12, <2>13, <2>14, <2>15, <2>16, <2>17
       DEF W!Advance, W!Publish, W!PublishFails
<1>2. ASSUME NEW e \in Requests, W!OrderCommitted(e), place' = place PROVE Tally'
  BY <1>0, <1>2 DEF W!OrderCommitted, W!workerVars, Tally, Sent, QueueInv, P!TypeOK,
              P!OutboxTypeOK
<1>3. ASSUME NEW m \in Messages, Read(m) \/ Delete(m) PROVE Tally'
  <2>1. \A e \in Requests, w \in Workers : Sent(e, w)' = Sent(e, w)
    BY <1>3 DEF Read, Receive, Reappear, Delete, Move, Sent, QueueInv, TypeOK, Messages
  <2> QED
    BY <1>0, <1>3, <2>1 DEF Read, Receive, Reappear, Delete, workerVars, Tally
<1>4. ASSUME UNCHANGED vars PROVE Tally'
  BY <1>0, <1>4 DEF vars, workerVars, Tally, Sent
<1> QED
  BY <1>1, <1>2, <1>3, <1>4 DEF Next

\* Nothing has been sent at first.
LEMMA InitTally == Init => (~faulted => Tally)
BY QueueAssumption DEF Init, W!Init, W!WorkerInit, Tally, Sent, Messages

\* However many workers share an event and however SQS loses their answers,
\* none of them sends it more often than botocore makes requests in its
\* attempts, as long as neither a process nor the database has failed.
THEOREM DuplicatesAreBoundedCorrect == Spec => []DuplicatesAreBounded
<1>1. (~faulted => Tally) => DuplicatesAreBounded
  <2> SUFFICES ASSUME Tally, NEW e \in Requests, NEW w \in Workers
               PROVE  Cardinality(Sent(e, w)) <= W!MAX_RETRIES * SendRequests
    BY DEF DuplicatesAreBounded
  <2> DEFINE n == Room(3)
  <2>1. n \in Nat /\ n = W!MAX_RETRIES * SendRequests
    BY RoomGrows DEF Room, W!MAX_RETRIES
  <2>2. Sent(e, w) \subseteq 1 .. n
    BY <2>1 DEF Tally, Sent, Copies
  <2> HIDE DEF n
  <2>3. /\ IsFiniteSet(1 .. n)
        /\ Cardinality(1 .. n) = IF 1 > n THEN 0 ELSE n - 1 + 1
    <3>1. 1 \in Int /\ n \in Int
      BY <2>1
    <3> QED
      BY <3>1, FS_Interval, Zenon
  <2>4. Cardinality(1 .. n) = n
    BY <2>1, <2>3
  <2> QED
    BY <2>1, <2>2, <2>3, <2>4, FS_Subset
<1> QED
  BY <1>1, InitTally, InitQueueInv, NextQueueInv, NextTally, PTL DEF Spec

\* A worker that has sent an event lets go of it only when it is settled.
THEOREM ResentOnlyAfterFaultsCorrect == Spec => []ResentOnlyAfterFaults
<1>1. (~faulted => Tally) => ResentOnlyAfterFaults
  BY DEF Tally, ResentOnlyAfterFaults
<1> QED
  BY <1>1, InitTally, InitQueueInv, NextQueueInv, NextTally, PTL DEF Spec
=============================================================================
