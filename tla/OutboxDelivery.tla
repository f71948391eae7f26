--------------------------- MODULE OutboxDelivery ---------------------------
(***************************************************************************)
(* What the outbox promises, without workers, locks, batches or retries:   *)
(* at-least-once delivery.  A message is sent only for a committed event,  *)
(* a row is marked processed only after its message was sent, and a row    *)
(* neither disappears nor becomes pending again.  "failed" and "processed" *)
(* may replace each other, for that is all that the unguarded UPDATEs of   *)
(* several workers promise.                                                *)
(***************************************************************************)
CONSTANTS Requests

VARIABLES
    outbox,     \* the status of every row, "absent" before it is committed
    queue       \* the events that have been sent

vars == <<outbox, queue>>

Init ==
    /\ outbox = [e \in Requests |-> "absent"]
    /\ queue = {}

Set(e, status) == outbox' = [outbox EXCEPT ![e] = status]

Commit(e) ==
    /\ outbox[e] = "absent"
    /\ Set(e, "pending")
    /\ UNCHANGED queue

Send(e) ==
    /\ outbox[e] # "absent"
    /\ queue' = queue \cup {e}
    /\ UNCHANGED outbox

Acknowledge(e) ==
    /\ outbox[e] # "absent"
    /\ e \in queue
    /\ Set(e, "processed")
    /\ UNCHANGED queue

GiveUp(e) ==
    /\ outbox[e] # "absent"
    /\ Set(e, "failed")
    /\ UNCHANGED queue

Next == \E e \in Requests : Commit(e) \/ Send(e) \/ Acknowledge(e) \/ GiveUp(e)

Spec == Init /\ [][Next]_vars
=============================================================================
