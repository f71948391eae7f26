-------------------------- MODULE IdempotentOrders --------------------------
(***************************************************************************)
(* What POST /orders promises, without sessions, transactions or a pool:   *)
(* a map from idempotency keys to orders in which one request per key can  *)
(* create an order, together with its event, and every other request is    *)
(* given that order or is refused.                                         *)
(***************************************************************************)
CONSTANTS Requests, Keys, None

VARIABLES
    orders,     \* key -> the request that created its order, or None
    events,     \* the orders whose event is stored
    key,        \* the idempotency key of every request, once received
    answer      \* the answer to every request, status 0 before it is given

vars == <<orders, events, key, answer>>

Init ==
    /\ orders = [k \in Keys |-> None]
    /\ events = {}
    /\ key = [r \in Requests |-> None]
    /\ answer = [r \in Requests |-> [status |-> 0, order |-> None]]

Give(r, status, order) ==
    answer' = [answer EXCEPT ![r] = [status |-> status, order |-> order]]

\* A request arrives; a malformed one is refused at once.
Receive(r) ==
    /\ key[r] = None
    /\ \E k \in Keys : key' = [key EXCEPT ![r] = k]
    /\ UNCHANGED answer \/ Give(r, 400, None)
    /\ UNCHANGED <<orders, events>>

Waiting(r) == key[r] # None /\ answer[r].status = 0

\* The order and its event appear together.  The client learns of it (201)
\* or not (500, or no answer at all).
Create(r) ==
    /\ Waiting(r)
    /\ orders[key[r]] = None
    /\ orders' = [orders EXCEPT ![key[r]] = r]
    /\ events' = events \cup {r}
    /\ Give(r, 201, r) \/ Give(r, 500, None) \/ UNCHANGED answer
    /\ UNCHANGED key

\* A repeated key is given the order it already has.
Return(r) ==
    /\ Waiting(r)
    /\ orders[key[r]] # None
    /\ Give(r, 200, orders[key[r]])
    /\ UNCHANGED <<orders, events, key>>

Refuse(r) ==
    /\ Waiting(r)
    /\ \E status \in {422, 503, 500} : Give(r, status, None)
    /\ UNCHANGED <<orders, events, key>>

Next == \E r \in Requests : Receive(r) \/ Create(r) \/ Return(r) \/ Refuse(r)

Spec == Init /\ [][Next]_vars

-----------------------------------------------------------------------------
(* What this comes to                                                      *)

\* Whoever is given an order for a key is given the same one, and only one
\* of them has created it.
OneOrderPerKey ==
    \A q, r \in Requests :
        key[q] = key[r] /\ answer[q].order # None /\ answer[r].order # None =>
            /\ answer[q].order = answer[r].order
            /\ answer[q].status = 201 /\ answer[r].status = 201 => q = r

\* The order of a key, its event and every answer are for ever.
PromisesAreFinal ==
    [][/\ \A k \in Keys : orders[k] # None => orders'[k] = orders[k]
       /\ \A r \in Requests : answer[r].status # 0 => answer'[r] = answer[r]
       /\ events \subseteq events']_vars
=============================================================================
